-------------------------- MODULE IncrementalIngest --------------------------
(***************************************************************************)
(* One table on its way from the operational PostgreSQL database to the    *)
(* Raw landing zone and on to the Stage layer: the raw ingest job          *)
(* (BaseRawIngestJob), the stage job of the same table (BaseStageJob, run  *)
(* by BaseSparkJob.run) and the row of pipeline_watermark both of them     *)
(* read and write under the table's name.                                  *)
(*                                                                         *)
(* One action per remote effect of the two jobs.  Airflow runs the raw     *)
(* task, then the stage task, one DAG run at a time (max_active_runs = 1), *)
(* and retries a failed task.  The operational database is external: rows  *)
(* are committed there with an updated_at, and the jobs read it.           *)
(*                                                                         *)
(* A row version is a pair <<key, updated_at>>.  The content of a row, its *)
(* batch id and the number of copies of a version in the landing zone are  *)
(* abstracted away; the stage job keeps one version of a key in any case.  *)
(***************************************************************************)
EXTENDS Naturals, FiniteSets

CONSTANTS
    Keys,         \* primary keys of the table
    MaxClock,     \* bound on the clock, in ticks of updated_at
    MaxLateness,  \* how far behind the clock the updated_at of a commit may be
    LiveSource,   \* may the source commit while a DAG run is active?
    Incremental,  \* LoadType.INCREMENTAL, or LoadType.FULL when FALSE
    Retries,      \* default_args["retries"] of the DAG
    MaxCrashes,   \* bound on failed task attempts
    MaxReadFaults,  \* bound on metadata queries that fail
    MaxWriteFaults  \* bound on metadata updates that fail

ASSUME ClockAssumption == MaxClock \in Nat \ {0} /\ MaxLateness \in Nat
ASSUME ModeAssumption == LiveSource \in BOOLEAN /\ Incremental \in BOOLEAN
ASSUME FaultAssumption ==
    /\ Retries \in Nat
    /\ MaxCrashes \in Nat
    /\ MaxReadFaults \in Nat
    /\ MaxWriteFaults \in Nat

VARIABLES
    now,      \* the clock
    source,   \* updated_at of the committed version of each key, or NoTime
    landed,   \* row versions under /raw/credit_risk/<table>
    rawTorn,  \* the landing zone was deleted and its overwrite not committed
    stage,    \* version of each key under /stage/credit_risk/<table>
    stageTorn, \* same, for the stage zone
    wm,       \* last_watermark_value of the table's row, NoTime: no row
    pc,       \* where the running task attempt is
    attempt,  \* retries already used by the running task
    job,      \* local variables of the running attempt
    audit,    \* the last row of pipeline_audit_log for this table
    faults    \* failures the environment may still inject

vars == <<now, source, landed, rawTorn, stage, stageTorn, wm, pc, attempt,
          job, audit, faults>>

NoTime == 0
Times == 1..MaxClock
Versions == Keys \X Times

RawPoints == {"raw_queued", "raw_load", "raw_write", "raw_register",
              "raw_max", "raw_watermark", "raw_audit"}
StagePoints == {"stage_queued", "stage_load", "stage_write",
                "stage_register", "stage_watermark", "stage_audit"}

\* Locals: last_wm inside the extraction query, start_time, the cached
\* DataFrame that was written, last_wm_val about to be committed, status.
Job == [cursor : 0..MaxClock, start : 0..MaxClock, batch : SUBSET Versions,
        next : 0..MaxClock, status : {"FAILED", "SUCCESS"}]
\* Mutant of FreshJob: success is assumed until something fails.
FreshJob_Optimistic == [cursor |-> NoTime, start |-> NoTime, batch |-> {},
                        next |-> NoTime, status |-> "SUCCESS"]

FreshJob == [cursor |-> NoTime, start |-> NoTime, batch |-> {},
             next |-> NoTime, status |-> "FAILED"]
NoAudit == [status |-> "none", error |-> FALSE]

TypeOK ==
    /\ now \in Times
    /\ source \in [Keys -> 0..MaxClock]
    /\ landed \in SUBSET Versions
    /\ rawTorn \in BOOLEAN
    /\ stage \in [Keys -> 0..MaxClock]
    /\ stageTorn \in BOOLEAN
    /\ wm \in 0..MaxClock
    /\ pc \in {"idle"} \cup RawPoints \cup StagePoints
    /\ attempt \in 0..Retries
    /\ job \in Job
    /\ audit \in [status : {"none", "FAILED", "SUCCESS"}, error : BOOLEAN]
    /\ faults \in [crash : 0..MaxCrashes, read : 0..MaxReadFaults,
                   write : 0..MaxWriteFaults]

Init ==
    /\ now = 1
    /\ source = [k \in Keys |-> NoTime]
    /\ landed = {} /\ rawTorn = FALSE
    /\ stage = [k \in Keys |-> NoTime] /\ stageTorn = FALSE
    /\ wm = NoTime
    /\ pc = "idle" /\ attempt = 0 /\ job = FreshJob
    /\ audit = NoAudit
    /\ faults = [crash |-> MaxCrashes, read |-> MaxReadFaults,
                 write |-> MaxWriteFaults]

-----------------------------------------------------------------------------
(* The operational database and the clock.                                 *)

Tick ==
    /\ now < MaxClock
    /\ now' = now + 1
    /\ UNCHANGED <<source, landed, rawTorn, stage, stageTorn, wm, pc, attempt,
                   job, audit, faults>>

\* A transaction inserts or updates the row of k.  With MaxLateness = 0 its
\* updated_at is the commit time, otherwise it may lie in the past.
SourceCommit(k) ==
    /\ LiveSource \/ pc = "idle"
    /\ \E t \in Times :
          /\ t <= now /\ now <= t + MaxLateness
          /\ t > source[k]
          /\ source' = [source EXCEPT ![k] = t]
    /\ UNCHANGED <<now, landed, rawTorn, stage, stageTorn, wm, pc, attempt,
                   job, audit, faults>>

\* Mutant of Matching: a strict boundary.
Matching_Strict(w) ==
    {v \in Versions : source[v[1]] = v[2] /\ v[2] > w}

\* Mutant of Matching: the boundary is ignored.
Matching_All(w) == {v \in Versions : source[v[1]] = v[2] /\ w = w}

\* The rows the extraction query with boundary w returns when it is executed:
\* SELECT * FROM t WHERE updated_at >= w, or the whole table without a w.
Matching(w) ==
    {v \in Versions : source[v[1]] = v[2] /\ v[2] >= w}

\* Mutant of IsMaxUpdatedAt: one tick more, to spare the overlap.
IsMaxUpdatedAt_Next(t, rows) ==
    /\ \E v \in rows : v[2] + 1 = t
    /\ \A v \in rows : v[2] < t

\* F.max("updated_at") of a set of rows returns t.
IsMaxUpdatedAt(t, rows) ==
    /\ \E v \in rows : v[2] = t
    /\ \A v \in rows : v[2] <= t

-----------------------------------------------------------------------------
(* The metadata store.  Both functions swallow every exception.            *)

\* Mutant of GetWatermark: the row is never found.
GetWatermark_NotFound(w) == w = NoTime /\ UNCHANGED faults

\* get_watermark returns w: the stored value, or None when the query failed.
GetWatermark(w) ==
    \/ w = wm /\ UNCHANGED faults
    \/ /\ faults.read > 0
       /\ w = NoTime
       /\ faults' = [faults EXCEPT !.read = @ - 1]

\* update_watermark upserts the row of the table, or fails unnoticed.
UpdateWatermark(w) ==
    \/ wm' = w /\ UNCHANGED faults
    \/ /\ faults.write > 0
       /\ faults' = [faults EXCEPT !.write = @ - 1]
       /\ UNCHANGED wm

\* log_pipeline_execution appends a row, or fails unnoticed.
LogExecution(row) ==
    \/ audit' = row /\ UNCHANGED faults
    \/ /\ faults.write > 0
       /\ faults' = [faults EXCEPT !.write = @ - 1]
       /\ UNCHANGED audit

-----------------------------------------------------------------------------
(* The raw ingest task.                                                    *)

\* The scheduler starts a DAG run; its first task of this table is queued.
StartRun ==
    /\ pc = "idle"
    /\ pc' = "raw_queued"
    /\ attempt' = 0
    /\ UNCHANGED <<now, source, landed, rawTorn, stage, stageTorn, wm, job,
                   audit, faults>>

\* run() notes start_time; extract() reads the watermark and builds the query,
\* which Spark does not execute before the write.
RawExtract ==
    /\ pc = "raw_queued"
    /\ \E w \in 0..MaxClock :
          /\ IF Incremental THEN GetWatermark(w)
                            ELSE w = NoTime /\ UNCHANGED faults
          /\ job' = [FreshJob EXCEPT !.cursor = w, !.start = now]
    /\ pc' = "raw_load"
    /\ UNCHANGED <<now, source, landed, rawTorn, stage, stageTorn, wm,
                   attempt, audit>>

\* Mutant of RawLoad: WriteMode.APPEND for every load.
RawLoad_Append ==
    /\ pc = "raw_load"
    /\ pc' = "raw_write"
    /\ UNCHANGED <<now, source, landed, rawTorn, stage, stageTorn, wm,
                   attempt, job, audit, faults>>

\* load() asks for the watermark a second time to choose the write mode.  The
\* first effect of a static overwrite is the deletion of the target.
RawLoad ==
    /\ pc = "raw_load"
    /\ \E w \in 0..MaxClock :
          /\ IF Incremental THEN GetWatermark(w)
                            ELSE w = NoTime /\ UNCHANGED faults
          /\ IF w = NoTime
             THEN landed' = {} /\ rawTorn' = TRUE
             ELSE UNCHANGED <<landed, rawTorn>>
    /\ pc' = "raw_write"
    /\ UNCHANGED <<now, source, stage, stageTorn, wm, attempt, job, audit>>

\* The write job executes the query into the cache and commits the files.
RawWrite ==
    /\ pc = "raw_write"
    /\ job' = [job EXCEPT !.batch = Matching(job.cursor)]
    /\ landed' = landed \cup Matching(job.cursor)
    /\ rawTorn' = FALSE
    /\ pc' = "raw_register"
    /\ UNCHANGED <<now, source, stage, stageTorn, wm, attempt, audit, faults>>

\* The cache is dropped, the Hive table registered and status set to SUCCESS.
RawRegister ==
    /\ pc = "raw_register"
    /\ job' = [job EXCEPT !.status = "SUCCESS"]
    /\ pc' = "raw_max"
    /\ UNCHANGED <<now, source, landed, rawTorn, stage, stageTorn, wm,
                   attempt, audit, faults>>

\* F.max over the DataFrame that is no longer cached: the query runs again.
\* An empty increment keeps the stored watermark (a third get_watermark).
RawMax ==
    /\ pc = "raw_max"
    /\ \E w \in 0..MaxClock :
          /\ \/ /\ job.batch # {} \/ ~Incremental
                /\ IF Matching(job.cursor) = {}
                   THEN w = job.start
                   ELSE IsMaxUpdatedAt(w, Matching(job.cursor))
                /\ UNCHANGED faults
             \/ /\ job.batch = {} /\ Incremental
                /\ \E stored \in 0..MaxClock :
                      /\ GetWatermark(stored)
                      /\ w = IF stored = NoTime THEN job.start ELSE stored
          /\ job' = [job EXCEPT !.next = w]
    /\ pc' = "raw_watermark"
    /\ UNCHANGED <<now, source, landed, rawTorn, stage, stageTorn, wm,
                   attempt, audit>>

RawWatermark ==
    /\ pc = "raw_watermark"
    /\ UpdateWatermark(job.next)
    /\ pc' = "raw_audit"
    /\ UNCHANGED <<now, source, landed, rawTorn, stage, stageTorn, attempt,
                   job, audit>>

\* finally: the audit row; the attempt succeeds and the stage task is queued.
RawFinish ==
    /\ pc = "raw_audit"
    /\ LogExecution([status |-> job.status, error |-> FALSE])
    /\ pc' = "stage_queued"
    /\ attempt' = 0
    /\ job' = FreshJob
    /\ UNCHANGED <<now, source, landed, rawTorn, stage, stageTorn, wm>>

-----------------------------------------------------------------------------
(* The stage task of the same table.                                       *)

\* Mutant of Deduplicated: all versions of a key that has several are
\* rejected, not all but one.
Deduplicated_Unique ==
    {s \in [Keys -> 0..MaxClock] :
        \A k \in Keys :
            IF Cardinality({t \in Times : <<k, t>> \in landed}) = 1
            THEN <<k, s[k]>> \in landed
            ELSE s[k] = NoTime}

\* The versions a dedup by primary key may keep: one per landed key, and any
\* of them, since row_number() orders the versions of a key by the key itself.
Deduplicated ==
    {s \in [Keys -> 0..MaxClock] :
        \A k \in Keys :
            IF \E t \in Times : <<k, t>> \in landed
            THEN <<k, s[k]>> \in landed
            ELSE s[k] = NoTime}

StageExtract ==
    /\ pc = "stage_queued"
    /\ job' = [FreshJob EXCEPT !.start = now]
    /\ pc' = "stage_load"
    /\ UNCHANGED <<now, source, landed, rawTorn, stage, stageTorn, wm,
                   attempt, audit, faults>>

\* BaseSparkJob.load with WriteMode.OVERWRITE: the target is deleted ...
StageLoad ==
    /\ pc = "stage_load"
    /\ stage' = [k \in Keys |-> NoTime]
    /\ stageTorn' = TRUE
    /\ pc' = "stage_write"
    /\ UNCHANGED <<now, source, landed, rawTorn, wm, attempt, job, audit,
                   faults>>

\* ... and the cleaned rows of the whole landing zone are written.
StageWrite ==
    /\ pc = "stage_write"
    /\ stage' \in Deduplicated
    /\ stageTorn' = FALSE
    /\ pc' = "stage_register"
    /\ UNCHANGED <<now, source, landed, rawTorn, wm, attempt, job, audit,
                   faults>>

\* A stage job has no watermark_col, so last_wm_val is its start_time.
StageRegister ==
    /\ pc = "stage_register"
    /\ job' = [job EXCEPT !.status = "SUCCESS", !.next = job.start]
    /\ pc' = "stage_watermark"
    /\ UNCHANGED <<now, source, landed, rawTorn, stage, stageTorn, wm,
                   attempt, audit, faults>>

\* The key of the upsert is the table's name, the one the raw job uses.
StageWatermark ==
    /\ pc = "stage_watermark"
    /\ UpdateWatermark(job.next)
    /\ pc' = "stage_audit"
    /\ UNCHANGED <<now, source, landed, rawTorn, stage, stageTorn, attempt,
                   job, audit>>

StageFinish ==
    /\ pc = "stage_audit"
    /\ LogExecution([status |-> job.status, error |-> FALSE])
    /\ pc' = "idle"
    /\ attempt' = 0
    /\ job' = FreshJob
    /\ UNCHANGED <<now, source, landed, rawTorn, stage, stageTorn, wm>>

-----------------------------------------------------------------------------
(* Failed attempts.                                                        *)

\* Mutant of Reschedule: the stage task runs when the raw task has failed.
Reschedule_AllDone ==
    /\ IF attempt < Retries
       THEN /\ attempt' = attempt + 1
            /\ pc' = IF pc \in RawPoints THEN "raw_queued" ELSE "stage_queued"
       ELSE /\ attempt' = 0
            /\ pc' = IF pc \in RawPoints THEN "stage_queued" ELSE "idle"
    /\ job' = FreshJob

\* Mutant of Reschedule: attempts are counted and never compared.
Reschedule_Unbounded ==
    /\ attempt' = attempt + 1
    /\ pc' = IF pc \in RawPoints THEN "raw_queued" ELSE "stage_queued"
    /\ job' = FreshJob

\* What Airflow does with a failed attempt: retry the task, or fail the run.
Reschedule ==
    /\ IF attempt < Retries
       THEN /\ attempt' = attempt + 1
            /\ pc' = IF pc \in RawPoints THEN "raw_queued" ELSE "stage_queued"
       ELSE attempt' = 0 /\ pc' = "idle"
    /\ job' = FreshJob

\* An exception reaches run(): the audit row is written with the value that
\* status has at that moment, then the exception is raised again.  (When the
\* audit row is lost too, the attempt looks like a killed one.)
Raise ==
    /\ pc \in {"raw_load", "raw_write", "raw_register", "raw_max",
               "stage_load", "stage_write", "stage_register"}
    /\ faults.crash > 0
    /\ faults' = [faults EXCEPT !.crash = @ - 1]
    /\ audit' = [status |-> job.status, error |-> TRUE]
    /\ Reschedule
    /\ UNCHANGED <<now, source, landed, rawTorn, stage, stageTorn, wm>>

\* The driver is killed (container lost, node down): no audit row.
Kill ==
    /\ pc # "idle"
    /\ faults.crash > 0
    /\ faults' = [faults EXCEPT !.crash = @ - 1]
    /\ Reschedule
    /\ UNCHANGED <<now, source, landed, rawTorn, stage, stageTorn, wm, audit>>

-----------------------------------------------------------------------------

RawStep == \/ RawExtract \/ RawLoad \/ RawWrite \/ RawRegister
           \/ RawMax \/ RawWatermark \/ RawFinish

StageStep == \/ StageExtract \/ StageLoad \/ StageWrite
             \/ StageRegister \/ StageWatermark \/ StageFinish

Next == \/ Tick
        \/ \E k \in Keys : SourceCommit(k)
        \/ StartRun
        \/ RawStep
        \/ StageStep
        \/ Raise
        \/ Kill

Spec == Init /\ [][Next]_vars

\* The scheduler starts a run every day and an attempt that is neither killed
\* nor raises goes on; failures and commits are never owed.
FairSpec == Spec /\ WF_vars(StartRun) /\ WF_vars(RawStep) /\ WF_vars(StageStep)

-----------------------------------------------------------------------------
(* Properties.                                                             *)

\* No metadata query has failed so far; one that fails looks like a table
\* without a watermark, and a load then starts again from nothing.
MetadataAnswers == faults.read = MaxReadFaults

\* Every committed row older than w has reached the landing zone.
Covered(w) ==
    \A k \in Keys :
        source[k] # NoTime /\ source[k] < w => <<k, source[k]>> \in landed

\* The next increment starts at the watermark, so a row below it that has not
\* landed is lost for good: "keeping the landing zone complete".
LandingComplete == Covered(wm)

\* The watermark never runs ahead of the clock: a row committed from now on,
\* with a current updated_at, is inside the next increment.
WatermarkInPast == wm <= now

\* An overwrite that was interrupted after the deletion of the landing zone
\* leaves no watermark behind, so the retry reads the whole table again.
TornOnlyBeforeFirstWatermark == MetadataAnswers /\ rawTorn => wm = NoTime

\* The stage task never reads a landing zone whose overwrite did not commit.
StageReadsCommitted == pc \in StagePoints => ~rawTorn

\* A FULL load of a quiet source leaves exactly the rows of the source, none
\* of an earlier snapshot, for the stage task to read.
FullLoadIsSnapshot == pc \in StagePoints => landed = Matching(NoTime)

\* An attempt that fails after its status was set reports SUCCESS together with
\* an error; still, whoever finds SUCCESS in the audit log may rely on it that
\* the output of the attempt is committed.
AuditedOutput ==
    [][audit' # audit /\ audit'.status = "SUCCESS" =>
          IF pc \in RawPoints THEN ~rawTorn' ELSE ~stageTorn']_vars

\* Neither of the two writers ever moves the shared watermark backwards, as
\* long as the metadata store answers.
WatermarkMonotone == [][MetadataAnswers' => wm' >= wm]_vars

\* Once a watermark is committed, and as long as the metadata store answers,
\* increments are appended: nothing that has landed disappears.
LandingGrows ==
    [][MetadataAnswers' /\ wm # NoTime => landed \subseteq landed']_vars

\* The stage job moves the watermark over rows that have landed only.
StageAdvanceCovered ==
    [][pc = "stage_watermark" /\ wm' # wm => Covered(wm')]_vars

\* The two jobs and their failures implement the promise of SafeCursor: a
\* cursor that moves over landed rows only and never back.
Cursor == INSTANCE SafeCursor
            WITH src <- source, lake <- landed, cursor <- wm
ImplementsCursor == Cursor!Spec

\* Every committed version lands, unless a newer version of the row replaces
\* it first; failed attempts delay it and cannot prevent it.
EventuallyLanded ==
    \A k \in Keys, t \in Times :
        (source[k] = t) ~> (<<k, t>> \in landed \/ source[k] # t)

\* Every key of the source is served by the stage zone in the end.
EventuallyStaged ==
    \A k \in Keys : (source[k] # NoTime) ~> (stage[k] # NoTime)

=============================================================================
