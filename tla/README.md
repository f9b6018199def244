# Verification of the Home Credit risk pipeline

TLA+ modules, TLC configurations and TLAPS proofs for the batch data platform
of this repository: Airflow submits Spark jobs to YARN, the jobs move tables
from an operational PostgreSQL database through the Raw, Stage and Curated
zones of HDFS, and a shell script publishes the result to ClickHouse.  Line
numbers refer to the sources at the verified commit; `PROJECT.json` maps every
definition to them.

## 1. The system

| Component | Sources | State it keeps | Operations |
|---|---|---|---|
| Job lifecycle | `pipeline/src/common/base_spark_job.py` | target directory, Hive table, watermark row, audit row | `run`: extract, validate, transform, load, update watermark, audit in `finally` |
| Raw ingest | `base_raw_ingest.py`, `jobs/raw/*` | `/raw/credit_risk/<t>`, watermark row | incremental or full extraction over JDBC, overwrite or append, maximum of `updated_at` |
| Metadata store | `watermark.py`, `audit.py`, `db_metadata.py` | `pipeline_watermark`, `pipeline_audit_log` (PostgreSQL) | `get_watermark`, `update_watermark` (upsert by table name), `log_pipeline_execution`; each swallows every exception |
| Stage cleaning | `base_stage_job.py`, `jobs/stage/*` | `/stage/credit_risk/<t>`, quarantine slices by `_batch_id` | cast, drop rows without required columns, tag null keys and duplicates, route rejects, write survivors |
| Customer dimension | `jobs/curated/curated_dim_customer.py` | current table and history table (SCD type 4) | hash comparison, append of versions, overwrite of the current table |
| Other dimensions, facts, OBT | `jobs/curated/*` | curated tables | surrogate keys by hash, an Unknown member, left joins with `coalesce(..., -1)` |
| Reconciliation | `jobs/curated/reconciliation_audit.py` | report table | null keys, difference of the credit sums of stage and OBT; raises over a tolerance |
| Orchestration | `pipeline/dags/risk_data_pipeline.py` | task instances of a DAG run | 34 tasks, edges, 2 retries, pool of 3 slots, one active run |
| ClickHouse sync | `scripts/ops/sync_hdfs_to_clickhouse.sh` | live and staging table | TRUNCATE, INSERT from HDFS, count gate, EXCHANGE, statistics |
| Submit and run scripts | `scripts/ops/submit_spark_job.sh`, `run_*_yarn.sh` | none | retries of `spark-submit`, fixed order of jobs |
| Seeding | `scripts/ops/seed_postgres_from_csv.py` | the tables of `source_crm` | a thread pool drops, creates and fills the tables chunk by chunk, with a computed `updated_at` |
| Bootstrap | `scripts/bootstrap/*` | formatted NameNode, created databases | start services in order, create what does not exist |

The components interact through shared storage only: a job's output directory
is the next job's input, the watermark row of a table is read and written by
every job of that table, the OBT directory is read by the sync script, and
Airflow is the only thing that orders them.  Nothing takes a lock.

### What is hard about it

* **Two readings of one cell.**  The raw job reads the watermark up to three
  times in one attempt and the stage job of the same table writes it.
* **Two effects that are not one.**  A Spark overwrite deletes and then
  commits; the history and the current table of `dim_customer` are written one
  after the other; the data is written before the watermark.
* **Failures that look like success.**  The metadata functions swallow every
  exception, the health check cannot fail, the audit row says SUCCESS before
  the attempt has ended.
* **Retries.**  Airflow repeats a task from its start, over whatever the failed
  attempt has left.
* **Reads without an edge.**  Nothing but the DAG orders the tasks, and a
  script reads what it likes.
* **Plans evaluated more than once.**  A stage job computes its rejected rows
  for the count, again for the quarantine, and the clean rows a third time;
  nothing orders the rows of a key.
* **Joins by different keys.**  Facts find members by natural key, the mart by
  surrogate key, of tables that other tasks have written, maybe in the run
  before; a lookup may find nothing, or two.
* **A source that is being filled.**  The seeding script commits chunk by chunk
  while ingest jobs may read.
* **Syncs without a lock.**  The DAG and an operator may run the sync script at
  the same time, over a directory that is being rebuilt.

### What makes each part correct

| Part | Correct when |
|---|---|
| Raw ingest | every committed row version lands or is replaced; no increment boundary passes a row that has not landed; nothing that has landed is deleted by an increment |
| Metadata store | the watermark never runs ahead of the clock or backwards; an audit row that says SUCCESS stands for committed output |
| Stage | it reads committed rows only; every key is served in the end |
| Customer dimension | no value becomes current, and is later overwritten, without a history row; the history ends in the current value; a change is recorded, and again only for a failure |
| Orchestration | what is served has its whole lineage and the gate behind it; a task builds on outputs that its own run has written; every run ends |
| ClickHouse sync | readers see one whole build at every instant; a finished build reaches them |
| Quarantine | the landed rows of every key are accounted for, one staged and the others quarantined; the audit log agrees with the slices |
| Star schema | no join loses a row; references resolve; one row per application while members are unambiguous |
| Reconciliation | a pass excludes copies and losses above the tolerance |
| Seeding | what is reported is in the table; every table is reported; an ingest of a whole table lands all of it |

## 2. Modules

| Module | Models | Uses |
|---|---|---|
| `SafeCursor` | abstract: a lake that fills from a source, and a cursor over it | |
| `IncrementalIngest` | raw job, stage job, watermark row and audit log of one table | instance of `SafeCursor` |
| `IncrementalIngestProofs` | its theorems | |
| `RiskPipelineDag` | tasks, edges, reads and runs of the Airflow DAG | |
| `RiskPipelineDagProofs` | its theorems | |
| `AtomicPublish` | abstract: one whole version at a time for the readers | |
| `ClickHouseSync` | the sync script, several at once, over the mart directory | instance of `AtomicPublish` |
| `ClickHouseSyncProofs` | its theorems | |
| `CustomerHistory` | the SCD type 4 job of `dim_customer` over runs and retries | |
| `CustomerHistoryProofs` | its theorems | |
| `StageQuarantine` | what a stage job does with null keys and duplicates: stage table, quarantine by batch, audit row | |
| `StageQuarantineProofs` | its theorems | |
| `StarSchema` | dimensions, facts, mart and reconciliation gate, rebuilt by every run | |
| `StarSchemaProofs` | its theorems | lemmas of `SetSums` |
| `SetSums` | lemmas about the sum of a weight over a finite set | |
| `SourceSeeding` | the seeding script and the ingest of the tables it fills | |
| `SourceSeedingProofs` | its theorems | |
| `MC*` | instances for TLC | the modules above |

A definition whose name ends in `_Something` and whose comment begins with
"Mutant of" is never part of a specification: it is a plausible mistake, and
substituting it for its original breaks the property that `PROJECT.json` pairs
it with.

### IncrementalIngest

One action per remote effect, in the order of `run()`:

| Action | Code |
|---|---|
| `RawExtract` | `extract`: first `get_watermark`, the JDBC query is built and not executed |
| `RawLoad` | `load`: second `get_watermark`, choice of the write mode, an overwrite deletes the target |
| `RawWrite` | the write executes the query into the cache and commits |
| `RawRegister` | `unpersist`, Hive table, `status = "SUCCESS"` |
| `RawMax` | `F.max` over the frame that is no longer cached: a second execution; a third `get_watermark` for an empty increment |
| `RawWatermark`, `RawFinish` | upsert; audit row in `finally` |
| `StageExtract` .. `StageFinish` | `BaseSparkJob.run` with `BaseStageJob`: overwrite, deduplication, upsert of the start time under the table's name, audit row |
| `Raise`, `Kill` | an exception (the audit row is written with the status of that moment), a lost driver (no row) |
| `Reschedule` | Airflow: retry from the start, or give the run up |
| `GetWatermark`, `UpdateWatermark`, `LogExecution` | `watermark.py`, `audit.py`: each may fail without a trace |
| `SourceCommit`, `Tick` | the operational database and its clock (external) |

A row version is a key and its `updated_at`.  Copies of one version are
abstracted away, the stage job keeps one per key.  `job` holds the local
variables of the attempt: the boundary inside the query (`cursor`), the written
batch, the watermark about to be stored, the start time, the status.

### RiskPipelineDag

`Edges` are the dependencies of the DAG file, `Reads` what each script opens.
`data[t]` is how far back the outputs reach that the output of `t` was made
from: the oldest run in which one of them, or `t`'s own, was last written; 0
while the directory is missing or its overwrite is not committed, and a read
then fails.  It says which directories are up to date, not how old their rows
are: six raw tables are loaded incrementally, and an append, which writes the
directory in this run, keeps the rows of all earlier ones (`Incremental`).
Actions: `Start` (trigger rule, pool), `Write` (a Spark job resolves its inputs
and deletes its target, or begins to append to it) and `Commit`, `Publish`, `HealthCheck`, `AuditSummary`, `Fail` (which may
leave a torn or a committed directory), `Starve` (a read that finds nothing, a
cluster that does not answer), `SkipDownstream` (of a task that is `Doomed`: one
it waits for has failed), `Outage`, `Repair`, `NextRun`.  The mart reads the
monthly loan fact in a `try` that falls back to empty columns; an edge makes it
wait for that table, so the model has the read like any other.
`Done` cuts off a prefix of the DAG, closed under edges and reads, for TLC; the
theorems hold for every such prefix, the empty one included.

### ClickHouseSync

The two tables are objects whose names `Exchange` swaps; a statement keeps the
object it has resolved.  `Begin` is the TRUNCATE, `ListFiles`, `InsertFile` and
`EndInsert` the INSERT (the list of files is taken when it starts), `CountRows`
the gate, `Exchange`, `Finish` the statistics; `Refuse` is a statement that the
server rejects, `Fail` one that fails.  `DeleteMart`, `CommitFile`,
`FinishMart`, `FailMart` are the mart job underneath.  `solo` says that nothing
else has run beside a sync; `clashed` that this was violated once.

### CustomerHistory

`ReadCurrent` (the `try` around the read of the old table), `MisreadCurrent`
(its `except Exception`, which takes any other failure of the read for a first
run, and no attempt fails), `AppendHistory`, `DeleteCurrent`, `WriteCurrent`,
`Finish`; `Fail` may leave any part of the rows of a write behind (`LeftBy`).
A failed run leaves its marks in `gaveUp`, a customer that leaves the
applications in `left`.  Assumed: no customer is in both application tables.
The frame is not cached, so append and overwrite evaluate its `dropDuplicates`
(`curated_dim_customer.py:80`) one after the other, and for such a customer
might keep different rows; the model has one value per customer and attempt.

### StageQuarantine

The configurations of the eight jobs are records: primary key, columns of the
deduplication, required columns.  `Count`, `Route` and `Write` each evaluate
the plan anew, so each chooses its `Firsts`, one row of every key, for itself.
`RouteFails` is the `except` of `route_quarantine`; `Start` is any attempt of
any batch, a retry or a cleared run included, `Ingest` another landing table.
`last` is the newest audit row of a batch, or that its attempt is running.

### StarSchema

`dim`, `fact` and `mart` are the tables of the curated zone; every task is one
step that needs the tasks the DAG file makes it wait for (`Build`).  A joined
row is the row and the members it was joined with.  `Lookup` (by natural key,
in the facts) and `WithKey` (by surrogate key, in the mart) return all members
that match, or the fallback with key -1, so fan-out and missing members are
part of the model.  `hash` is any function from natural keys to surrogate keys,
collisions included.  Days of a decision, a credit or an installment may be
NULL.  `BuildProduct` may read the training table of the run
before, facts without an edge from `dim_customer` the customers of the run
before.  The four columns of a place and the three of a decision are one value
each; a place and a suite are a channel.  `Reconciles` is `validate()`.  The
tables of the stage layer are finite (`FiniteAssumption`), so that sums exist.

### SourceSeeding

`Begin` submits tables to the pool, `Take` is a thread that takes the next one
in the order of `TABLE_CONFIGS`, `Skip`, `Recreate`, `Copy`, `Index`, `Raise`
are the steps of `seed_single_table`, `Return` puts its result into `results`,
`Kill` ends the script.  `Ingest` and `Stage` are the pipeline's two jobs of a
table in one step each, without faults (those are in `IncrementalIngest`).

## 3. Runs

| Run | Question | Bounds |
|---|---|---|
| `ingest_quiet` | With a source that rests during DAG runs: is the landing zone complete, is `SafeCursor` implemented, does every version land and every key reach the stage zone, whatever two attempts and one metadata update fail? | 2 keys, 3 ticks, 1 retry |
| `ingest_live` | With commits at any time, late timestamps and a failing metadata read: is the watermark never ahead of the clock nor moved back, is the landing zone torn before the first watermark only, does the stage job read committed rows, is SUCCESS in the audit log worth anything? | as above, 2.5 million states |
| `ingest_full` | Does a full load leave exactly the snapshot of the source? | as above |
| `dag_customer` | Over two runs: fresh inputs, no starvation, every run ends | `dim_customer`'s part (health check, two raw and two stage tasks, the dimension) and the incremental `raw_bureau`, 2 slots for up to 3 Spark tasks, 1 failure, 1 outage; 244 293 states |
| `dag_serving` | All 34 tasks: is the sync behind its whole lineage and the gate, is the summary a barrier? | raw, stage and independent dimensions done, 2 slots, 2 failures |
| `sync_protocol` | Does a lone sync publish exactly the directory, do the readers see whole builds, does a finished build reach them? | 2 files, 2 builds, 2 manual syncs, 1 failure |
| `history_retries` | Is everything current recorded, does the history end in it, what can a failure repeat, is every change recorded in the end? | 2 customers, 2 values, 3 runs, 2 failed attempts, 1 swallowed read; 380 452 states |
| `stage_quarantine` | For every kind of stage job: is each landed row accounted for, does the audit log agree with the quarantine, is no row without a key staged? | 3 landing tables per job, 2 batches, 3 attempts; 492 300 states |
| `star_joins` | Do the joins keep all rows, is the grain right while members are unambiguous, do references resolve, what does a pass of the gate exclude? | 4 stage layers, 3 hash functions, 2 runs; 100 224 states |
| `seeding_pool` | Is what the script reports in the table, does an ingest beside it land everything, is every table reported? | 3 tables, 2 threads, 2 chunks, 2 runs of the script |

The bounds let the interesting cases meet: two ticks of `updated_at` on either
side of a boundary and a third for the start of the stage job; an attempt that
fails, its retry that fails again, and the run after it; a second build under a
sync; a value that changes and changes back.  With one retry a task can be
retried and can be given up (in `dag_customer` by a failure and an attempt that
starves in the outage); the code's two add a repetition.  The landing
tables hold two copies of a key and two of a key with a NULL, so that the three
evaluations can disagree; three attempts are a batch, its replay and another
batch between them.  The stage layers of `star_joins` have a test-only contract
type, a NULL customer, two suites at one place, a stage row named Unknown,
days and delays on both sides of every range, rows without days, and a total of
zero; its hash
functions collide in one dimension or none; a second run is needed for tables
of the run before.  In `seeding_pool` a table is queued behind the two threads
and its second chunk is older than the first.

The remaining runs end in a violation.  Each checks one sentence of the
repository against the code:

| Run | What it shows |
|---|---|
| `ingest_stage_watermark` | the stage job's own watermark passes rows committed after the raw extraction; no increment extracts them again |
| `sync_columns` | the INSERT selects two columns that the mart job does not write; no mart ever reaches the readers |

The passing runs stay clear of these by assumption, not by a repaired model:
`ingest_quiet` has a source that rests while a run is active, `dag_customer` is
a part of the DAG whose edges cover its reads, and `sync_protocol` uses
`AgreedColumns`, a mart that carries the columns the script asks for.

## 4. Properties under a condition

* `MetadataAnswers` (`TornOnlyBeforeFirstWatermark`, `WatermarkMonotone`,
  `LandingGrows`): a watermark query that fails returns `None`, which means
  "first run"; the next load may then overwrite.  The properties hold until the
  first such failure and are false afterwards.
* `MaxLateness = 0` in `ingest_quiet`: the source stamps rows with the commit
  time.  The jobs have no overlap window for rows stamped earlier.
* `clashed` (`PublishesAtomically`, `EventuallyPublished`): nothing keeps two
  syncs, or a sync and the mart job, apart.
* `gaveUp` (`HistoryEndsInCurrent`): a run that has failed with all its retries
  leaves the history ahead of the dimension until the next run.
* `Unambiguous` (`GrainWhenUnambiguous`): no two members of a dimension share
  the columns facts join on, or a surrogate key.
* `routed # "swallowed"` (`RowsConserved`): the write of the quarantine did not
  fail; if it did, the rejected rows are in the log only.
* `routed = "written"` (`AuditedRejects`): the attempt has written its slice.
  This excludes a failed write, and also an attempt that rejects nothing, which
  writes none and may leave the stale one of an earlier attempt (section 5).
* `early` (`LandedAfterSeed`): no ingest of an incremental table has found a
  part of its file.  One that has may have moved the watermark past rows that
  the script commits afterwards.

What a condition excludes is not covered by the property; `hazards` in
`PROJECT.json` says so where a hazard lies outside.

## 5. Observations

What the models show of the code beside the two runs that end in a violation,
each the reason for a condition or a case above:

* The raw job takes the maximum of `updated_at` over a second execution of its
  query (the batch was unpersisted) and with a live source can pass a row it
  has not landed (`base_raw_ingest.py:250`).
* `dim_loan_product` reads `application_train` without an edge from its stage
  task (`risk_data_pipeline.py:225`) and does not read `application_test`:
  contract types of current applications may be missing (`LoanReferences`).
* Four facts read a dimension or another fact they have no edge from
  (`risk_data_pipeline.py:230`): they may join the tables of the run before, and
  on the very first run use up their retries before these exist.
* An attempt of `dim_customer` that fails after its append is retried from the
  start and appends the same versions again (`curated_dim_customer.py:204`).
* A read of `dim_customer` that fails for any reason counts as a first run
  (`curated_dim_customer.py:169`): every version is appended again although no
  attempt has failed.  `RepeatsAccounted` allows one repetition for each such
  failure.
* `sk_time_key` is NULL for credits and installments without days
  (`curated_fact_bureau_credit.py:62`, `curated_fact_installment_payment.py:83`),
  0 for applications (`curated_fact_loan_application.py:163`), where
  `docs/data-modeling/data-modeling.md` gives the fallback -1 (lines 63, 67, 74).
* `dim_merchant_channel` has a member for every combination of five columns,
  the fact joins on four of them (`curated_fact_loan_application.py:159`): two
  suites at one place double the application, with equal fact keys, where
  `docs/data-modeling/data-modeling.md:44` says one row per application.  The
  gate compares the sums of current applications and does not see copies of
  previous ones, nor copies below its tolerance.
* A contract or credit type that the stage job has replaced by Unknown gives
  its dimension a second member of that name, and copies likewise.
* Surrogate keys are hashes modulo 100 000 or 1 000 000; when two collide the
  mart has every application of either twice.
* Days go back to -2922, relative months to -96 (`TimeReferences` ends at day
  -2880); the Unknown member has the key of month -1.
* An early payment has a negative delay, in no range, and so the Unknown
  bucket.
* A previous application without a customer makes the gate fail.
* The buckets and relative months have no stage table: their `except` branch
  is the only one that ever runs.
* A replayed batch that rejects nothing leaves the slice of the earlier attempt
  (`base_stage_job.py:79` returns before the overwrite that the docstring
  promises).
* Four stage jobs filter rows with NULL keys before anything is tagged; these
  reach neither the quarantine nor `rejected_count`.
* The row that is staged and the rows that are quarantined come from different
  evaluations: per key the numbers add up, but one row may be in both and
  another in neither.
* `start-master.sh:127` masks a failure of the seeding script with `|| true` and
  calls it with an option, `--batch-size`, that it does not know: argparse ends
  it before its first statement.
* The seeding script ends with status 0 whatever has failed; a table that an
  ingest has found empty gets the time of that job as its watermark, past every
  row the script will copy.

## 6. Fairness

Weak fairness of what a scheduler owes: Airflow starts daily runs and queued
tasks (`StartRun`, `Schedule`, `Begin(Dag)`, `NextRun`), an attempt that has
started goes on (`RawStep`, `StageStep`, `Work`, `BuildMart`, `Serve`), a
thread of the seeding pool that can do something does (`Progress`; a worker that
raises frees its thread, since `ThreadPoolExecutor` keeps the exception in the
future).  No
fairness for failures, commits of the source, the clock, manual syncs, outages,
or their repair; the number of failures is bounded, which is what "retries
outlast failures" needs.  `RunsEnd` holds although an outage may never be
repaired: attempts then starve and the run fails.

## 7. Proofs

TLAPS checks the theorems for every value of the constants.

**IncrementalIngest.**  Inductive invariants on top of `TypeOK`, in three
layers and one apart.
`TimeInv`: watermark, start time and pending watermark lie in the past of the
clock, whatever fails; it gives `WatermarkNotAhead`.  `TornInv`: after the
write of the raw job the landing zone is whole; it gives `StageReads`.
`AuditInv`: the status is SUCCESS only after the write, and after its own write
the stage zone is whole; with `TornInv` it gives the action property
`AuditedIsCommitted`, in all modes.
`HealthyInv`: while the metadata store answers, the boundary inside the query is
the stored watermark until the attempt commits its own, the pending watermark
is not older, and a torn zone means no watermark.  `WatermarkInPast` alone says
nothing of the pending value and `wm` alone nothing of the two readings, hence
the strengthening.  It gives `TornIsFirstLoad`, `WatermarkNeverBack` and
`LandingNeverShrinks`, assuming an incremental table.  `QuietInv` adds, for a
source that rests during runs, that from the write to the end of the run the
landing zone has every committed row, which is why the stage job's watermark
does no harm there; it gives `LandingIsComplete` and the refinement
`IngestImplementsCursor`.  `FullInv`, for FULL loads over such a source: the
query of an attempt has no boundary, the landing zone is empty when the write
begins and the whole source from then on, so `FullLoadExact` needs nothing of
the metadata store.

**RiskPipelineDag.**  `UpstreamDone`, what a started task waits for has
succeeded and success is final in a run, is inductive.  Walking the edges of
the file backwards from the summary reaches every task: `BarrierHolds`, for all
34 tasks.  `Committed`, a Spark task that has succeeded has a committed output,
is inductive by itself.  The set `Behind` is what the edges reach backwards from
the quality gate; it is closed under `Reads` (`BehindClosed`), so the lineage of
the mart lies in it, and `ServedIsComplete` follows: the reads of the scripts
are covered by the edges above the sync, which is not so for each single task
(section 5).  That the lineage is the whole one is an assumption of the
MC module, which TLC evaluates.

Four further theorems say how far the properties of `dag_customer` reach in the
whole DAG.  Two rest on the invariant `TracedIn(S, E)`: tasks that wait for what
they read, and read from each other and from `E` only, go back to an output of
an earlier run only if a task of `E` above them does (`TraceStep`; what is above
a task that has started has succeeded and does not change any more,
`AncestorsDone`).  With `E` empty it gives `FreshHolds`, for the raw and stage
tasks and all dimensions but `dim_loan_product` (`FreshTasks`): what they are
built from was written, overwritten or appended to, in their own run.  With the
five tasks that read what they do not wait for (`Unordered`) as `E` it gives
`StaleOutputsTraced`: an output that an earlier run has left and this one has
not written comes in there and nowhere else, and reaches the mart only through
`dim_loan_product` or the monthly loan fact.  Both are about outputs: the rows
of earlier runs that an append keeps flow through the DAG by design.
`SteadyHolds`: a task that
waits for all it reads, directly or over several edges (`Ancestors`,
`OthersWait`), never starves, so without a failure from outside it never fails
(`SteadyStep`); the tasks of `Unordered` are the exceptions.  For a part of the
DAG without exceptions `FreshHolds` and `SteadyHolds` give the properties that
the run checks.  `NeverStuckHolds` has no exception: the edges climb in `Rank`,
so among the tasks that have not ended one waits for none of the others
(`TopTask`), and the slots are held by tasks that can go on.  This is the safety
half of `RunsEnd`, for which the run with its liveness half suffices: no run
checks `NeverStuck` itself.

**ClickHouseSync.**  `SoloInv`: a sync that is alone has emptied its staging
table and filled it with the part of the directory it has ticked off; only the
beginning of another sync or a change of the directory ends its being alone.
It gives `SoloSyncIsExact`.  `CleanInv`: until a clash every active sync is
alone over a finished mart and the readers' table is empty or one build.  It
gives the refinement `SyncImplementsPublish`.

**CustomerHistory.**  `RecordInv`: once the append of an attempt is complete
every incoming value is recorded; histories only grow, so `NothingUnrecorded`,
also for a commit that was torn.  `EndInv` follows the newest row through an
attempt and its retries (`HistoryKeepsUp`).  `RepeatsBounded` keeps an account (`AccountInv`): the versions of a
customer that repeat the one before, and one more while the next append may
repeat the newest (`Due`: the attempt compares with something else, or takes
the read for a first run), are not more than the failed attempts and swallowed
reads so far.  The bound alone is not inductive: a failure is paid before the
append that repeats.  An append settles what is due (`ChangedRepeats`); only a
failure makes something due.

**StageQuarantine.**  The evaluations choose different rows; what they have in
common is their number.  Two selections of one row per key have as many rows as
there are keys (`Firsts`), so the number rejected is the same for each
(`SameRejected`, which `RejectsAudited` needs), and per key as many rows are
rejected as are missing from the clean ones (`KeyConserved`, for `RowsAddUp`).
The inductive invariant ties the variables of the attempt to where it is, the slice of its
batch to what it has routed, and every audit row of another batch to a slice
that nobody touches.

**StarSchema.**  The invariants follow the flow of the data.  `BaseInv`: runs,
snapshots, domains.  `DimInv`: a dimension of this run has exactly the members
its sources prescribe.  `LoanInv` and `MartInv`: fact and mart consist of the
joins of what is below them, which the run does not rebuild.  `JoinedInv` and
`FactInv` say the same of the four other facts as far as the theorems need it.
Each task preserves them because of the lemma `Frames`: it writes its own table,
and the edges forbid that a table is rebuilt after its reader.  `EveryRowKept`,
`GrainKept` and `ReferencesFound` are then facts about the operators
(`LoanJoin`, `MartJoin`, `LookupUnique`, `Resolved`, `MonthsHold`).

`CopiesExposed` is about sums.  `GateInv`: while the gate has passed, the mart is
the one it compared, and it reconciles.  `MartFinite`: the mart is finite, since
a row is determined by its application and its members.  `SetSums` makes the
fold of the gate countable: the sum of a weight over a finite set is the number
of its units, pairs of an element and one of 1 to its weight.  The number of
units solves the equation of the fold (`UnitsSumUp`) and no other function does
(`SumIsCount`, by a smallest part of the set on which two solutions differ,
which exists because strict inclusion is well-founded on finite sets).  Sums then
obey the laws of cardinalities: they add over disjoint sets and do not shrink
under injections.  Every current application has a row beside the copy
(`TableWeighs`), so the copy adds its amount (`CopyAdds`), and an amount above
the tolerance is more drift than the gate allows.

**SourceSeeding.**  `CopyInv`: a table that is being filled holds the chunks
copied so far by this run and `total_rows` is their number; `ReportInv` carries
that over to the results.  A landing zone misses nothing while no ingest has
seen a part of the file (`SeedLanded`): until the first look there is no
watermark, after a whole look there is nothing new.

Assumed: the constants' assumptions in the modules, and `Incremental`, `Quiet`
or (`FullLoadExact`) `~Incremental` and `~LiveSource` where a theorem says so.

## 8. Model-checked only

Liveness (`EventuallyLanded`, `EventuallyStaged`, `RunsEnd`,
`EventuallyPublished`, `EventuallyRecorded`, `EventuallyReported`), which the
prover does not reach under fairness.  Every safety property of a passing run is
stated by a theorem: `FreshOutputs` and `NoSpuriousFailure` for the parts of the
DAG that section 7 names (for the whole DAG they are false, because of the reads
without an edge in section 5), the others in full.

Abstracted: content of rows, batch ids, the format of timestamps, the number of
copies of a landed version, hashes (equality of values), the statistics of the
OBT.  External: Airflow, Spark's reader and committer, HDFS, PostgreSQL and
ClickHouse, modelled from how the code uses them.  Assumed of them: a directory
whose overwrite is not committed cannot be read (DAG) or holds some of the
files (sync, history); a statement of ClickHouse ends with its client; one
attempt of a task runs at a time.

## 9. Not modelled

* Notebooks, dashboards, the demo DAG, downloads: no part of the pipeline.
* Schemas, logging, session, security helpers: pure functions and constants.
* Cluster configuration: values for services that are external.
* The remaining bootstrap scripts and the operator scripts: sequences of
  commands, idempotent or in one of the orders `RiskPipelineDag` allows.
* A driver that outlives its SSH session beside the retry of its task
  (`submit_spark_job.sh:78`): what ends it is decided by sshd and YARN.
* The mode `DYNAMIC_PARTITION` of `BaseSparkJob.load`, which no job passes, and
  `base_curated_job.py`, which no job extends.
* The CSV branch of the raw job, which no task of the DAG selects.
