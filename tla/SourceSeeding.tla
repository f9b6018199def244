---------------------------- MODULE SourceSeeding ----------------------------
(***************************************************************************)
(* seed_postgres_from_csv.py fills the operational database (source_crm)   *)
(* from CSV files: a thread pool recreates the tables and streams the      *)
(* files into them, one transaction for each chunk.  The script may be     *)
(* killed and run again; the ingest jobs of the pipeline may run at any    *)
(* time, also while a table is half full.                                  *)
(*                                                                         *)
(* A file is a sequence of chunks, a chunk the set of the updated_at that  *)
(* add_timestamp_columns gives its rows.  A row is <<chunk, updated_at>>,  *)
(* in the database with the run of the script that has copied it, which    *)
(* keeps copies of a row apart.  Ingest is IncrementalIngest in one step   *)
(* and without faults, Stage the watermark that the stage job writes.      *)
(***************************************************************************)
EXTENDS Integers, Sequences, FiniteSets

CONSTANTS
    TableConfigs,  \* the names of TABLE_CONFIGS, in its order
    Files,         \* what a CSV file may hold
    NoFile,        \* there is no file
    Sources,       \* the data sets: the file of every table
    Threads,       \* --threads
    MaxTime,       \* updated_at is in 1..MaxTime
    MaxRuns        \* bound on the runs of the script

Tables == {TableConfigs[i] : i \in DOMAIN TableConfigs}

Times == 1..MaxTime
NoTime == 0

\* start_time of a job: later than any updated_at of the data set.
Now == MaxTime + 1

ASSUME ConfigsAssumption == TableConfigs \in Seq(STRING)
ASSUME FilesAssumption == Files \subseteq Seq(SUBSET Times)
ASSUME SourcesAssumption == Sources \subseteq [Tables -> Files \cup {NoFile}]
ASSUME NoFileAssumption == NoFile \notin Files
ASSUME BoundsAssumption ==
    Threads \in Nat \ {0} /\ MaxTime \in Nat /\ MaxRuns \in Nat

VARIABLES
    csv,      \* the file of every table
    exists,   \* the tables of source_crm
    db,       \* their rows
    script,   \* the seeding process
    targets,  \* the tables it was asked for
    phase,    \* where the worker of a table is
    copied,   \* chunks that worker has copied
    total,    \* total_rows
    results,  \* what main() has collected
    runs,     \* runs of the script so far
    landed,   \* rows of every table in the landing zone
    wm,       \* its watermark
    read,     \* what the last ingest of the table has found
    early     \* an ingest has found a part of the file

sourceVars == <<csv, exists, db>>
seedVars == <<script, targets, phase, copied, total, results, runs>>
pipelineVars == <<landed, wm, read, early>>
vars == <<sourceVars, seedVars, pipelineVars>>

\* The load types of the ingest jobs; is_incremental of the table agrees.
Incremental(t) == t \notin {"application_train", "application_test"}

\* The rows of a file, and of a table; rows that agree in chunk and time are
\* one.
Chunk(file, i) == {i} \X file[i]
RowsOf(file) == UNION {Chunk(file, i) : i \in DOMAIN file}
Content(table) == {r[2] : r \in table}

Pending == -2
Failed == -1

-----------------------------------------------------------------------------
Init ==
    /\ csv \in Sources
    /\ exists = {} /\ db = [t \in Tables |-> {}]
    /\ script = "off"
    /\ targets = {}
    /\ phase = [t \in Tables |-> "idle"]
    /\ copied = [t \in Tables |-> 0] /\ total = [t \in Tables |-> 0]
    /\ results = [t \in Tables |-> Pending]
    /\ runs = 0
    /\ landed = [t \in Tables |-> {}]
    /\ wm = [t \in Tables |-> NoTime]
    /\ read = [t \in Tables |-> "nothing"]
    /\ early = [t \in Tables |-> FALSE]

\* main(): the tables of --tables, or all, are submitted to the pool.
Begin(selected) ==
    /\ script # "running" /\ runs < MaxRuns
    /\ runs' = runs + 1
    /\ script' = "running"
    /\ targets' = selected
    /\ phase' = [t \in Tables |-> "idle"]
    /\ results' = [t \in Tables |-> Pending]
    /\ UNCHANGED <<sourceVars, copied, total, pipelineVars>>

\* The queue of the pool has the order of TABLE_CONFIGS.
Waiting == {t \in targets : phase[t] = "idle"}
Before(t, u) ==
    \E i, j \in DOMAIN TableConfigs :
        i < j /\ TableConfigs[i] = t /\ TableConfigs[j] = u
Working == {t \in Tables : phase[t] \notin {"idle", "done"}}

\* Mutant of Take: a thread for every table.
Take_Unbounded(t) ==
    /\ script = "running"
    /\ t \in Waiting /\ \A u \in Waiting : ~Before(u, t)
    /\ phase' = [phase EXCEPT ![t] = "start"]
    /\ UNCHANGED <<sourceVars, script, targets, copied, total, results, runs,
                   pipelineVars>>

\* A free worker takes the next table from the queue.
Take(t) ==
    /\ script = "running"
    /\ t \in Waiting /\ \A u \in Waiting : ~Before(u, t)
    /\ Cardinality(Working) < Threads
    /\ phase' = [phase EXCEPT ![t] = "start"]
    /\ UNCHANGED <<sourceVars, script, targets, copied, total, results, runs,
                   pipelineVars>>

\* The future of t is done and main() collects its result.
Return(t, result) ==
    /\ phase' = [phase EXCEPT ![t] = "done"]
    /\ results' = [results EXCEPT ![t] = result]

Skip(t) ==
    /\ script = "running" /\ phase[t] = "start"
    /\ csv[t] = NoFile
    /\ Return(t, 0)
    /\ UNCHANGED <<sourceVars, script, targets, copied, total, runs,
                   pipelineVars>>

\* Mutant of Recreate: a table that exists is kept.
Recreate_Keep(t) ==
    /\ script = "running" /\ phase[t] = "start"
    /\ csv[t] # NoFile
    /\ exists' = exists \cup {t} /\ UNCHANGED db
    /\ phase' = [phase EXCEPT ![t] = "copy"]
    /\ copied' = [copied EXCEPT ![t] = 0]
    /\ total' = [total EXCEPT ![t] = 0]
    /\ UNCHANGED <<csv, script, targets, results, runs, pipelineVars>>

\* DROP TABLE and CREATE TABLE in one transaction.
Recreate(t) ==
    /\ script = "running" /\ phase[t] = "start"
    /\ csv[t] # NoFile
    /\ exists' = exists \cup {t} /\ db' = [db EXCEPT ![t] = {}]
    /\ phase' = [phase EXCEPT ![t] = "copy"]
    /\ copied' = [copied EXCEPT ![t] = 0]
    /\ total' = [total EXCEPT ![t] = 0]
    /\ UNCHANGED <<csv, script, targets, results, runs, pipelineVars>>

\* The chunks that pandas reads, and the loop enumerates.
Chunks(t) == 1..Len(csv[t])

\* COPY and commit of one chunk.
Copy(t) ==
    /\ script = "running" /\ phase[t] = "copy"
    /\ copied[t] + 1 \in Chunks(t)
    /\ LET chunk == Chunk(csv[t], copied[t] + 1)
       IN  /\ db' = [db EXCEPT ![t] = @ \cup ({runs} \X chunk)]
           /\ total' = [total EXCEPT ![t] = @ + Cardinality(chunk)]
    /\ copied' = [copied EXCEPT ![t] = @ + 1]
    /\ UNCHANGED <<csv, exists, script, targets, phase, results, runs,
                   pipelineVars>>

\* The loop has ended and the indexes are created; the worker returns
\* total_rows.
Index(t) ==
    /\ script = "running" /\ phase[t] = "copy"
    /\ copied[t] + 1 \notin Chunks(t)
    /\ Return(t, total[t])
    /\ UNCHANGED <<sourceVars, script, targets, copied, total, runs,
                   pipelineVars>>

\* Mutant of Raise: main() does not catch what future.result() raises.  Its
\* loop ends with the first table that fails; other workers may still end, but
\* their results are not collected.
Raise_Uncaught(t) ==
    /\ script = "running" /\ phase[t] \in {"start", "copy"}
    /\ csv[t] # NoFile
    /\ script' = "ended"
    /\ phase' = [phase EXCEPT ![t] = "done"]
    /\ UNCHANGED <<sourceVars, targets, copied, total, results, runs,
                   pipelineVars>>

\* An exception in the worker, be it that a later chunk does not fit the
\* columns inferred from the first 100 rows.  Chunks committed so far stay.
Raise(t) ==
    /\ script = "running" /\ phase[t] \in {"start", "copy"}
    /\ csv[t] # NoFile
    /\ Return(t, Failed)
    /\ UNCHANGED <<sourceVars, script, targets, copied, total, runs,
                   pipelineVars>>

\* All futures are done: main() logs the results and exits with 0, whatever
\* they are.
Finish ==
    /\ script = "running"
    /\ Waiting = {} /\ Working = {}
    /\ script' = "ended"
    /\ UNCHANGED <<sourceVars, targets, phase, copied, total, results, runs,
                   pipelineVars>>

\* The process is killed; main() has collected nothing that lasts.
Kill ==
    /\ script = "running"
    /\ script' = "killed"
    /\ results' = [t \in Tables |-> Pending]
    /\ UNCHANGED <<sourceVars, targets, phase, copied, total, runs,
                   pipelineVars>>

-----------------------------------------------------------------------------
(* The pipeline. *)

Whole(t) == Content(db[t]) = RowsOf(csv[t])

\* The rows an extraction returns: from the watermark on, or all of them.
Found(t, first) ==
    {r \in Content(db[t]) : first \/ r[2] >= wm[t]}

\* Full loads and the first load of a table have no boundary.
First(t) == ~Incremental(t) \/ wm[t] = NoTime

\* Mutant of Landed: the landing zone is overwritten by every load.
Landed_Overwrite(t) == Found(t, First(t))

\* The landing zone is overwritten where there is no boundary.
Landed(t) ==
    IF First(t) THEN Found(t, TRUE) ELSE landed[t] \cup Found(t, FALSE)

\* The watermark moves to the newest row.  Without any row it stays or becomes
\* the time of the job.
Watermark(t, w) ==
    IF Found(t, First(t)) # {}
    THEN /\ \E r \in Found(t, First(t)) : r[2] = w
         /\ \A r \in Found(t, First(t)) : r[2] <= w
    ELSE w = IF First(t) THEN Now ELSE wm[t]

Ingest(t) ==
    /\ t \in exists
    /\ landed' = [landed EXCEPT ![t] = Landed(t)]
    /\ \E w \in Times \cup {Now} :
          Watermark(t, w) /\ wm' = [wm EXCEPT ![t] = w]
    /\ read' = [read EXCEPT ![t] = IF Whole(t) THEN "all" ELSE "part"]
    /\ early' = [early EXCEPT ![t] = @ \/ ~Whole(t)]
    /\ UNCHANGED <<sourceVars, seedVars>>

\* The stage job writes the time of its start into the same watermark.
Stage(t) ==
    /\ wm[t] # NoTime
    /\ wm' = [wm EXCEPT ![t] = Now]
    /\ UNCHANGED <<sourceVars, seedVars, landed, read, early>>

-----------------------------------------------------------------------------
Progress(t) == Take(t) \/ Skip(t) \/ Recreate(t) \/ Copy(t) \/ Index(t)

Next ==
    \/ \E selected \in SUBSET Tables : Begin(selected)
    \/ \E t \in Tables :
          \/ Take(t) \/ Skip(t) \/ Recreate(t) \/ Copy(t) \/ Index(t)
          \/ Raise(t)
          \/ Ingest(t) \/ Stage(t)
    \/ Finish \/ Kill

Spec == Init /\ [][Next]_vars

\* A worker thread that has something to do goes on doing it.
FairSpec == Spec /\ \A t \in Tables : WF_vars(Progress(t))

-----------------------------------------------------------------------------
(* Properties *)

\* Every variable has its type; no more tables are worked on than the pool
\* has threads.
TypeOK ==
    /\ csv \in Sources
    /\ exists \subseteq Tables
    /\ db \in [Tables -> SUBSET (Nat \X (Nat \X Times))]
    /\ script \in {"off", "running", "ended", "killed"}
    /\ targets \subseteq Tables
    /\ phase \in [Tables -> {"idle", "start", "copy", "done"}]
    /\ Cardinality(Working) <= Threads
    /\ copied \in [Tables -> Nat] /\ total \in [Tables -> Nat]
    /\ results \in [Tables -> Nat \cup {Pending, Failed}]
    /\ runs \in 0..MaxRuns
    /\ landed \in [Tables -> SUBSET (Nat \X Times)]
    /\ wm \in [Tables -> 0..Now]
    /\ read \in [Tables -> {"nothing", "part", "all"}]
    /\ early \in [Tables -> BOOLEAN]

\* A number of rows that main() reports is the number of rows in the table,
\* and they are the rows of the file, each of them once: neither a failed
\* table nor what an earlier run has left behind is reported as seeded.
SeededComplete ==
    \A t \in Tables :
        results[t] >= 0 /\ csv[t] # NoFile =>
            /\ t \in exists
            /\ Whole(t)
            /\ Cardinality(db[t]) = results[t]

\* An ingest that finds the whole file leaves all of it in the landing zone,
\* unless the table is loaded incrementally and an earlier ingest has found a
\* part of it: the seeding commits chunks in the order of the file, not of
\* updated_at, and the watermark of that ingest hides older rows for good.
LandedAfterSeed ==
    \A t \in Tables :
        read[t] = "all" /\ (Incremental(t) => ~early[t]) =>
            RowsOf(csv[t]) \subseteq landed[t]

\* main() collects a result for every table it has submitted, whatever other
\* tables fail or are missing, if nobody kills it: a failed table neither takes
\* the reports of the others with it nor goes without one itself.
EventuallyReported ==
    \A t \in Tables :
        script = "running" /\ t \in targets
            ~> results[t] # Pending \/ script = "killed"

=============================================================================
