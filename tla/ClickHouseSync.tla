---------------------------- MODULE ClickHouseSync ----------------------------
(***************************************************************************)
(* sync_hdfs_to_clickhouse.sh: how the mart obt_loan_portfolio_360 gets    *)
(* from its HDFS directory into the table that the dashboards query.       *)
(*                                                                         *)
(* The script empties a staging table, fills it with one INSERT ... SELECT *)
(* over the Parquet files of the directory, refuses an empty result, and   *)
(* exchanges the names of the two tables.  The DAG runs it after the mart  *)
(* and the quality gate; the runbook also has an operator run it by hand.  *)
(* Nothing keeps two of them, or one and the job that rebuilds the mart,   *)
(* apart: the mart job deletes the directory and commits it file by file.  *)
(*                                                                         *)
(* ClickHouse and HDFS are external.  The two tables are objects whose     *)
(* names EXCHANGE swaps: a statement keeps the object it started with.     *)
(* The rows of a file, inserted by a sync, are the pair <<file, sync>>; a  *)
(* statement is assumed to end with the client that sent it.               *)
(***************************************************************************)
EXTENDS Naturals, FiniteSets

CONSTANTS
    Manual,       \* syncs that operators start by hand
    Parts,        \* files of one build of the mart
    Columns,      \* columns of those files
    MaxVersion,   \* bound on the builds of the mart
    Retries,      \* default_args["retries"] of the DAG
    MaxManual,    \* bound on the syncs started by hand
    MaxFailures   \* bound on failures of a job or a statement

Dag == "dag"
Syncs == Manual \cup {Dag}

ASSUME SyncAssumption == Dag \notin Manual /\ Parts # {}
ASSUME BoundAssumption ==
    /\ MaxVersion \in Nat /\ Retries \in Nat
    /\ MaxManual \in Nat /\ MaxFailures \in Nat

\* The audit columns the INSERT selects, beside those of the mart itself.
SelectedColumns == {"business", "_source_table", "_curated_at"}

Files == Parts \X (1..MaxVersion)
Tables == {"a", "b"}
Phases == {"build", "sync"}
Points == {"idle", "truncated", "inserting", "inserted", "counted", "swapped"}

VARIABLES
    version,   \* number of the last build of the mart
    dir,       \* files under /curated/credit_risk/obt_loan_portfolio_360
    writing,   \* has a build deleted the directory and not passed the gate?
    phase,     \* which of its tasks the DAG run is at
    tries,     \* retries used by the sync task
    rows,      \* contents of the two tables
    live,      \* the table that has the name obt_loan_portfolio_360
    pc,        \* where each sync is
    target,    \* the table its INSERT writes to
    todo,      \* the files its INSERT has listed and not read yet
    solo,      \* has nothing else run beside this sync since its start?
    clashed,   \* did a sync ever run beside another, or over a partial mart?
    manuals,   \* syncs that may still be started by hand
    failures   \* failures that may still happen

martVars == <<version, dir, writing>>
taskVars == <<phase, tries>>
syncVars == <<pc, target, todo>>
vars == <<martVars, taskVars, syncVars, rows, live, solo, clashed, manuals,
          failures>>

TypeOK ==
    /\ version \in 0..MaxVersion
    /\ dir \in SUBSET Files
    /\ writing \in BOOLEAN
    /\ phase \in Phases
    /\ tries \in 0..Retries
    /\ rows \in [Tables -> SUBSET (Files \X Syncs)]
    /\ live \in Tables
    /\ pc \in [Syncs -> Points]
    /\ target \in [Syncs -> Tables]
    /\ todo \in [Syncs -> SUBSET Files]
    /\ solo \in [Syncs -> BOOLEAN]
    /\ clashed \in BOOLEAN
    /\ manuals \in 0..MaxManual
    /\ failures \in 0..MaxFailures

Staging == IF live = "a" THEN "b" ELSE "a"
Build(v) == Parts \X {v}
MartWhole == dir = Build(version)
Active(s) == pc[s] # "idle"
AnyActive == \E s \in Syncs : Active(s)

Init ==
    /\ version = 0 /\ dir = {} /\ writing = FALSE
    /\ phase = "build" /\ tries = 0
    /\ rows = [t \in Tables |-> {}] /\ live = "a"
    /\ pc = [s \in Syncs |-> "idle"]
    /\ target = [s \in Syncs |-> "b"]
    /\ todo = [s \in Syncs |-> {}]
    /\ solo = [s \in Syncs |-> FALSE]
    /\ clashed = FALSE
    /\ manuals = MaxManual /\ failures = MaxFailures

-----------------------------------------------------------------------------
(* The mart job, BaseSparkJob.load with a static overwrite.                *)

\* It deletes the directory.  A retry of the job is a new build: its files
\* have names of their own.
DeleteMart ==
    /\ phase = "build" /\ ~writing /\ version < MaxVersion
    /\ version' = version + 1
    /\ dir' = {}
    /\ writing' = TRUE
    /\ solo' = [s \in Syncs |-> FALSE]
    /\ clashed' = (clashed \/ AnyActive)
    /\ UNCHANGED <<taskVars, syncVars, rows, live, manuals, failures>>

\* The committer renames the files into place one after the other.
CommitFile ==
    /\ writing
    /\ \E f \in Build(version) \ dir : dir' = dir \cup {f}
    /\ solo' = [s \in Syncs |-> FALSE]
    /\ UNCHANGED <<version, writing, taskVars, syncVars, rows, live, clashed,
                   manuals, failures>>

\* The job has succeeded, the quality gate passes, the sync task is queued.
FinishMart ==
    /\ writing /\ MartWhole
    /\ writing' = FALSE
    /\ phase' = "sync" /\ tries' = 0
    /\ UNCHANGED <<version, dir, syncVars, rows, live, solo, clashed, manuals,
                   failures>>

\* The job fails, or the gate after it.
FailMart ==
    /\ writing /\ failures > 0
    /\ failures' = failures - 1
    /\ writing' = FALSE
    /\ UNCHANGED <<version, dir, taskVars, syncVars, rows, live, solo,
                   clashed, manuals>>

-----------------------------------------------------------------------------
(* The script.  Each statement is a call of its own; set -e ends the script *)
(* at the first that fails.                                                *)

\* Mutant of Truncated: the staging table keeps what it holds.
Truncated_Kept(r) == r = rows

\* TRUNCATE TABLE staging.
Truncated(r) == r = [rows EXCEPT ![Staging] = {}]

Begin(s) ==
    /\ pc[s] = "idle"
    /\ \/ s = Dag /\ phase = "sync" /\ UNCHANGED manuals
       \/ s \in Manual /\ manuals > 0 /\ manuals' = manuals - 1
    /\ Truncated(rows')
    /\ pc' = [pc EXCEPT ![s] = "truncated"]
    /\ solo' = [u \in Syncs |-> u = s /\ ~AnyActive]
    /\ clashed' = (clashed \/ AnyActive \/ writing \/ ~MartWhole)
    /\ UNCHANGED <<martVars, taskVars, target, todo, live, failures>>

\* Mutant of ListFiles: the INSERT goes to the table that readers query.
ListFiles_Live(s) ==
    /\ pc[s] = "truncated"
    /\ SelectedColumns \subseteq Columns
    /\ target' = [target EXCEPT ![s] = live]
    /\ todo' = [todo EXCEPT ![s] = dir]
    /\ pc' = [pc EXCEPT ![s] = "inserting"]
    /\ UNCHANGED <<martVars, taskVars, rows, live, solo, clashed, manuals,
                   failures>>

\* The INSERT starts: it resolves the table and expands the glob.
ListFiles(s) ==
    /\ pc[s] = "truncated"
    /\ SelectedColumns \subseteq Columns
    /\ target' = [target EXCEPT ![s] = Staging]
    /\ todo' = [todo EXCEPT ![s] = dir]
    /\ pc' = [pc EXCEPT ![s] = "inserting"]
    /\ UNCHANGED <<martVars, taskVars, rows, live, solo, clashed, manuals,
                   failures>>

InsertFile(s) ==
    /\ pc[s] = "inserting"
    /\ \E f \in todo[s] \cap dir :
          /\ rows' = [rows EXCEPT ![target[s]] = @ \cup {<<f, s>>}]
          /\ todo' = [todo EXCEPT ![s] = @ \ {f}]
    /\ UNCHANGED <<martVars, taskVars, pc, target, live, solo, clashed,
                   manuals, failures>>

EndInsert(s) ==
    /\ pc[s] = "inserting" /\ todo[s] = {}
    /\ pc' = [pc EXCEPT ![s] = "inserted"]
    /\ UNCHANGED <<martVars, taskVars, target, todo, rows, live, solo, clashed,
                   manuals, failures>>

\* SELECT count() FROM staging: the script goes on when it is not zero.
CountRows(s) ==
    /\ pc[s] = "inserted"
    /\ rows[Staging] # {}
    /\ pc' = [pc EXCEPT ![s] = "counted"]
    /\ UNCHANGED <<martVars, taskVars, target, todo, rows, live, solo, clashed,
                   manuals, failures>>

\* EXCHANGE TABLES.
Exchange(s) ==
    /\ pc[s] = "counted"
    /\ live' = Staging
    /\ pc' = [pc EXCEPT ![s] = "swapped"]
    /\ UNCHANGED <<martVars, taskVars, target, todo, rows, solo, clashed,
                   manuals, failures>>

\* The summary statistics have been printed; the script exits 0.
Finish(s) ==
    /\ pc[s] = "swapped"
    /\ pc' = [pc EXCEPT ![s] = "idle"]
    /\ phase' = IF s = Dag THEN "build" ELSE phase
    /\ UNCHANGED <<martVars, tries, target, todo, rows, live, solo, clashed,
                   manuals, failures>>

\* Mutant of Settle: the run fails with the first failed attempt.
Settle_NoRetry(s) ==
    /\ phase' = IF s = Dag THEN "build" ELSE phase
    /\ UNCHANGED tries

\* Mutant of Settle: retries are counted and never compared.
Settle_Unbounded(s) ==
    /\ tries' = IF s = Dag THEN tries + 1 ELSE tries
    /\ UNCHANGED phase

\* Airflow retries a failed attempt of the sync task, or fails the run; an
\* operator's attempt is over.
Settle(s) ==
    \/ s # Dag /\ UNCHANGED <<phase, tries>>
    \/ s = Dag /\ tries < Retries /\ tries' = tries + 1 /\ UNCHANGED phase
    \/ s = Dag /\ tries = Retries /\ phase' = "build" /\ UNCHANGED tries

\* A statement is refused: a column or every file is missing, a listed file
\* has gone, or the staging table is empty.
Refuse(s) ==
    /\ \/ pc[s] = "truncated" /\ ~(SelectedColumns \subseteq Columns)
       \/ pc[s] = "truncated" /\ dir = {}
       \/ pc[s] = "inserting" /\ ~(todo[s] \subseteq dir)
       \/ pc[s] = "inserted" /\ rows[Staging] = {}
    /\ pc' = [pc EXCEPT ![s] = "idle"]
    /\ Settle(s)
    /\ UNCHANGED <<martVars, target, todo, rows, live, solo, clashed, manuals,
                   failures>>

\* A statement fails for a reason of its own, the statistics included.
Fail(s) ==
    /\ Active(s) /\ failures > 0
    /\ failures' = failures - 1
    /\ pc' = [pc EXCEPT ![s] = "idle"]
    /\ Settle(s)
    /\ UNCHANGED <<martVars, target, todo, rows, live, solo, clashed, manuals>>

-----------------------------------------------------------------------------

Work(s) == \/ ListFiles(s) \/ InsertFile(s) \/ EndInsert(s) \/ CountRows(s)
           \/ Exchange(s) \/ Finish(s) \/ Refuse(s)

BuildMart == DeleteMart \/ CommitFile \/ FinishMart

Next == \/ BuildMart \/ FailMart
        \/ \E s \in Syncs : Begin(s) \/ Work(s) \/ Fail(s)

Spec == Init /\ [][Next]_vars

\* The scheduler starts the tasks of the DAG, and an attempt goes on.  Nobody
\* owes a manual sync, and nothing owes a failure.
FairSpec == /\ Spec
            /\ WF_vars(BuildMart)
            /\ WF_vars(Begin(Dag))
            /\ \A s \in Syncs : WF_vars(Work(s))

-----------------------------------------------------------------------------
(* Properties.                                                             *)

Serves(v) == \E s \in Syncs : rows[live] = Build(v) \X {s}

\* A sync beside which nothing else ran has published exactly the files of the
\* directory, each once, whatever earlier syncs had left in either table.
SoloSyncPublishes ==
    \A s \in Syncs :
        pc[s] = "swapped" /\ solo[s] => rows[live] = dir \X {s}

\* Readers see nothing, or one whole finished build of the mart and after it a
\* newer one, at every instant, until syncs clash.
Torn == MaxVersion + 1
ServedView ==
    IF clashed \/ rows[live] = {} THEN 0
    ELSE IF \E v \in 1..version : Serves(v)
         THEN CHOOSE v \in 1..version : Serves(v)
    ELSE Torn
FinishedMart == IF MartWhole /\ ~writing THEN version ELSE 0
Readers == INSTANCE AtomicPublish
             WITH mart <- FinishedMart, view <- ServedView, void <- clashed
PublishesAtomically == Readers!Spec

\* A finished mart reaches the readers, unless a newer build replaces it or a
\* clash voids what they see.
EventuallyPublished ==
    \A v \in 1..MaxVersion :
        (version = v /\ phase = "sync") ~>
            (Serves(v) \/ version # v \/ clashed)

=============================================================================
