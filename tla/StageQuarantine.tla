--------------------------- MODULE StageQuarantine ---------------------------
(***************************************************************************)
(* The stage (silver) jobs: what BaseStageJob does with the rows of one    *)
(* landing table that have no key or share a key with another row.  The    *)
(* clean rows become the stage table, the others the slice of the current  *)
(* batch in the quarantine (dead-letter queue), and the audit log says how *)
(* many they were.                                                         *)
(*                                                                         *)
(* A batch is a DAG run: its run_id is the BATCH_ID, so a retry and a      *)
(* cleared run use the same batch again.  Spark evaluates the plan anew    *)
(* for every action on it, so that the rejected rows are computed twice,   *)
(* for the count and for the quarantine, and the clean rows once more; of  *)
(* rows with equal keys each evaluation may keep another one, as nothing   *)
(* orders them (the primary key they agree on, or a literal).              *)
(*                                                                         *)
(* A row is an identity and the columns that the job deduplicates by; the  *)
(* casts of clean_and_cast keep these apart (they are numeric in the       *)
(* landing zone) and the other columns are left out.  The watermark and    *)
(* the two loads of one run are in IncrementalIngest.                      *)
(***************************************************************************)
EXTENDS Integers, FiniteSets

CONSTANTS
    Jobs,      \* the stage jobs to consider, names of Configs
    Values,    \* values of key columns
    Null,      \* SQL NULL
    Landings,  \* for every job: what its landing table may hold
    Batches,   \* ids of DAG runs
    MaxStarts  \* bound on the attempts of the job

-----------------------------------------------------------------------------
(* What the jobs pass to BaseStageJob.__init__ (primary_key, dedup_cols)   *)
(* and what clean_and_cast filters on (required).  Their column lists, the *)
(* defaults for NULL texts and the derived columns are abstracted away.    *)

NoColumn == "none"

application_train ==
    [pk |-> "sk_id_curr", dedup |-> {"sk_id_curr"}, required |-> {}]

application_test ==
    [pk |-> "sk_id_curr", dedup |-> {"sk_id_curr"}, required |-> {}]

bureau ==
    [pk |-> "sk_id_bureau", dedup |-> {"sk_id_bureau"}, required |-> {}]

previous_application ==
    [pk |-> "sk_id_prev", dedup |-> {"sk_id_prev"}, required |-> {}]

bureau_balance ==
    [pk |-> NoColumn, dedup |-> {"sk_id_bureau", "months_balance"},
     required |-> {"sk_id_bureau", "months_balance"}]

pos_cash_balance ==
    [pk |-> NoColumn, dedup |-> {"sk_id_prev", "months_balance"},
     required |-> {"sk_id_prev", "months_balance"}]

credit_card_balance ==
    [pk |-> NoColumn, dedup |-> {"sk_id_prev", "months_balance"},
     required |-> {"sk_id_prev", "months_balance"}]

installments_payments ==
    [pk |-> NoColumn,
     dedup |-> {"sk_id_prev", "num_instalment_version",
                "num_instalment_number", "days_instalment"},
     required |-> {"sk_id_prev", "num_instalment_number"}]

Configs ==
    [application_train |-> application_train,
     application_test |-> application_test,
     bureau |-> bureau,
     previous_application |-> previous_application,
     bureau_balance |-> bureau_balance,
     pos_cash_balance |-> pos_cash_balance,
     credit_card_balance |-> credit_card_balance,
     installments_payments |-> installments_payments]

Rows(conf) == [id : Nat, key : [conf.dedup -> Values \cup {Null}]]

ASSUME JobsAssumption == Jobs \subseteq DOMAIN Configs
ASSUME NullAssumption == Null \notin Values
ASSUME LandingsAssumption ==
    \A j \in Jobs : \A rows \in Landings[j] :
        rows \subseteq Rows(Configs[j]) /\ IsFiniteSet(rows)
ASSUME StartsAssumption == MaxStarts \in Nat

VARIABLES
    job,         \* the stage job
    landing,     \* rows under /raw/credit_risk/<table>
    stage,       \* rows under /stage/credit_risk/<table>
    quarantine,  \* rows under /quarantine/credit_risk/<table>, by _batch_id
    pc,          \* where the running attempt is
    batch,       \* batch_id of the attempt
    rejected,    \* rejected_count of the attempt
    routed,      \* how route_quarantine of the attempt ended
    status,      \* status of the attempt
    last,        \* what the last attempt of each batch has reported
    starts       \* attempts so far

vars == <<job, landing, stage, quarantine, pc, batch, rejected, routed,
          status, last, starts>>
attempt == <<batch, rejected, routed, status>>

config == Configs[job]

Points == {"idle", "extract", "count", "route", "delete", "write",
           "register", "audit"}
Outcomes == {"pending", "nothing", "written", "swallowed"}
Report(s, n, r) == [status |-> s, rejected |-> n, routed |-> r]
NoReport == Report("none", 0, "pending")

-----------------------------------------------------------------------------
(* The plan of transform(). *)

\* Mutant of Kept: clean_and_cast filters nothing.
Kept_All(conf, rows) == rows

\* clean_and_cast: rows without a required column are dropped, unreported.
Kept(conf, rows) ==
    {r \in rows : \A col \in conf.required : r.key[col] # Null}

NullKey(conf, r) == conf.pk # NoColumn /\ r.key[conf.pk] = Null

\* row_number() = 1 over the partitions of dedup_cols, in which NULL equals
\* NULL: one row of every key, any of them.
Firsts(rows) ==
    {first \in SUBSET rows :
        \A r \in rows : \E f \in first :
            {g \in first : g.key = r.key} = {f}}

Clean(conf, rows, first) == {r \in first : ~NullKey(conf, r)}

\* Mutant of Rejected: the duplicates only.
Rejected_Duplicates(conf, rows, first) == rows \ first

\* Null keys and duplicates.
Rejected(conf, rows, first) ==
    {r \in rows : NullKey(conf, r) \/ r \notin first}

\* Mutant of Overwritten: a static overwrite, which clears the other slices.
Overwritten_Static(slices, b, rows) ==
    [x \in Batches |-> IF x = b THEN rows ELSE {}]

\* Dynamic partition overwrite of a table partitioned by _batch_id.
Overwritten(slices, b, rows) == [slices EXCEPT ![b] = rows]

-----------------------------------------------------------------------------
Init ==
    /\ job \in Jobs
    /\ landing \in Landings[job]
    /\ stage = {}
    /\ quarantine = [b \in Batches |-> {}]
    /\ pc = "idle"
    /\ batch \in Batches
    /\ rejected = 0 /\ routed = "pending" /\ status = "FAILED"
    /\ last = [b \in Batches |-> NoReport]
    /\ starts = 0

\* The raw job of a run leaves another landing table.
Ingest ==
    /\ pc = "idle"
    /\ landing' \in Landings[job]
    /\ UNCHANGED <<job, stage, quarantine, pc, attempt, last, starts>>

\* Airflow starts the task: the first attempt of a run, a retry, or a run that
\* an operator has cleared.
Start(b) ==
    /\ pc = "idle" /\ starts < MaxStarts
    /\ starts' = starts + 1
    /\ pc' = "extract"
    /\ batch' = b /\ rejected' = 0 /\ routed' = "pending"
    /\ status' = "FAILED"
    /\ last' = [last EXCEPT ![b] = Report("running", 0, "pending")]
    /\ UNCHANGED <<job, landing, stage, quarantine>>

\* extract() and the plan of transform(): nothing is evaluated yet.
Extract ==
    /\ pc = "extract" /\ pc' = "count"
    /\ UNCHANGED <<job, landing, stage, quarantine, attempt, last, starts>>

\* df_quarantine.count(), and the early return when it is 0, which leaves what
\* an earlier attempt has put into the slice.
Count ==
    /\ pc = "count"
    /\ \E first \in Firsts(Kept(config, landing)) :
          rejected' =
              Cardinality(Rejected(config, Kept(config, landing), first))
    /\ IF rejected' = 0 THEN pc' = "delete" /\ routed' = "nothing"
                        ELSE pc' = "route" /\ UNCHANGED routed
    /\ UNCHANGED <<job, landing, stage, quarantine, batch, status, last,
                   starts>>

\* The write of the slice.
Route ==
    /\ pc = "route" /\ pc' = "delete"
    /\ \E first \in Firsts(Kept(config, landing)) :
          quarantine' =
              Overwritten(quarantine, batch,
                          Rejected(config, Kept(config, landing), first))
    /\ routed' = "written"
    /\ UNCHANGED <<job, landing, stage, batch, rejected, status, last, starts>>

\* route_quarantine catches every exception; a write that fails while it
\* commits may have removed the slice it replaces.
RouteFails ==
    /\ pc \in {"count", "route"} /\ pc' = "delete"
    /\ \/ UNCHANGED quarantine
       \/ pc = "route" /\ quarantine' = Overwritten(quarantine, batch, {})
    /\ routed' = "swallowed"
    /\ UNCHANGED <<job, landing, stage, batch, rejected, status, last, starts>>

\* A static overwrite deletes the stage table, then writes it.
Delete ==
    /\ pc = "delete" /\ pc' = "write"
    /\ stage' = {}
    /\ UNCHANGED <<job, landing, quarantine, attempt, last, starts>>

Write ==
    /\ pc = "write" /\ pc' = "register"
    /\ \E first \in Firsts(Kept(config, landing)) :
          stage' = Clean(config, Kept(config, landing), first)
    /\ UNCHANGED <<job, landing, quarantine, attempt, last, starts>>

\* The Hive table is registered; status = "SUCCESS".
Register ==
    /\ pc = "register" /\ pc' = "audit"
    /\ status' = "SUCCESS"
    /\ UNCHANGED <<job, landing, stage, quarantine, batch, rejected, routed,
                   last, starts>>

\* Any other exception: run() goes on to its finally clause.
Fail ==
    /\ pc \in {"extract", "delete", "write", "register"} /\ pc' = "audit"
    /\ UNCHANGED <<job, landing, stage, quarantine, attempt, last, starts>>

\* log_pipeline_execution in the finally clause.
Audit ==
    /\ pc = "audit" /\ pc' = "idle"
    /\ last' = [last EXCEPT ![batch] = Report(status, rejected, routed)]
    /\ UNCHANGED <<job, landing, stage, quarantine, attempt, starts>>

\* The driver is killed.
Crash ==
    /\ pc # "idle" /\ pc' = "idle"
    /\ \/ UNCHANGED quarantine
       \/ pc = "route" /\ quarantine' = Overwritten(quarantine, batch, {})
    /\ UNCHANGED <<job, landing, stage, attempt, last, starts>>

Next ==
    \/ Ingest
    \/ \E b \in Batches : Start(b)
    \/ Extract \/ Count \/ Route \/ RouteFails \/ Delete \/ Write \/ Register
    \/ Fail \/ Audit \/ Crash

Spec == Init /\ [][Next]_vars

-----------------------------------------------------------------------------
(* Properties *)

\* A row that downstream joins can find: its primary key, or the key columns
\* of a table without one, are not NULL.
HasKey(conf, r) ==
    /\ conf.pk # NoColumn => r.key[conf.pk] # Null
    /\ \A col \in conf.required : r.key[col] # Null

\* Every variable has its type, and no row without a key is ever staged.
TypeOK ==
    /\ job \in Jobs
    /\ landing \in Landings[job]
    /\ stage \subseteq {r \in Rows(config) : HasKey(config, r)}
    /\ quarantine \in [Batches -> SUBSET Rows(config)]
    /\ pc \in Points
    /\ batch \in Batches
    /\ rejected \in Nat
    /\ routed \in Outcomes
    /\ status \in {"FAILED", "SUCCESS"}
    /\ last \in [Batches ->
                   [status : {"none", "running", "FAILED", "SUCCESS"},
                    rejected : Nat, routed : Outcomes]]
    /\ starts \in 0..MaxStarts

\* What this attempt has put into the quarantine.
Slice == IF routed = "written" THEN quarantine[batch] ELSE {}

WithKey(rows, k) == {r \in rows : r.key = k}

\* An attempt that succeeds, and whose quarantine did not fail, accounts for
\* the landed rows of every key, though clean rows, rejected rows and their
\* number come from three evaluations of a plan that may choose differently:
\* one row is staged and the others are in the slice, all of them if the
\* primary key is NULL.  Nothing of an earlier attempt is left among them.
RowsConserved ==
    pc = "audit" /\ status = "SUCCESS" /\ routed # "swallowed" =>
        /\ stage \cup Slice \subseteq Kept(config, landing)
        /\ \A r \in Kept(config, landing) :
              /\ Cardinality(WithKey(stage, r.key)) =
                    IF NullKey(config, r) THEN 0 ELSE 1
              /\ Cardinality(WithKey(stage, r.key))
                   + Cardinality(WithKey(Slice, r.key))
                    = Cardinality(WithKey(Kept(config, landing), r.key))

\* The audit log agrees with the dead-letter queue: whatever other batches
\* have done since, the slice of a batch whose last attempt has succeeded and
\* routed rows holds as many rows as that attempt has reported rejected.
AuditedRejects ==
    \A b \in Batches :
        last[b].status = "SUCCESS" /\ last[b].routed = "written" =>
            Cardinality(quarantine[b]) = last[b].rejected

=============================================================================
