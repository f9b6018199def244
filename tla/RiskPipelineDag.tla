--------------------------- MODULE RiskPipelineDag ---------------------------
(***************************************************************************)
(* The Airflow DAG risk_data_pipeline: its 34 tasks, its edges, the        *)
(* directories each task's script reads, and the life of the DAG runs.     *)
(*                                                                         *)
(* The edges are those of the DAG file; the reads are those of the         *)
(* scripts, and nothing but the edges makes a task wait for what it reads. *)
(* Airflow itself is external: trigger rule all_success, a pool of slots   *)
(* for the Spark tasks, retries, upstream_failed, one active run.          *)
(*                                                                         *)
(* data[t] stands for the output directory of t: 0 while there is none or  *)
(* its overwrite has not committed, and otherwise how far back the outputs *)
(* reach it was made from, itself included: the oldest run in which one of *)
(* them was last written.  It says nothing of rows: the raw tables of      *)
(* incremental loads are appended to, which writes them in this run and    *)
(* keeps the rows of all earlier ones.  A read that falls back to a        *)
(* constant (dim_delinquency_bucket) is left out of Reads.                 *)
(***************************************************************************)
EXTENDS Naturals, FiniteSets

CONSTANTS
    Tasks,        \* the part of the DAG that is run: closed under Edges, Reads
    Done,         \* tasks that have succeeded when the behaviour begins
    Slots,        \* slots of spark_yarn_pool
    Retries,      \* default_args["retries"]
    MaxRuns,      \* bound on the DAG runs
    MaxFailures,  \* bound on failed attempts
    MaxOutages    \* bound on outages of the cluster

-----------------------------------------------------------------------------
(* The graph.  A task is its layer and the name of its table.              *)

Tables == {"application_train", "application_test", "bureau",
           "bureau_balance", "pos_cash_balance", "credit_card_balance",
           "installments_payments", "previous_application"}

Raw(x) == <<"raw", x>>
Stage(x) == <<"stage", x>>
Curated(x) == <<"curated", x>>
Health == <<"airflow", "cluster_healthcheck">>
Sync == <<"airflow", "sync_to_clickhouse_olap">>
Summary == <<"airflow", "pipeline_audit_summary">>

Dimensions == {"dim_delinquency_bucket", "dim_customer", "dim_loan_product",
               "dim_merchant_channel", "dim_application_decision",
               "dim_relative_time", "dim_bureau_source"}
Facts == {"fact_loan_application", "fact_monthly_loan_snapshot",
          "fact_installment_payment", "fact_bureau_credit",
          "fact_monthly_bureau_snapshot"}
Mart == Curated("obt_loan_portfolio_360")
QualityGate == Curated("reconciliation_audit")

AllTasks ==
    ({"raw", "stage"} \X Tables)
    \cup ({"curated"} \X (Dimensions \cup Facts))
    \cup {Mart, QualityGate, Health, Sync, Summary}

\* build_spark_task: everything that runs in spark_yarn_pool.
Spark(t) == t[1] # "airflow"

\* The raw jobs with LoadType.INCREMENTAL.
Incremental(t) ==
    t \in {Raw(x) : x \in Tables \ {"application_train", "application_test"}}

Loan == Curated("fact_loan_application")
MonthlyLoan == Curated("fact_monthly_loan_snapshot")
Customer == Curated("dim_customer")
LoanDims == {Customer, Curated("dim_loan_product"),
             Curated("dim_merchant_channel"),
             Curated("dim_application_decision")}
Applications == {Stage("application_train"), Stage("application_test")}

StageEdges ==
    ({Health} \X (({"raw"} \X Tables)
                  \cup {Curated("dim_delinquency_bucket"),
                        Curated("dim_relative_time")}))
    \cup {<<Raw(x), Stage(x)>> : x \in Tables}

\* Mutant of DimensionEdges: the edge to dim_customer from the test set is
\* forgotten.
DimensionEdges_TrainOnly ==
    {<<Stage("application_train"), Customer>>,
     <<Stage("bureau"), Curated("dim_bureau_source")>>}
    \cup ({Stage("previous_application")} \X (LoanDims \ {Customer}))

DimensionEdges ==
    (Applications \X {Customer})
    \cup ({Stage("previous_application")} \X (LoanDims \ {Customer}))
    \cup {<<Stage("bureau"), Curated("dim_bureau_source")>>}

FactEdges ==
    ((Applications \cup LoanDims) \X {Loan})
    \cup ({Stage("pos_cash_balance"), Stage("credit_card_balance"),
           Curated("dim_delinquency_bucket")} \X {MonthlyLoan})
    \cup {<<Stage("installments_payments"),
            Curated("fact_installment_payment")>>}
    \cup ({Stage("bureau"), Curated("dim_bureau_source")}
            \X {Curated("fact_bureau_credit")})
    \cup {<<Stage("bureau_balance"),
            Curated("fact_monthly_bureau_snapshot")>>}

\* Mutant of ServingEdges: the gate and the sync both follow the mart.
ServingEdges_Ungated ==
    (({Loan, MonthlyLoan} \cup LoanDims) \X {Mart})
    \cup {<<Mart, QualityGate>>, <<Mart, Sync>>, <<Sync, Summary>>}

ServingEdges ==
    (({Loan, MonthlyLoan} \cup LoanDims) \X {Mart})
    \cup {<<Mart, QualityGate>>, <<QualityGate, Sync>>}
    \cup ({Sync, Curated("fact_installment_payment"),
           Curated("fact_bureau_credit"),
           Curated("fact_monthly_bureau_snapshot"),
           Curated("dim_relative_time")} \X {Summary})

Edges == StageEdges \cup DimensionEdges \cup FactEdges \cup ServingEdges

\* <<p, t>>: the script of t reads the directory that the script of p writes.
StageReads == {<<Raw(x), Stage(x)>> : x \in Tables}
CustomerReads == Applications \X {Customer}
ProductReads ==
    {Stage("application_train"), Stage("previous_application")}
      \X {Curated("dim_loan_product")}
ChannelReads ==
    {<<Stage("previous_application"), Curated("dim_merchant_channel")>>}
DecisionReads ==
    {<<Stage("previous_application"), Curated("dim_application_decision")>>}
SourceReads == {<<Stage("bureau"), Curated("dim_bureau_source")>>}
LoanReads ==
    (Applications \cup LoanDims \cup {Stage("previous_application")}) \X {Loan}
MonthlyLoanReads ==
    {Stage("pos_cash_balance"), Stage("credit_card_balance"), Customer}
      \X {MonthlyLoan}
InstallmentReads ==
    {Stage("installments_payments"), Customer}
      \X {Curated("fact_installment_payment")}
BureauCreditReads ==
    {Stage("bureau"), Customer, Curated("dim_bureau_source")}
      \X {Curated("fact_bureau_credit")}
MonthlyBureauReads ==
    {Stage("bureau_balance"), Curated("fact_bureau_credit")}
      \X {Curated("fact_monthly_bureau_snapshot")}
\* A failed read of the monthly loan fact falls back to empty columns; the
\* edge makes it a read like the others.
MartReads == ({Loan, MonthlyLoan} \cup LoanDims) \X {Mart}
GateReads == (Applications \cup {Mart}) \X {QualityGate}
SyncReads == {<<Mart, Sync>>}

Reads ==
    StageReads \cup CustomerReads \cup ProductReads \cup ChannelReads
    \cup DecisionReads \cup SourceReads \cup LoanReads \cup MonthlyLoanReads
    \cup InstallmentReads \cup BureauCreditReads \cup MonthlyBureauReads
    \cup MartReads \cup GateReads \cup SyncReads

ASSUME TasksAssumption ==
    /\ Tasks \subseteq AllTasks
    /\ \A e \in Edges \cup Reads : e[2] \in Tasks => e[1] \in Tasks
ASSUME DoneAssumption ==
    /\ Done \subseteq Tasks
    /\ \A e \in Edges \cup Reads : e[2] \in Done => e[1] \in Done
ASSUME BoundsAssumption ==
    /\ Slots \in Nat \ {0} /\ Retries \in Nat
    /\ MaxRuns \in Nat \ {0} /\ MaxFailures \in Nat /\ MaxOutages \in Nat

Upstream(t) == {u \in Tasks : <<u, t>> \in Edges}
Inputs(t) == {u \in Tasks : <<u, t>> \in Reads}

-----------------------------------------------------------------------------

VARIABLES
    run,        \* number of the active (or last) DAG run
    state,      \* state of each task instance of that run
    tries,      \* retries each task has used in that run
    data,       \* oldest run that wrote what each output is made from, 0: none
    clusterUp,  \* do NameNode, ResourceManager and ClickHouse answer?
    failures,   \* attempts that may still fail for a reason of their own
    outages     \* outages that may still happen

vars == <<run, state, tries, data, clusterUp, failures, outages>>

TaskStates == {"none", "running", "writing", "up_for_retry", "success",
               "failed", "upstream_failed"}
Active(t) == state[t] \in {"running", "writing"}
Terminal(t) == state[t] \in {"success", "failed", "upstream_failed"}
RunEnded == \A t \in Tasks : Terminal(t)

TypeOK ==
    /\ run \in 1..MaxRuns
    /\ state \in [Tasks -> TaskStates]
    /\ tries \in [Tasks -> 0..Retries]
    /\ data \in [Tasks -> 0..MaxRuns]
    /\ clusterUp \in BOOLEAN
    /\ failures \in 0..MaxFailures
    /\ outages \in 0..MaxOutages

Init ==
    /\ run = 1
    /\ state = [t \in Tasks |-> IF t \in Done THEN "success" ELSE "none"]
    /\ tries = [t \in Tasks |-> 0]
    /\ data = [t \in Tasks |-> IF t \in Done /\ Spark(t) THEN 1 ELSE 0]
    /\ clusterUp = TRUE
    /\ failures = MaxFailures
    /\ outages = MaxOutages

\* A slot of the pool is free for t.
SlotFree(t) ==
    Spark(t) => Cardinality({u \in Tasks : Spark(u) /\ Active(u)}) < Slots

\* Trigger rule all_success, the default.
Triggered(t) ==
    /\ state[t] = "none"
    /\ \A u \in Upstream(t) : state[u] = "success"

Start(t) ==
    /\ Triggered(t) \/ state[t] = "up_for_retry"
    /\ SlotFree(t)
    /\ state' = [state EXCEPT ![t] = "running"]
    /\ UNCHANGED <<run, tries, data, clusterUp, failures, outages>>

\* Mutant of Doomed: only a direct failure is passed on.
Doomed_Direct(t) ==
    /\ state[t] = "none"
    /\ \E u \in Upstream(t) : state[u] = "failed"

\* A task below a failed one is never started.
Doomed(t) ==
    /\ state[t] = "none"
    /\ \E u \in Upstream(t) : state[u] \in {"failed", "upstream_failed"}

SkipDownstream(t) ==
    /\ Doomed(t)
    /\ state' = [state EXCEPT ![t] = "upstream_failed"]
    /\ UNCHANGED <<run, tries, data, clusterUp, failures, outages>>

\* The directories the script of t reads can be read.
Readable(t) == \A u \in Inputs(t) : data[u] # 0

\* The oldest run that last wrote what t reads, or t itself.
IsOldest(n, t) ==
    /\ n \in {run} \cup {data[u] : u \in Inputs(t)}
    /\ n <= run /\ \A u \in Inputs(t) : n <= data[u]

\* A Spark job resolves its inputs and deletes its target, but for the load of
\* an incremental table that finds a watermark: it appends.
Write(t) ==
    /\ state[t] = "running" /\ Spark(t)
    /\ clusterUp /\ Readable(t)
    /\ state' = [state EXCEPT ![t] = "writing"]
    /\ \/ data' = [data EXCEPT ![t] = 0]
       \/ Incremental(t) /\ UNCHANGED data
    /\ UNCHANGED <<run, tries, clusterUp, failures, outages>>

\* It commits its output; the submit script exits 0.
Commit(t) ==
    /\ state[t] = "writing"
    /\ clusterUp /\ Readable(t)
    /\ \E n \in 1..run : IsOldest(n, t) /\ data' = [data EXCEPT ![t] = n]
    /\ state' = [state EXCEPT ![t] = "success"]
    /\ UNCHANGED <<run, tries, clusterUp, failures, outages>>

\* The sync publishes the mart by an atomic exchange of tables.
Publish ==
    /\ Sync \in Tasks /\ state[Sync] = "running"
    /\ clusterUp /\ Readable(Sync)
    /\ data' = [data EXCEPT ![Sync] = data[Mart]]
    /\ state' = [state EXCEPT ![Sync] = "success"]
    /\ UNCHANGED <<run, tries, clusterUp, failures, outages>>

\* "( ... && exit 1)" leaves a subshell only and the last command is an echo:
\* the task succeeds whatever it finds.
HealthCheck ==
    /\ Health \in Tasks /\ state[Health] = "running"
    /\ state' = [state EXCEPT ![Health] = "success"]
    /\ UNCHANGED <<run, tries, data, clusterUp, failures, outages>>

AuditSummary ==
    /\ Summary \in Tasks /\ state[Summary] = "running"
    /\ state' = [state EXCEPT ![Summary] = "success"]
    /\ UNCHANGED <<run, tries, data, clusterUp, failures, outages>>

\* Mutant of Settle: retries are counted and never compared.
Settle_Unbounded(t) ==
    /\ state' = [state EXCEPT ![t] = "up_for_retry"]
    /\ tries' = [tries EXCEPT ![t] = @ + 1]

\* Airflow retries a failed attempt, or fails the task.
Settle(t) ==
    IF tries[t] < Retries
    THEN /\ state' = [state EXCEPT ![t] = "up_for_retry"]
         /\ tries' = [tries EXCEPT ![t] = @ + 1]
    ELSE /\ state' = [state EXCEPT ![t] = "failed"]
         /\ UNCHANGED tries

\* What a failed attempt leaves behind: it may have committed before.
LeftBy(t) ==
    \/ UNCHANGED data
    \/ /\ state[t] = "writing" /\ Readable(t)
       /\ \E n \in 1..run : IsOldest(n, t) /\ data' = [data EXCEPT ![t] = n]

\* An attempt fails for a reason of its own (driver, network, container).
Fail(t) ==
    /\ Active(t)
    /\ failures > 0
    /\ failures' = failures - 1
    /\ Settle(t) /\ LeftBy(t)
    /\ UNCHANGED <<run, clusterUp, outages>>

\* An attempt fails because an input is missing or the cluster does not answer.
Starve(t) ==
    /\ Active(t) /\ t \notin {Health, Summary}
    /\ ~Readable(t) \/ ~clusterUp
    /\ Settle(t)
    /\ UNCHANGED <<run, data, clusterUp, failures, outages>>

Outage ==
    /\ clusterUp /\ outages > 0
    /\ clusterUp' = FALSE
    /\ outages' = outages - 1
    /\ UNCHANGED <<run, state, tries, data, failures>>

Repair ==
    /\ ~clusterUp
    /\ clusterUp' = TRUE
    /\ UNCHANGED <<run, state, tries, data, failures, outages>>

\* max_active_runs = 1: the next run waits for the end of this one.
NextRun ==
    /\ RunEnded
    /\ run < MaxRuns
    /\ run' = run + 1
    /\ state' = [t \in Tasks |-> "none"]
    /\ tries' = [t \in Tasks |-> 0]
    /\ UNCHANGED <<data, clusterUp, failures, outages>>

-----------------------------------------------------------------------------

Schedule(t) == Start(t) \/ SkipDownstream(t)
Work(t) == Write(t) \/ Commit(t) \/ Starve(t)
Serve == Publish \/ HealthCheck \/ AuditSummary

Next == \/ \E t \in Tasks : Schedule(t) \/ Work(t) \/ Fail(t)
        \/ Serve \/ NextRun \/ Outage \/ Repair

Spec == Init /\ [][Next]_vars

\* The scheduler loop goes on, and an attempt ends one way or another.
FairSpec ==
    /\ Spec
    /\ WF_vars(\E t \in Tasks : Schedule(t))
    /\ \A t \in Tasks : WF_vars(Work(t))
    /\ WF_vars(Serve)
    /\ WF_vars(NextRun)

-----------------------------------------------------------------------------
(* Properties.                                                             *)

\* Some tasks, and those whose output they read.
Nearer(S) == S \cup UNION {Inputs(u) : u \in S}

\* Every task whose output flows into the mart, and the quality gate: one step
\* up from the mart lie facts and dimensions, then stage tasks, then raw tasks.
Lineage == Nearer(Nearer(Nearer({Mart, QualityGate})))

\* Once the sync has started, everything that flows into the mart, and the
\* quality gate, has succeeded in this run and is committed: nothing torn and
\* nothing unchecked is served, whatever failed and was retried on the way.
ServedComplete ==
    Sync \in Tasks /\ state[Sync] \in {"running", "up_for_retry", "success", "failed"} =>
        \A u \in Lineage : state[u] = "success" /\ data[u] # 0

\* The terminal barrier: the summary succeeds only after every other task.
SummaryMeansAll ==
    Summary \in Tasks /\ state[Summary] = "success" =>
        \A t \in Tasks : state[t] = "success"

\* A task that has succeeded was built, from the source on, from outputs that
\* this run has written; none was a directory an earlier run had left.
FreshIn(S) ==
    \A t \in S : Spark(t) /\ state[t] = "success" => data[t] = run
FreshOutputs == FreshIn(Tasks)

\* Without a failure from outside no task of any run fails: none uses up its
\* retries waiting for a directory that is still being written.
SpuriousIn(S) ==
    /\ failures = MaxFailures /\ outages = MaxOutages
    /\ \E t \in S : state[t] = "failed"
NoSpuriousFailure == ~SpuriousIn(Tasks)

\* Every DAG run ends, which the next one waits for.
RunsEnd == []<>RunEnded

=============================================================================
