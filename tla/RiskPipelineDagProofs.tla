------------------------ MODULE RiskPipelineDagProofs ------------------------
(***************************************************************************)
(* Proofs about RiskPipelineDag, for any closed part of the DAG, any       *)
(* number of slots, retries and runs, and any failures and outages.        *)
(***************************************************************************)
EXTENDS RiskPipelineDag, FiniteSetTheorems, WellFoundedInduction, TLAPS

\* The health check, the sync and the summary run outside the Spark pool.
LEMMA AirflowTasks == ~Spark(Health) /\ ~Spark(Sync) /\ ~Spark(Summary)
BY DEF Spark, Health, Sync, Summary

\* What a commit writes is a run that has started.
LEMMA OldestIsRun ==
    ASSUME TypeOK, NEW t \in Tasks, NEW n \in 1..run, IsOldest(n, t)
    PROVE  n \in 0..MaxRuns
BY BoundsAssumption DEF TypeOK

-----------------------------------------------------------------------------
(* Type correctness.                                                       *)

\* Settling a failed attempt keeps the types of what it changes.
LEMMA SettleType ==
    ASSUME TypeOK, NEW t \in Tasks, Settle(t)
    PROVE  /\ state' \in [Tasks -> TaskStates]
           /\ tries' \in [Tasks -> 0..Retries]
<1>1. CASE tries[t] < Retries
  <2>1. tries[t] + 1 \in 0..Retries
    BY <1>1, BoundsAssumption DEF TypeOK
  <2>2. QED BY <1>1, <2>1 DEF Settle, TypeOK, TaskStates
<1>2. CASE ~(tries[t] < Retries)
  BY <1>2 DEF Settle, TypeOK, TaskStates
<1>3. QED BY <1>1, <1>2

\* Every variable keeps its type.
LEMMA DagTypeStep == TypeOK /\ [Next]_vars => TypeOK'
<1> SUFFICES ASSUME TypeOK, [Next]_vars PROVE TypeOK'
  OBVIOUS
<1>1. ASSUME NEW t \in Tasks, Start(t) \/ SkipDownstream(t) PROVE TypeOK'
  BY <1>1 DEF Start, SkipDownstream, TypeOK, TaskStates
<1>2. ASSUME NEW t \in Tasks, Write(t) PROVE TypeOK'
  BY <1>2, BoundsAssumption DEF Write, TypeOK, TaskStates
<1>3. ASSUME NEW t \in Tasks, Commit(t) PROVE TypeOK'
  <2>1. PICK n \in 1..run : IsOldest(n, t) /\ data' = [data EXCEPT ![t] = n]
    BY <1>3 DEF Commit
  <2>2. n \in 0..MaxRuns
    BY <2>1, <1>3, OldestIsRun
  <2>3. QED BY <1>3, <2>1, <2>2 DEF Commit, TypeOK, TaskStates
<1>4. ASSUME NEW t \in Tasks, Starve(t) PROVE TypeOK'
  BY <1>4, SettleType DEF Starve, TypeOK
<1>5. ASSUME NEW t \in Tasks, Fail(t) PROVE TypeOK'
  <2>1. data' \in [Tasks -> 0..MaxRuns]
    <3>1. CASE UNCHANGED data
      BY <3>1 DEF TypeOK
    <3>2. CASE \E n \in 1..run :
                  IsOldest(n, t) /\ data' = [data EXCEPT ![t] = n]
      <4>1. PICK n \in 1..run :
              IsOldest(n, t) /\ data' = [data EXCEPT ![t] = n]
        BY <3>2
      <4>2. QED BY <4>1, <1>5, OldestIsRun DEF TypeOK
    <3>3. QED BY <1>5, <3>1, <3>2 DEF Fail, LeftBy
  <2>2. failures' \in 0..MaxFailures
    BY <1>5, BoundsAssumption DEF Fail, TypeOK
  <2>3. QED BY <1>5, <2>1, <2>2, SettleType DEF Fail, TypeOK
<1>6. CASE Publish
  <2>0. <<Mart, Sync>> \in Edges \cup Reads
    BY DEF Reads, SyncReads
  <2>1. Mart \in Tasks
    BY <1>6, <2>0, TasksAssumption DEF Publish
  <2>2. QED BY <1>6, <2>1 DEF Publish, TypeOK, TaskStates
<1>7. CASE HealthCheck \/ AuditSummary
  BY <1>7 DEF HealthCheck, AuditSummary, TypeOK, TaskStates
<1>8. CASE NextRun
  BY <1>8, BoundsAssumption DEF NextRun, TypeOK, TaskStates
<1>9. CASE Outage \/ Repair
  <2>1. outages' \in 0..MaxOutages
    BY <1>9, BoundsAssumption DEF Outage, Repair, TypeOK
  <2>2. clusterUp' \in BOOLEAN
    BY <1>9 DEF Outage, Repair
  <2>3. UNCHANGED <<run, state, tries, data, failures>>
    BY <1>9 DEF Outage, Repair
  <2>4. QED BY <2>1, <2>2, <2>3 DEF TypeOK
<1>10. CASE UNCHANGED vars
  BY <1>10 DEF vars, TypeOK
<1>11. QED
  BY <1>1, <1>2, <1>3, <1>4, <1>5, <1>6, <1>7, <1>8, <1>9, <1>10
     DEF Next, Schedule, Work, Serve

\* The initial state is well typed.
LEMMA DagTypeInit == Init => TypeOK
BY BoundsAssumption DEF Init, TypeOK, TaskStates

\* Type correctness, for any part of the DAG and any bounds.
THEOREM DagTypeCorrect == Spec => []TypeOK
BY DagTypeInit, DagTypeStep, PTL DEF Spec

-----------------------------------------------------------------------------
(* The terminal barrier.                                                   *)

\* A task that was ever started in this run.
Begun(t) == state[t] \notin {"none", "upstream_failed"}

\* The inductive invariant: what a started task waits for has succeeded, and
\* success is final within a run.
UpstreamDone ==
    \A t \in Tasks : Begun(t) => \A u \in Upstream(t) : state[u] = "success"

\* A step that moves only t, which has started and not succeeded, keeps it.
LEMMA MoveOne ==
    ASSUME TypeOK, UpstreamDone, NEW t \in Tasks, NEW s \in TaskStates,
           state[t] # "success",
           Begun(t) \/ Triggered(t) \/ s = "upstream_failed",
           state' = [state EXCEPT ![t] = s]
    PROVE  UpstreamDone'
<1> SUFFICES ASSUME NEW d \in Tasks, Begun(d)', NEW u \in Upstream(d)
             PROVE  state'[u] = "success"
  BY DEF UpstreamDone, Upstream
<1>0. u \in Tasks
  BY DEF Upstream
<1>1. CASE d = t
  <2>1. s # "upstream_failed"
    BY <1>1 DEF Begun, TypeOK
  <2>2. state[u] = "success"
    BY <1>1, <2>1 DEF UpstreamDone, Triggered
  <2>3. QED BY <2>2, <1>0 DEF TypeOK
<1>2. CASE d # t
  <2>1. Begun(d)
    BY <1>2 DEF Begun, TypeOK
  <2>2. state[u] = "success"
    BY <2>1 DEF UpstreamDone
  <2>3. QED BY <2>2, <1>0 DEF TypeOK
<1>3. QED BY <1>1, <1>2

\* Every step keeps UpstreamDone.
LEMMA UpstreamStep == TypeOK /\ UpstreamDone /\ [Next]_vars => UpstreamDone'
<1> SUFFICES ASSUME TypeOK, UpstreamDone, [Next]_vars PROVE UpstreamDone'
  OBVIOUS
<1>1. ASSUME NEW t \in Tasks, Start(t) PROVE UpstreamDone'
  BY <1>1, MoveOne DEF Start, Triggered, Begun, TaskStates
<1>2. ASSUME NEW t \in Tasks, SkipDownstream(t) PROVE UpstreamDone'
  BY <1>2, MoveOne DEF SkipDownstream, Doomed, TaskStates
<1>3. ASSUME NEW t \in Tasks, Write(t) \/ Commit(t) PROVE UpstreamDone'
  BY <1>3, MoveOne DEF Write, Commit, Begun, TaskStates
<1>4. ASSUME NEW t \in Tasks, Active(t), Settle(t) PROVE UpstreamDone'
  BY <1>4, MoveOne DEF Active, Settle, Begun, TaskStates
<1>5. ASSUME NEW t \in Tasks, Starve(t) \/ Fail(t) PROVE UpstreamDone'
  BY <1>4, <1>5 DEF Starve, Fail
<1>6. CASE Serve
  BY <1>6, MoveOne
     DEF Serve, Publish, HealthCheck, AuditSummary, Begun, TaskStates
<1>7. CASE NextRun
  BY <1>7 DEF NextRun, UpstreamDone, Begun, Upstream
<1>8. CASE UNCHANGED state
  BY <1>8 DEF UpstreamDone, Begun, Upstream
<1>9. QED
  BY <1>1, <1>2, <1>3, <1>5, <1>6, <1>7, <1>8
     DEF Next, Schedule, Work, Outage, Repair, vars

\* Done is closed under the edges, so the initial state satisfies it.
LEMMA UpstreamInit == Init => UpstreamDone
BY DoneAssumption DEF Init, UpstreamDone, Begun, Upstream

\* The edges into t pull success upwards once t has started.
LEMMA Pull ==
    ASSUME UpstreamDone, NEW t \in Tasks, Begun(t) \/ state[t] = "success",
           NEW u, <<u, t>> \in Edges
    PROVE  u \in Tasks /\ state[u] = "success"
<1>1. u \in Tasks
  BY TasksAssumption
<1>2. u \in Upstream(t)
  BY <1>1 DEF Upstream
<1>3. QED BY <1>1, <1>2 DEF UpstreamDone, Begun

\* The same for a set of tasks above t.
LEMMA PullAll ==
    ASSUME UpstreamDone, NEW t \in Tasks, Begun(t) \/ state[t] = "success",
           NEW S, S \X {t} \subseteq Edges
    PROVE  \A u \in S : u \in Tasks /\ state[u] = "success"
<1> SUFFICES ASSUME NEW u \in S PROVE u \in Tasks /\ state[u] = "success"
  OBVIOUS
<1>1. <<u, t>> \in Edges
  OBVIOUS
<1>2. QED BY <1>1, Pull

\* A table whose stage task has succeeded has been ingested.
LEMMA PullRaw ==
    ASSUME UpstreamDone, NEW x \in Tables, Stage(x) \in Tasks,
           state[Stage(x)] = "success"
    PROVE  Raw(x) \in Tasks /\ state[Raw(x)] = "success"
<1>1. <<Raw(x), Stage(x)>> \in Edges
  BY DEF Edges, StageEdges
<1>2. QED BY <1>1, Pull

\* What the mart is built from.
MartTables == {"application_train", "application_test",
               "previous_application", "pos_cash_balance",
               "credit_card_balance"}
Behind == {Mart, QualityGate, Loan, MonthlyLoan} \cup LoanDims
          \cup ({"raw", "stage"} \X MartTables)

\* Once the quality gate has succeeded so has all that the mart is built from.
LEMMA BehindGate ==
    ASSUME UpstreamDone, QualityGate \in Tasks, state[QualityGate] = "success"
    PROVE  \A t \in Behind : t \in Tasks /\ state[t] = "success"
<1> DEFINE Good(t) == t \in Tasks /\ state[t] = "success"
<1>1. Good(Mart)
  <2>1. <<Mart, QualityGate>> \in Edges
    BY DEF Edges, ServingEdges
  <2>2. QED BY <2>1, Pull
<1>2. Good(Loan) /\ Good(MonthlyLoan) /\ \A d \in LoanDims : Good(d)
  <2>1. ({Loan, MonthlyLoan} \cup LoanDims) \X {Mart} \subseteq Edges
    BY DEF Edges, ServingEdges
  <2>2. QED BY <1>1, <2>1, PullAll
<1>3. \A s \in Applications : Good(s)
  <2>1. Applications \X {Loan} \subseteq Edges
    BY DEF Edges, FactEdges
  <2>2. QED BY <1>2, <2>1, PullAll
<1>4. Good(Stage("pos_cash_balance")) /\ Good(Stage("credit_card_balance"))
  <2>1. {Stage("pos_cash_balance"), Stage("credit_card_balance")}
          \X {MonthlyLoan} \subseteq Edges
    BY DEF Edges, FactEdges
  <2>2. QED BY <1>2, <2>1, PullAll
<1>5. Good(Stage("previous_application"))
  <2>1. Curated("dim_loan_product") \in LoanDims
    BY DEF LoanDims
  <2>2. Curated("dim_loan_product") # Customer
    BY DEF Curated, Customer
  <2>3. <<Stage("previous_application"), Curated("dim_loan_product")>>
          \in Edges
    BY <2>1, <2>2 DEF Edges, DimensionEdges
  <2>4. QED BY <1>2, <2>1, <2>3, Pull
<1>6. \A x \in MartTables : Good(Stage(x))
  BY <1>3, <1>4, <1>5 DEF MartTables, Applications
<1>7. \A x \in MartTables : Good(Raw(x))
  <2>1. MartTables \subseteq Tables
    BY DEF MartTables, Tables
  <2>2. QED BY <1>6, <2>1, PullRaw
<1>8. \A t \in {"raw", "stage"} \X MartTables : Good(t)
  BY <1>6, <1>7 DEF Raw, Stage
<1>9. QED BY <1>1, <1>2, <1>8 DEF Behind

\* The barrier: whatever fails, is retried or is cut off by an outage, the
\* summary of a run that holds the whole DAG succeeds after all 34 tasks.
THEOREM BarrierHolds ==
    ASSUME Summary \in Tasks
    PROVE  Spec => [](SummaryMeansAll
                      /\ (state[Summary] = "success" =>
                            \A t \in AllTasks : state[t] = "success"))
<1>1. ASSUME UpstreamDone, state[Summary] = "success"
      PROVE  \A t \in AllTasks : state[t] = "success"
  <2> DEFINE Good(t) == t \in Tasks /\ state[t] = "success"
  <2>1. Good(Sync) /\ Good(Curated("fact_installment_payment"))
        /\ Good(Curated("fact_bureau_credit"))
        /\ Good(Curated("fact_monthly_bureau_snapshot"))
        /\ Good(Curated("dim_relative_time"))
    <3>1. {Sync, Curated("fact_installment_payment"),
           Curated("fact_bureau_credit"),
           Curated("fact_monthly_bureau_snapshot"),
           Curated("dim_relative_time")} \X {Summary} \subseteq Edges
      BY DEF Edges, ServingEdges
    <3>2. QED BY <1>1, <3>1, PullAll
  <2>2. Good(QualityGate)
    <3>1. <<QualityGate, Sync>> \in Edges
      BY DEF Edges, ServingEdges
    <3>2. QED BY <1>1, <2>1, <3>1, Pull
  <2>3. \A t \in Behind : Good(t)
    BY <1>1, <2>2, BehindGate
  <2>4. Good(Mart) /\ Good(Loan) /\ Good(MonthlyLoan)
        /\ \A d \in LoanDims : Good(d)
    BY <2>3 DEF Behind
  <2>5. \A x \in MartTables : Good(Stage(x))
    BY <2>3 DEF Behind, Stage
  <2>6. Good(Curated("dim_delinquency_bucket"))
    <3>1. <<Curated("dim_delinquency_bucket"), MonthlyLoan>> \in Edges
      BY DEF Edges, FactEdges
    <3>2. QED BY <1>1, <2>4, <3>1, Pull
  <2>7. Good(Stage("installments_payments"))
    <3>1. <<Stage("installments_payments"),
            Curated("fact_installment_payment")>> \in Edges
      BY DEF Edges, FactEdges
    <3>2. QED BY <1>1, <2>1, <3>1, Pull
  <2>8. Good(Stage("bureau")) /\ Good(Curated("dim_bureau_source"))
    <3>1. {Stage("bureau"), Curated("dim_bureau_source")}
            \X {Curated("fact_bureau_credit")} \subseteq Edges
      BY DEF Edges, FactEdges
    <3>2. QED BY <1>1, <2>1, <3>1, PullAll
  <2>9. Good(Stage("bureau_balance"))
    <3>1. <<Stage("bureau_balance"),
            Curated("fact_monthly_bureau_snapshot")>> \in Edges
      BY DEF Edges, FactEdges
    <3>2. QED BY <1>1, <2>1, <3>1, Pull
  <2>10. \A x \in Tables : Good(Stage(x))
    BY <2>5, <2>7, <2>8, <2>9 DEF Tables, MartTables
  <2>11. \A x \in Tables : Good(Raw(x))
    BY <1>1, <2>10, PullRaw
  <2>12. Good(Health)
    <3>1. "bureau" \in Tables
      BY DEF Tables
    <3>2. <<Health, Raw("bureau")>> \in Edges
      BY <3>1 DEF Edges, StageEdges, Raw
    <3>3. QED BY <1>1, <2>11, <3>1, <3>2, Pull
  <2>13. \A d \in Dimensions \cup Facts : Good(Curated(d))
    BY <2>1, <2>4, <2>6, <2>8
       DEF Dimensions, Facts, LoanDims, Loan, MonthlyLoan, Customer
  <2>14. \A t \in AllTasks : Good(t)
    <3> SUFFICES ASSUME NEW t \in AllTasks PROVE Good(t)
      OBVIOUS
    <3>1. CASE t \in {"raw", "stage"} \X Tables
      BY <3>1, <2>10, <2>11 DEF Raw, Stage
    <3>2. CASE t \in {"curated"} \X (Dimensions \cup Facts)
      BY <3>2, <2>13 DEF Curated
    <3>3. CASE t \in {Mart, QualityGate, Health, Sync, Summary}
      BY <3>3, <1>1, <2>1, <2>2, <2>4, <2>12
    <3>4. QED BY <3>1, <3>2, <3>3 DEF AllTasks
  <2>15. QED BY <2>14
<1>2. UpstreamDone =>
        (SummaryMeansAll /\ (state[Summary] = "success" =>
                               \A t \in AllTasks : state[t] = "success"))
  BY <1>1, TasksAssumption DEF SummaryMeansAll
<1>3. QED
  BY <1>2, DagTypeInit, DagTypeStep, UpstreamInit, UpstreamStep, PTL DEF Spec

-----------------------------------------------------------------------------
(* What is served.                                                         *)

\* A Spark task that has succeeded has an output that is committed.
Committed == \A t \in Tasks : Spark(t) /\ state[t] = "success" => data[t] # 0

\* A step of one Spark task keeps Committed: it may touch its own output only,
\* and commits it before it succeeds.
LEMMA CommitOne ==
    ASSUME TypeOK, Committed, NEW t \in Tasks, NEW s \in TaskStates,
           state' = [state EXCEPT ![t] = s],
           \A u \in Tasks \ {t} : data'[u] = data[u],
           Spark(t) /\ s = "success" => data'[t] # 0
    PROVE  Committed'
<1> SUFFICES ASSUME NEW u \in Tasks, Spark(u), state'[u] = "success"
             PROVE  data'[u] # 0
  BY DEF Committed, Spark
<1>1. CASE u = t
  BY <1>1 DEF TypeOK
<1>2. CASE u # t
  BY <1>2 DEF TypeOK, Committed
<1>3. QED BY <1>1, <1>2

\* Every step keeps Committed.
LEMMA CommittedStep == TypeOK /\ Committed /\ [Next]_vars => Committed'
<1> SUFFICES ASSUME TypeOK, Committed, [Next]_vars PROVE Committed'
  OBVIOUS
<1> USE DEF TaskStates
<1>1. ASSUME NEW t \in Tasks, Start(t) \/ SkipDownstream(t) PROVE Committed'
  BY <1>1, CommitOne DEF Start, SkipDownstream
<1>2. ASSUME NEW t \in Tasks, Write(t) PROVE Committed'
  <2>1. \A u \in Tasks \ {t} : data'[u] = data[u]
    BY <1>2 DEF Write, TypeOK
  <2>2. QED BY <1>2, <2>1, CommitOne DEF Write
<1>3. ASSUME NEW t \in Tasks, Commit(t) PROVE Committed'
  <2>1. PICK n \in 1..run : data' = [data EXCEPT ![t] = n]
    BY <1>3 DEF Commit
  <2>2. /\ \A u \in Tasks \ {t} : data'[u] = data[u]
        /\ data'[t] # 0
    BY <2>1 DEF TypeOK
  <2>3. QED BY <1>3, <2>2, CommitOne DEF Commit
<1>4. ASSUME NEW t \in Tasks, Settle(t),
             \A u \in Tasks \ {t} : data'[u] = data[u]
      PROVE  Committed'
  BY <1>4, CommitOne DEF Settle
<1>5. ASSUME NEW t \in Tasks, Starve(t) PROVE Committed'
  BY <1>4, <1>5 DEF Starve
<1>6. ASSUME NEW t \in Tasks, Fail(t) PROVE Committed'
  <2>1. \A u \in Tasks \ {t} : data'[u] = data[u]
    BY <1>6 DEF Fail, LeftBy, TypeOK
  <2>2. QED BY <1>4, <1>6, <2>1 DEF Fail
<1>7. CASE Publish
  <2>1. \A u \in Tasks \ {Sync} : data'[u] = data[u]
    BY <1>7 DEF Publish, TypeOK
  <2>2. QED BY <1>7, <2>1, AirflowTasks, CommitOne DEF Publish
<1>8. CASE HealthCheck
  BY <1>8, AirflowTasks, CommitOne DEF HealthCheck
<1>9. CASE AuditSummary
  BY <1>9, AirflowTasks, CommitOne DEF AuditSummary
<1>10. CASE NextRun
  BY <1>10 DEF NextRun, Committed
<1>11. CASE UNCHANGED <<state, data>>
  BY <1>11 DEF Committed
<1>12. QED
  BY <1>1, <1>2, <1>3, <1>5, <1>6, <1>7, <1>8, <1>9, <1>10, <1>11
     DEF Next, Schedule, Work, Serve, Outage, Repair, vars

\* Nothing outside Behind is read by a task inside.
LEMMA BehindClosed == \A u \in Behind : Inputs(u) \subseteq Behind
<1> SUFFICES ASSUME NEW u \in Behind, NEW v, <<v, u>> \in Reads
             PROVE  v \in Behind
  BY DEF Inputs
<1> USE DEF Behind, Mart, QualityGate, Loan, MonthlyLoan, LoanDims, Customer,
            Curated
<1>1. CASE <<v, u>> \in StageReads
  <2>1. PICK x \in Tables : v = Raw(x) /\ u = Stage(x)
    BY <1>1 DEF StageReads
  <2>2. x \in MartTables
    BY <2>1 DEF Stage
  <2>3. QED BY <2>1, <2>2 DEF Raw
<1>2. CASE <<v, u>> \in CustomerReads \cup ProductReads \cup ChannelReads
                        \cup DecisionReads
  BY <1>2 DEF CustomerReads, ProductReads, ChannelReads, DecisionReads,
              Applications, Stage, MartTables
<1>3. CASE <<v, u>> \in LoanReads \cup MonthlyLoanReads
  BY <1>3 DEF LoanReads, MonthlyLoanReads, Applications, Stage, MartTables
<1>4. CASE <<v, u>> \in MartReads \cup GateReads
  BY <1>4 DEF MartReads, GateReads, Applications, Stage, MartTables
<1>5. CASE <<v, u>> \in SourceReads \cup InstallmentReads
                        \cup BureauCreditReads \cup MonthlyBureauReads
  BY <1>5 DEF SourceReads, InstallmentReads, BureauCreditReads,
              MonthlyBureauReads
<1>6. CASE <<v, u>> \in SyncReads
  BY <1>6 DEF SyncReads, Sync
<1>7. QED BY <1>1, <1>2, <1>3, <1>4, <1>5, <1>6 DEF Reads

\* So the lineage of the mart lies in Behind.
LEMMA LineageBehind == Lineage \subseteq Behind
<1>1. \A S : S \subseteq Behind => Nearer(S) \subseteq Behind
  BY BehindClosed DEF Nearer
<1>2. {Mart, QualityGate} \subseteq Behind
  BY DEF Behind
<1>3. QED BY <1>1, <1>2 DEF Lineage

\* Whatever fails and is retried, the sync starts over a mart whose lineage,
\* the quality gate included, has succeeded in this run and is committed.
THEOREM ServedIsComplete == Spec => []ServedComplete
<1>1. Init => Committed
  BY DEF Init, Committed
<1>2. UpstreamDone /\ Committed => ServedComplete
  <2> SUFFICES ASSUME UpstreamDone, Committed, Sync \in Tasks, Begun(Sync),
                      NEW u \in Lineage
               PROVE  state[u] = "success" /\ data[u] # 0
    BY DEF ServedComplete, Begun
  <2>1. <<QualityGate, Sync>> \in Edges
    BY DEF Edges, ServingEdges
  <2>2. QualityGate \in Tasks /\ state[QualityGate] = "success"
    BY <2>1, Pull
  <2>3. u \in Behind
    BY LineageBehind
  <2>4. u \in Tasks /\ state[u] = "success"
    BY <2>2, <2>3, BehindGate
  <2>5. Spark(u)
    BY <2>3 DEF Behind, Spark, Mart, QualityGate, Loan, MonthlyLoan, LoanDims,
                Customer, Curated
  <2>6. QED BY <2>4, <2>5 DEF Committed
<1>3. QED
  BY <1>1, <1>2, DagTypeInit, DagTypeStep, UpstreamInit, UpstreamStep,
     CommittedStep, PTL DEF Spec

-----------------------------------------------------------------------------
(* What a task waits for.                                                  *)

\* The tasks above t: those in every set that holds the upstream tasks of t
\* and, with a task, the upstream tasks of that task.
Ancestors(t) ==
    {u \in Tasks :
        \A A \in SUBSET Tasks :
            /\ Upstream(t) \subseteq A
            /\ \A v \in A : Upstream(v) \subseteq A
            => u \in A}

\* A task that was started runs below tasks that have all succeeded: those
\* that have succeeded are such a set.
LEMMA AncestorsDone ==
    ASSUME UpstreamDone, NEW t \in Tasks, Begun(t)
    PROVE  \A u \in Ancestors(t) : state[u] = "success"
<1> DEFINE A == {v \in Tasks : state[v] = "success"}
<1>1. Upstream(t) \subseteq A
  BY DEF UpstreamDone, Upstream
<1>2. \A v \in A : Upstream(v) \subseteq A
  BY DEF UpstreamDone, Upstream, Begun
<1>3. A \in SUBSET Tasks
  OBVIOUS
<1>4. QED BY <1>1, <1>2, <1>3 DEF Ancestors

\* A path of one edge, and of two, leads to an ancestor.
LEMMA EdgeIsAncestor ==
    ASSUME NEW t \in Tasks, NEW u, <<u, t>> \in Edges
    PROVE  u \in Ancestors(t)
<1>1. u \in Upstream(t)
  BY TasksAssumption DEF Upstream
<1>2. QED BY <1>1 DEF Ancestors, Upstream

LEMMA PathIsAncestor ==
    ASSUME NEW t \in Tasks, NEW u, <<u, t>> \in Edges,
           NEW v, <<v, u>> \in Edges
    PROVE  v \in Ancestors(t)
<1>1. u \in Upstream(t)
  BY TasksAssumption DEF Upstream
<1>2. v \in Upstream(u)
  BY <1>1, TasksAssumption DEF Upstream
<1>3. QED BY <1>1, <1>2 DEF Ancestors, Upstream

\* All that a script reads is written by a Spark task.
LEMMA InputsAreSpark == \A t : \A u \in Inputs(t) : Spark(u)
<1> SUFFICES ASSUME NEW t, NEW u, <<u, t>> \in Reads PROVE Spark(u)
  BY DEF Inputs
<1> USE DEF Spark, Stage, Raw, Curated, Applications, LoanDims, Customer,
            Loan, MonthlyLoan, Mart
<1>1. CASE <<u, t>> \in StageReads \cup CustomerReads \cup ProductReads
                        \cup ChannelReads \cup DecisionReads \cup SourceReads
  BY <1>1 DEF StageReads, CustomerReads, ProductReads, ChannelReads,
              DecisionReads, SourceReads
<1>2. CASE <<u, t>> \in LoanReads \cup MonthlyLoanReads
  BY <1>2 DEF LoanReads, MonthlyLoanReads
<1>3. CASE <<u, t>> \in InstallmentReads \cup BureauCreditReads
                        \cup MonthlyBureauReads
  BY <1>3 DEF InstallmentReads, BureauCreditReads, MonthlyBureauReads
<1>4. CASE <<u, t>> \in MartReads \cup GateReads \cup SyncReads
  BY <1>4 DEF MartReads, GateReads, SyncReads
<1>5. QED BY <1>1, <1>2, <1>3, <1>4 DEF Reads

\* A task that waits for all it reads finds it, once it has started.
LEMMA AwaitedIsReadable ==
    ASSUME UpstreamDone, Committed, NEW t \in Tasks, Begun(t),
           Inputs(t) \subseteq Ancestors(t)
    PROVE  Readable(t)
BY AncestorsDone, InputsAreSpark DEF Readable, Committed, Inputs

-----------------------------------------------------------------------------
(* Outputs an earlier run has left.                                        *)

\* If a task of S has succeeded with an output that goes back to one an earlier
\* run had left, this came in at a task of E above it, or above that one.
TracedIn(S, E) ==
    \A t \in S :
        Spark(t) /\ state[t] = "success" /\ data[t] # run =>
            \E e \in E \cap Ancestors(t) : data[e] # run

\* The ancestors of an ancestor are ancestors.
LEMMA AncestorsClimb ==
    ASSUME NEW t \in Tasks, NEW u \in Ancestors(t), NEW v \in Ancestors(u)
    PROVE  v \in Ancestors(t)
<1> SUFFICES ASSUME NEW A \in SUBSET Tasks, Upstream(t) \subseteq A,
                    \A w \in A : Upstream(w) \subseteq A
             PROVE  v \in A
  BY DEF Ancestors
<1>1. u \in A
  BY DEF Ancestors
<1>2. QED BY <1>1 DEF Ancestors

\* One task moves that has not succeeded: it may write its own output only,
\* and if it then has succeeded this output is traced.
LEMMA TraceOne ==
    ASSUME TypeOK, UpstreamDone, NEW S \in SUBSET Tasks, NEW E,
           TracedIn(S, E), NEW t \in Tasks, NEW s \in TaskStates,
           state[t] # "success",
           state' = [state EXCEPT ![t] = s], run' = run,
           \A u \in Tasks \ {t} : data'[u] = data[u],
           t \in S /\ Spark(t) /\ s = "success" /\ data'[t] # run =>
             \E e \in E \cap Ancestors(t) : data'[e] # run
    PROVE  TracedIn(S, E)'
<1> SUFFICES ASSUME NEW u \in S, Spark(u), state'[u] = "success",
                    data'[u] # run
             PROVE  \E e \in E \cap Ancestors(u) : data'[e] # run
  BY DEF TracedIn
<1>1. CASE u = t
  BY <1>1 DEF TypeOK
<1>2. CASE u # t
  <2>1. state[u] = "success" /\ data[u] # run
    BY <1>2 DEF TypeOK
  <2>2. PICK e \in E \cap Ancestors(u) : data[e] # run
    BY <2>1 DEF TracedIn
  <2>3. e \in Tasks /\ state[e] = "success"
    BY <2>1, <2>2, AncestorsDone DEF Ancestors, Begun
  <2>4. data'[e] = data[e]
    BY <2>3
  <2>5. QED BY <2>2, <2>4
<1>3. QED BY <1>1, <1>2

\* Tasks that wait for what they read, and read from each other and from E
\* only, go on writing outputs that are traced to E.
LEMMA TraceStep ==
    ASSUME TypeOK, UpstreamDone, [Next]_vars,
           NEW S \in SUBSET Tasks, NEW E, TracedIn(S, E),
           \A t \in S : Inputs(t) \subseteq (S \cup E) \cap Ancestors(t)
    PROVE  TracedIn(S, E)'
<1> USE DEF TaskStates
<1>1. ASSUME NEW t \in Tasks, Start(t) \/ SkipDownstream(t)
      PROVE  TracedIn(S, E)'
  BY <1>1, TraceOne DEF Start, Triggered, SkipDownstream, Doomed
<1>2. ASSUME NEW t \in Tasks, Write(t) PROVE TracedIn(S, E)'
  <2>1. \A u \in Tasks \ {t} : data'[u] = data[u]
    BY <1>2 DEF Write, TypeOK
  <2>2. QED BY <1>2, <2>1, TraceOne DEF Write
<1>3. ASSUME NEW t \in Tasks, Commit(t) PROVE TracedIn(S, E)'
  <2>1. PICK n \in 1..run : IsOldest(n, t) /\ data' = [data EXCEPT ![t] = n]
    BY <1>3 DEF Commit
  <2>2. Begun(t) /\ state[t] = "writing"
    BY <1>3 DEF Commit, Begun
  <2>3. /\ \A u \in Tasks \ {t} : data'[u] = data[u]
        /\ data'[t] = n
    BY <2>1 DEF TypeOK
  <2>4. ASSUME t \in S, n # run
        PROVE  \E e \in E \cap Ancestors(t) : data'[e] # run
    <3>1. PICK u \in Inputs(t) : data[u] = n
      BY <2>1, <2>4 DEF IsOldest
    <3>2. /\ u \in S \cup E /\ u \in Ancestors(t) /\ u \in Tasks
          /\ state[u] = "success" /\ Spark(u)
      BY <2>2, <2>4, AncestorsDone, InputsAreSpark DEF Ancestors
    <3>3. PICK e \in E \cap Ancestors(t) : data[e] # run
      <4>1. CASE u \in E
        BY <2>4, <3>1, <3>2, <4>1
      <4>2. CASE u \in S
        <5>1. PICK e \in E \cap Ancestors(u) : data[e] # run
          BY <2>4, <3>1, <3>2, <4>2 DEF TracedIn
        <5>2. e \in Ancestors(t)
          BY <3>2, <5>1, AncestorsClimb
        <5>3. QED BY <5>1, <5>2
      <4>3. QED BY <3>2, <4>1, <4>2
    <3>4. e \in Tasks /\ state[e] = "success"
      BY <2>2, <3>3, AncestorsDone DEF Ancestors
    <3>5. data'[e] = data[e]
      BY <2>2, <2>3, <3>4
    <3>6. QED BY <3>3, <3>5
  <2>5. QED BY <1>3, <2>2, <2>3, <2>4, TraceOne DEF Commit
<1>4. ASSUME NEW t \in Tasks, Active(t), Settle(t), run' = run,
             \A u \in Tasks \ {t} : data'[u] = data[u]
      PROVE  TracedIn(S, E)'
  BY <1>4, TraceOne DEF Settle, Active
<1>5. ASSUME NEW t \in Tasks, Starve(t) \/ Fail(t) PROVE TracedIn(S, E)'
  <2>1. \A u \in Tasks \ {t} : data'[u] = data[u]
    BY <1>5 DEF Starve, Fail, LeftBy, TypeOK
  <2>2. QED BY <1>4, <1>5, <2>1 DEF Starve, Fail
<1>6. CASE Publish
  <2>1. \A u \in Tasks \ {Sync} : data'[u] = data[u]
    BY <1>6 DEF Publish, TypeOK
  <2>2. QED BY <1>6, <2>1, AirflowTasks, TraceOne DEF Publish
<1>7. CASE HealthCheck
  BY <1>7, AirflowTasks, TraceOne DEF HealthCheck
<1>8. CASE AuditSummary
  BY <1>8, AirflowTasks, TraceOne DEF AuditSummary
<1>9. CASE NextRun
  BY <1>9 DEF NextRun, TracedIn
<1>10. CASE UNCHANGED <<run, state, data>>
  BY <1>10 DEF TracedIn
<1>11. QED
  BY <1>1, <1>2, <1>3, <1>5, <1>6, <1>7, <1>8, <1>9, <1>10
     DEF Next, Schedule, Work, Serve, Outage, Repair, vars

\* The tasks of the DAG whose reads have edges, back to the source.
FreshTasks ==
    ({"raw", "stage"} \X Tables)
    \cup ({"curated"} \X (Dimensions \ {"dim_loan_product"}))
    \cup {Health, Summary}

\* A read of such a task comes with an edge and from such a task.
LEMMA FreshReads ==
    ASSUME NEW t \in FreshTasks, NEW u, <<u, t>> \in Reads
    PROVE  u \in FreshTasks /\ <<u, t>> \in Edges
<1> USE DEF FreshTasks, Stage, Raw, Curated, Applications, Customer, Tables,
            Dimensions
<1>1. CASE <<u, t>> \in StageReads
  BY <1>1 DEF StageReads, Edges, StageEdges
<1>2. CASE <<u, t>> \in CustomerReads \cup SourceReads
  BY <1>2 DEF CustomerReads, SourceReads, Edges, DimensionEdges
<1>3. CASE <<u, t>> \in ChannelReads \cup DecisionReads
  BY <1>3 DEF ChannelReads, DecisionReads, Edges, DimensionEdges, LoanDims
<1>4. CASE <<u, t>> \in ProductReads
  BY <1>4 DEF ProductReads, Health, Summary
<1>5. CASE <<u, t>> \in LoanReads \cup MonthlyLoanReads
  BY <1>5 DEF LoanReads, MonthlyLoanReads, Loan, MonthlyLoan, Health, Summary
<1>6. CASE <<u, t>> \in InstallmentReads \cup BureauCreditReads
                        \cup MonthlyBureauReads
  BY <1>6 DEF InstallmentReads, BureauCreditReads, MonthlyBureauReads, Health,
              Summary
<1>7. CASE <<u, t>> \in MartReads \cup GateReads \cup SyncReads
  BY <1>7 DEF MartReads, GateReads, SyncReads, Mart, QualityGate, Sync, Health,
              Summary
<1>8. QED BY <1>1, <1>2, <1>3, <1>4, <1>5, <1>6, <1>7 DEF Reads

\* In any run of any part of the DAG the raw and the stage tasks and the
\* dimensions but dim_loan_product are built from outputs that run has written,
\* an append being a write, whatever fails and is retried; where nothing else
\* runs this is FreshOutputs.
THEOREM FreshHolds ==
    Spec => [](/\ FreshIn(Tasks \cap FreshTasks)
               /\ Tasks \subseteq FreshTasks => FreshOutputs)
<1> DEFINE S == Tasks \cap FreshTasks
<1>1. ASSUME NEW t \in S
      PROVE  Inputs(t) \subseteq (S \cup {}) \cap Ancestors(t)
  BY FreshReads, EdgeIsAncestor DEF Inputs
<1>2. Init => TracedIn(S, {})
  BY DEF Init, TracedIn
<1>3. TypeOK /\ UpstreamDone /\ TracedIn(S, {}) /\ [Next]_vars
        => TracedIn(S, {})'
  BY <1>1, TraceStep
<1>4. TracedIn(S, {}) => /\ FreshIn(Tasks \cap FreshTasks)
                         /\ Tasks \subseteq FreshTasks => FreshOutputs
  BY DEF FreshOutputs, FreshIn, TracedIn
<1>5. QED
  BY <1>2, <1>3, <1>4, DagTypeInit, DagTypeStep, UpstreamInit, UpstreamStep,
     PTL DEF Spec

-----------------------------------------------------------------------------
(* Failures that come from inside.                                         *)

\* While nothing from outside has failed the cluster is up and the tasks of S
\* have not failed once.
SteadyIn(S) ==
    failures = MaxFailures /\ outages = MaxOutages =>
        /\ clusterUp
        /\ \A t \in S : state[t] \notin {"up_for_retry", "failed"}

\* Tasks that wait for all they read never starve.
LEMMA SteadyStep ==
    ASSUME TypeOK, UpstreamDone, Committed, [Next]_vars,
           NEW S \in SUBSET Tasks, SteadyIn(S),
           \A t \in S : Inputs(t) \subseteq Ancestors(t)
    PROVE  SteadyIn(S)'
<1> SUFFICES ASSUME failures' = MaxFailures, outages' = MaxOutages
             PROVE  clusterUp' /\ \A t \in S :
                       state'[t] \notin {"up_for_retry", "failed"}
  BY DEF SteadyIn
<1>n. failures \in 0..MaxFailures /\ outages \in 0..MaxOutages
  BY DEF TypeOK
<1>1. CASE failures = MaxFailures /\ outages = MaxOutages
  <2>0. clusterUp /\ \A t \in S : state[t] \notin {"up_for_retry", "failed"}
    BY <1>1 DEF SteadyIn
  <2>1. ASSUME NEW t \in Tasks, Start(t) \/ SkipDownstream(t) \/ Write(t)
                                \/ Commit(t)
        PROVE  clusterUp' /\ \A u \in S :
                  state'[u] \notin {"up_for_retry", "failed"}
    BY <2>0, <2>1 DEF Start, SkipDownstream, Write, Commit, TypeOK
  <2>2. ASSUME NEW t \in Tasks, Starve(t)
        PROVE  clusterUp' /\ \A u \in S :
                  state'[u] \notin {"up_for_retry", "failed"}
    <3>1. Begun(t)
      BY <2>2 DEF Starve, Active, Begun
    <3>2. t \notin S
      BY <2>0, <2>2, <3>1, AwaitedIsReadable DEF Starve
    <3>3. \A u \in Tasks \ {t} : state'[u] = state[u]
      BY <2>2 DEF Starve, Settle, TypeOK
    <3>4. clusterUp'
      BY <2>0, <2>2 DEF Starve
    <3>5. QED BY <2>0, <3>2, <3>3, <3>4
  <2>3. ASSUME NEW t \in Tasks, Fail(t) PROVE FALSE
    BY <1>1, <2>3, BoundsAssumption DEF Fail
  <2>4. CASE Outage
    BY <1>1, <2>4, BoundsAssumption DEF Outage
  <2>5. CASE Repair \/ UNCHANGED vars
    BY <2>0, <2>5 DEF Repair, vars
  <2>6. CASE Serve
    BY <2>0, <2>6 DEF Serve, Publish, HealthCheck, AuditSummary, TypeOK
  <2>7. CASE NextRun
    BY <2>0, <2>7 DEF NextRun
  <2>8. QED
    BY <2>1, <2>2, <2>3, <2>4, <2>5, <2>6, <2>7 DEF Next, Schedule, Work
<1>2. CASE ~(failures = MaxFailures /\ outages = MaxOutages)
  <2>1. failures' <= failures /\ outages' <= outages
    BY <1>n, BoundsAssumption
       DEF Next, Schedule, Work, Start, SkipDownstream, Write, Commit,
           Starve, Fail, Serve, Publish, HealthCheck, AuditSummary, NextRun,
           Outage, Repair, vars
  <2>2. QED BY <1>n, <1>2, <2>1, BoundsAssumption
<1>3. QED BY <1>1, <1>2

\* The tasks that read something they do not wait for.
Unordered == {Curated("dim_loan_product"), MonthlyLoan,
              Curated("fact_installment_payment"),
              Curated("fact_bureau_credit"),
              Curated("fact_monthly_bureau_snapshot")}

\* All others wait for all they read, some of it two edges up.
LEMMA OthersWait ==
    ASSUME NEW t \in Tasks \ Unordered
    PROVE  Inputs(t) \subseteq Ancestors(t)
<1> SUFFICES ASSUME NEW u, <<u, t>> \in Reads PROVE u \in Ancestors(t)
  BY DEF Inputs
<1>1. CASE t \in FreshTasks
  BY <1>1, FreshReads, EdgeIsAncestor
<1>2. CASE <<u, t>> \in LoanReads
  <2>1. t = Loan
    BY <1>2 DEF LoanReads
  <2>2. CASE u \in Applications \cup LoanDims
    <3>1. <<u, t>> \in Edges
      BY <2>1, <2>2 DEF Edges, FactEdges
    <3>2. QED BY <3>1, EdgeIsAncestor
  <2>3. CASE u = Stage("previous_application")
    <3> DEFINE c == Curated("dim_merchant_channel")
    <3>1. c \in LoanDims \ {Customer}
      BY DEF LoanDims, Curated, Customer
    <3>2. <<c, t>> \in Edges /\ <<u, c>> \in Edges
      BY <2>1, <2>3, <3>1 DEF Edges, FactEdges, DimensionEdges
    <3>3. QED BY <3>2, PathIsAncestor
  <2>4. QED BY <1>2, <2>2, <2>3 DEF LoanReads
<1>3. CASE <<u, t>> \in MartReads \cup SyncReads
  <2>1. CASE <<u, t>> \in MartReads
    BY <2>1, EdgeIsAncestor DEF MartReads, Edges, ServingEdges
  <2>2. CASE <<u, t>> \in SyncReads
    <3>1. u = Mart /\ t = Sync
      BY <2>2 DEF SyncReads
    <3>2. <<Mart, QualityGate>> \in Edges /\ <<QualityGate, Sync>> \in Edges
      BY DEF Edges, ServingEdges
    <3>3. QED BY <3>1, <3>2, PathIsAncestor
  <2>3. QED BY <1>3, <2>1, <2>2
<1>4. CASE <<u, t>> \in GateReads
  <2>1. t = QualityGate
    BY <1>4 DEF GateReads
  <2>2. <<Mart, QualityGate>> \in Edges
    BY DEF Edges, ServingEdges
  <2>3. CASE u = Mart
    BY <2>1, <2>2, <2>3, EdgeIsAncestor
  <2>4. CASE u \in Applications
    <3>1. <<u, Loan>> \in Edges /\ <<Loan, Mart>> \in Edges
      BY <2>4 DEF Edges, FactEdges, ServingEdges
    <3>2. Mart \in Tasks
      BY <2>1, <2>2, TasksAssumption
    <3>3. u \in Ancestors(Mart) /\ Mart \in Upstream(QualityGate)
      BY <2>2, <3>1, <3>2, PathIsAncestor DEF Upstream
    <3>4. QED BY <2>1, <3>3 DEF Ancestors
  <2>5. QED BY <1>4, <2>3, <2>4 DEF GateReads
<1>5. CASE <<u, t>> \in StageReads \cup CustomerReads \cup ChannelReads
                        \cup DecisionReads \cup SourceReads
  <2>1. t \in FreshTasks
    BY <1>5 DEF StageReads, CustomerReads, ChannelReads, DecisionReads,
                SourceReads, FreshTasks, Stage, Curated, Customer, Dimensions
  <2>2. QED BY <1>1, <2>1
<1>6. CASE <<u, t>> \in ProductReads \cup MonthlyLoanReads
                        \cup InstallmentReads \cup BureauCreditReads
                        \cup MonthlyBureauReads
  BY <1>6 DEF ProductReads, MonthlyLoanReads, InstallmentReads,
              BureauCreditReads, MonthlyBureauReads, Unordered
<1>7. QED BY <1>1, <1>2, <1>3, <1>4, <1>5, <1>6 DEF Reads

\* As long as nothing fails from outside none of the other tasks fails, in any
\* run of any part of the DAG, with any number of slots; where none of the
\* unordered ones runs this is NoSpuriousFailure.
THEOREM SteadyHolds ==
    Spec => [](/\ ~SpuriousIn(Tasks \ Unordered)
               /\ Tasks \cap Unordered = {} => NoSpuriousFailure)
<1> DEFINE S == Tasks \ Unordered
<1>1. Init => SteadyIn(S) /\ Committed
  BY DEF Init, SteadyIn, Committed
<1>2. TypeOK /\ UpstreamDone /\ Committed /\ SteadyIn(S) /\ [Next]_vars
        => SteadyIn(S)'
  BY OthersWait, SteadyStep
<1>3. SteadyIn(S) => /\ ~SpuriousIn(Tasks \ Unordered)
                     /\ Tasks \cap Unordered = {} => NoSpuriousFailure
  BY DEF SteadyIn, SpuriousIn, NoSpuriousFailure
<1>4. QED
  BY <1>1, <1>2, <1>3, DagTypeInit, DagTypeStep, UpstreamInit, UpstreamStep,
     CommittedStep, PTL DEF Spec

-----------------------------------------------------------------------------
(* Where an output that an earlier run has left comes in.                  *)

\* What the mart waits for.
AboveMart ==
    Behind \cup {Health, Curated("dim_delinquency_bucket")}

\* The edges do not lead out of it.
LEMMA AboveMartClosed ==
    \A u \in AboveMart : Upstream(u) \subseteq AboveMart
<1> SUFFICES ASSUME NEW u \in AboveMart, NEW v, <<v, u>> \in Edges
             PROVE  v \in AboveMart
  BY DEF Upstream
<1> USE DEF AboveMart, Behind, Mart, QualityGate, Loan, MonthlyLoan, LoanDims,
            Customer, Curated, Health
<1>1. CASE <<v, u>> \in StageEdges
  <2>1. CASE v = Health
    BY <2>1
  <2>2. CASE \E x \in Tables : v = Raw(x) /\ u = Stage(x)
    <3>1. PICK x \in Tables : v = Raw(x) /\ u = Stage(x)
      BY <2>2
    <3>2. x \in MartTables
      BY <3>1 DEF Stage
    <3>3. QED BY <3>1, <3>2 DEF Raw
  <2>3. QED BY <1>1, <2>1, <2>2 DEF StageEdges
<1>2. CASE <<v, u>> \in DimensionEdges
  BY <1>2 DEF DimensionEdges, Applications, Stage, MartTables
<1>3. CASE <<v, u>> \in FactEdges
  BY <1>3 DEF FactEdges, Applications, Stage, MartTables
<1>4. CASE <<v, u>> \in ServingEdges
  BY <1>4 DEF ServingEdges, Sync, Summary
<1>5. QED BY <1>1, <1>2, <1>3, <1>4 DEF Edges

\* Two of the unordered tasks are above the mart.
LEMMA UnorderedAboveMart ==
    ASSUME Mart \in Tasks
    PROVE  Unordered \cap Ancestors(Mart)
             \subseteq {Curated("dim_loan_product"), MonthlyLoan}
<1> DEFINE A == AboveMart \cap Tasks
<1>1. Upstream(Mart) \subseteq A
  BY AboveMartClosed DEF AboveMart, Behind, Upstream
<1>2. \A v \in A : Upstream(v) \subseteq A
  BY AboveMartClosed DEF Upstream
<1>3. Ancestors(Mart) \subseteq A
  BY <1>1, <1>2 DEF Ancestors
<1>4. QED
  BY <1>3 DEF AboveMart, Behind, Unordered, MonthlyLoan, LoanDims, Customer,
              Curated, Health, Mart, QualityGate, Loan

\* The mart goes back to an output of an earlier run only if dim_loan_product
\* or the monthly loan fact does.
MartTraced ==
    /\ Mart \in Tasks /\ state[Mart] = "success" /\ data[Mart] # run
    => \/ data[Curated("dim_loan_product")] # run
       \/ data[MonthlyLoan] # run

\* In any run of any part of the DAG, whatever fails and is retried: if the
\* output of a task that waits for all it reads goes back to one that an earlier
\* run had left, then this has come in above it, where one of the five others
\* read what it did not wait for; for the mart that is dim_loan_product or the
\* monthly loan fact.  Rows of earlier runs that an append has kept are not
\* meant: they are in the raw tables of incremental loads by design.
THEOREM StaleOutputsTraced ==
    Spec => [](TracedIn(Tasks \ Unordered, Tasks \cap Unordered) /\ MartTraced)
<1> DEFINE S == Tasks \ Unordered
           E == Tasks \cap Unordered
<1>1. ASSUME NEW t \in S PROVE Inputs(t) \subseteq (S \cup E) \cap Ancestors(t)
  BY OthersWait DEF Inputs
<1>2. Init => TracedIn(S, E)
  BY DEF Init, TracedIn
<1>3. TypeOK /\ UpstreamDone /\ TracedIn(S, E) /\ [Next]_vars
        => TracedIn(S, E)'
  BY <1>1, TraceStep
<1>4. TracedIn(S, E) => TracedIn(S, E) /\ MartTraced
  <2> SUFFICES ASSUME TracedIn(S, E), Mart \in Tasks,
                      state[Mart] = "success", data[Mart] # run
               PROVE  \/ data[Curated("dim_loan_product")] # run
                      \/ data[MonthlyLoan] # run
    BY DEF MartTraced
  <2>1. Mart \in S /\ Spark(Mart)
    BY DEF Unordered, MonthlyLoan, Mart, Curated, Spark
  <2>2. PICK e \in E \cap Ancestors(Mart) : data[e] # run
    BY <2>1 DEF TracedIn
  <2>3. QED BY <2>2, UnorderedAboveMart
<1>5. QED
  BY <1>2, <1>3, <1>4, DagTypeInit, DagTypeStep, UpstreamInit, UpstreamStep,
     PTL DEF Spec

-----------------------------------------------------------------------------
(* No run gets stuck.                                                      *)

\* The height of a task in the graph.
Rank(t) ==
    CASE t = Health -> 0
      [] t[1] = "raw" -> 1
      [] t[1] = "stage" -> 2
      [] t \in {"curated"} \X Dimensions -> 3
      [] t \in {"curated"} \X Facts -> 4
      [] t = Mart -> 5
      [] t = QualityGate -> 6
      [] t = Sync -> 7
      [] OTHER -> 8

\* The edges lead upwards, so the graph has no cycle.
LEMMA EdgesClimb ==
    ASSUME NEW t, NEW u, <<u, t>> \in Edges
    PROVE  Rank(u) \in Nat /\ Rank(t) \in Nat /\ Rank(u) < Rank(t)
<1> USE DEF Rank, Health, Sync, Summary, Mart, QualityGate, Raw, Stage, Curated,
            Tables
<1>1. CASE <<u, t>> \in StageEdges
  BY <1>1 DEF StageEdges, Dimensions
<1>2. CASE <<u, t>> \in DimensionEdges
  BY <1>2 DEF DimensionEdges, Applications, LoanDims, Customer, Dimensions
<1>3. CASE <<u, t>> \in FactEdges
  BY <1>3 DEF FactEdges, Applications, LoanDims, Customer, Dimensions, Facts,
              Loan, MonthlyLoan
<1>4. CASE <<u, t>> \in ServingEdges
  BY <1>4 DEF ServingEdges, LoanDims, Customer, Dimensions, Facts, Loan,
              MonthlyLoan
<1>5. QED BY <1>1, <1>2, <1>3, <1>4 DEF Edges

\* Among tasks of which there is one, some task has none of them above it.
LEMMA TopTask ==
    ASSUME NEW W \in SUBSET Tasks, W # {}
    PROVE  \E t \in W : Upstream(t) \cap W = {}
<1> DEFINE Ranks == {Rank(t) : t \in W}
<1>1. \A t \in W : Rank(t) \in Nat
  BY DEF Rank
<1>2. Ranks \subseteq Nat /\ Ranks # {}
  BY <1>1
<1>3. PICK n \in Ranks : \A m \in Ranks : ~(<<m, n>> \in OpToRel(<, Nat))
  BY <1>2, NatLessThanWellFounded, WFMin
<1>4. \A m \in Ranks : ~(m < n)
  BY <1>2, <1>3 DEF OpToRel
<1>5. PICK t \in W : Rank(t) = n
  OBVIOUS
<1>6. ASSUME NEW u \in Upstream(t), u \in W PROVE FALSE
  <2>1. Rank(u) < Rank(t)
    BY <1>6, EdgesClimb DEF Upstream
  <2>2. QED BY <1>4, <1>5, <1>6, <2>1
<1>7. QED BY <1>5, <1>6

\* Tasks and a pool of slots never all wait for each other: until the run has
\* ended some attempt is under way, or some task can be started or given up.
NeverStuck ==
    \/ RunEnded
    \/ \E t \in Tasks :
          \/ Active(t)
          \/ Doomed(t)
          \/ (Triggered(t) \/ state[t] = "up_for_retry") /\ SlotFree(t)

\* Whatever has failed and however few slots there are, the tasks of a run
\* never all wait for each other.
THEOREM NeverStuckHolds == Spec => []NeverStuck
<1>1. TypeOK => NeverStuck
  <2> SUFFICES ASSUME TypeOK, ~RunEnded, \A t \in Tasks : ~Active(t)
               PROVE  \E t \in Tasks :
                         \/ Doomed(t)
                         \/ /\ Triggered(t) \/ state[t] = "up_for_retry"
                            /\ SlotFree(t)
    BY DEF NeverStuck
  <2>1. \A t \in Tasks : SlotFree(t)
    <3>1. {u \in Tasks : Spark(u) /\ Active(u)} = {}
      OBVIOUS
    <3>2. QED BY <3>1, FS_EmptySet, BoundsAssumption DEF SlotFree
  <2>2. CASE \E t \in Tasks : state[t] = "up_for_retry"
    BY <2>1, <2>2
  <2>3. CASE \A t \in Tasks : state[t] # "up_for_retry"
    <3> DEFINE W == {t \in Tasks : ~Terminal(t)}
    <3>1. W # {}
      BY DEF RunEnded
    <3>2. PICK t \in W : Upstream(t) \cap W = {}
      BY <3>1, TopTask
    <3>3. state[t] = "none"
      BY <2>3 DEF Terminal, Active, TypeOK, TaskStates
    <3>4. \A u \in Upstream(t) : Terminal(u)
      BY <3>2 DEF Upstream
    <3>5. Triggered(t) \/ Doomed(t)
      BY <3>3, <3>4 DEF Triggered, Doomed, Terminal
    <3>6. QED BY <2>1, <3>5
  <2>4. QED BY <2>2, <2>3
<1>2. QED BY <1>1, DagTypeCorrect, PTL

=============================================================================
