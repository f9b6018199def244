-------------------------- MODULE MCRiskPipelineDag --------------------------
(* Parts of the DAG that TLC can exhaust, each closed under Edges and Reads. *)
EXTENDS RiskPipelineDag

Chain(tables) == {Health} \cup ({"raw", "stage"} \X tables)

\* dim_customer and what it is built from, and an incremental load that wants
\* a slot of the pool at the same time.
CustomerTasks ==
    Chain({"application_train", "application_test"})
    \cup {Customer, Raw("bureau")}

\* The whole DAG, from the moment the stage layer and the dimensions are
\* there, but for those of the loan fact that depend on one table.
ServingDone ==
    ({"raw", "stage"} \X Tables) \cup {Health, Customer}
    \cup ({"curated"} \X {"dim_delinquency_bucket", "dim_relative_time",
                          "dim_bureau_source", "dim_application_decision"})

NoTasks == {}

\* Three steps reach everything the mart is built from.
ASSUME LineageAssumption == Nearer(Lineage) = Lineage

=============================================================================
