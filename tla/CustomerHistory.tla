--------------------------- MODULE CustomerHistory ---------------------------
(***************************************************************************)
(* CuratedDimCustomerJob: the slowly changing dimension of type 4.  Every  *)
(* run appends the customers that differ from the current table to         *)
(* dim_customer_history and then overwrites dim_customer.  The two writes  *)
(* are not one transaction, and an attempt that fails between them, or in  *)
(* one of them, is retried by Airflow from the start.                      *)
(*                                                                         *)
(* The tracked attributes of a customer are one value, compared by hash in *)
(* the code and by equality here.  Keys, timestamps and the Unknown row,   *)
(* which is in every committed dim_customer, are abstracted away.          *)
(*                                                                         *)
(* Assumed: a customer is in one of the two stage application tables only. *)
(* The frame is not cached, so the append and the overwrite evaluate its   *)
(* dropDuplicates(sk_id_curr) one after the other; for a customer in both  *)
(* tables each may keep another row, and "incoming" would not be one value *)
(* per attempt.                                                            *)
(***************************************************************************)
EXTENDS Naturals, Sequences, FiniteSets

CONSTANTS
    Customers,    \* sk_id_curr of the applications
    Values,       \* what the tracked attributes of a customer may be
    Absent,       \* the customer has no row
    MaxRuns,      \* bound on the DAG runs
    Retries,      \* default_args["retries"] of the DAG
    MaxFailures,  \* bound on failed attempts
    MaxMisreads   \* bound on failed reads that no attempt fails for

ASSUME AbsentAssumption == Absent \notin Values
ASSUME BoundsAssumption ==
    /\ MaxRuns \in Nat /\ Retries \in Nat
    /\ MaxFailures \in Nat /\ MaxMisreads \in Nat

Snapshots == [Customers -> Values \cup {Absent}]
Points == {"idle", "queued", "append", "delete", "write", "register"}

VARIABLES
    run,       \* DAG runs so far
    incoming,  \* the two stage application tables, without duplicates
    current,   \* rows of dim_customer
    readable,  \* is there a Parquet file in its directory?
    baseline,  \* df_existing could not be read: everything is a change
    history,   \* rows of dim_customer_history per customer, oldest first
    pc,        \* where the running attempt is
    attempt,   \* retries already used
    gaveUp,    \* has a run failed with all its retries?
    left,      \* customers that have disappeared from the applications once
    failures,  \* attempts that may still fail
    misreads   \* reads of dim_customer that may still fail unnoticed

vars == <<run, incoming, current, readable, baseline, history, pc, attempt,
          gaveUp, left, failures, misreads>>

TypeOK ==
    /\ run \in 0..MaxRuns
    /\ incoming \in Snapshots
    /\ current \in Snapshots
    /\ readable \in BOOLEAN
    /\ baseline \in BOOLEAN
    /\ history \in [Customers -> Seq(Values)]
    /\ pc \in Points
    /\ attempt \in 0..Retries
    /\ gaveUp \in BOOLEAN
    /\ left \in SUBSET Customers
    /\ failures \in 0..MaxFailures
    /\ misreads \in 0..MaxMisreads

Nobody == [c \in Customers |-> Absent]

Init ==
    /\ run = 0
    /\ incoming = Nobody /\ current = Nobody
    /\ readable = FALSE /\ baseline = FALSE
    /\ history = [c \in Customers |-> <<>>]
    /\ pc = "idle" /\ attempt = 0 /\ gaveUp = FALSE
    /\ left = {}
    /\ failures = MaxFailures /\ misreads = MaxMisreads

-----------------------------------------------------------------------------

\* The stage tasks of a new run have rebuilt the applications; the task of
\* dim_customer is queued.
StartRun ==
    /\ pc = "idle" /\ run < MaxRuns
    /\ run' = run + 1
    /\ incoming' \in Snapshots
    /\ left' = left \cup {c \in Customers : incoming[c] # Absent
                                         /\ incoming'[c] = Absent}
    /\ pc' = "queued" /\ attempt' = 0
    /\ UNCHANGED <<current, readable, baseline, history, gaveUp, failures,
                   misreads>>

\* spark.read.parquet(target_path) raises when the directory holds no file.
ReadCurrent ==
    /\ pc = "queued"
    /\ baseline' = ~readable
    /\ pc' = "append"
    /\ UNCHANGED <<run, incoming, current, readable, history, attempt, gaveUp,
                   left, failures, misreads>>

\* "except Exception" takes the same branch for any other failure of the read,
\* a NameNode that does not answer say, and the attempt goes on.
MisreadCurrent ==
    /\ pc = "queued" /\ readable /\ misreads > 0
    /\ misreads' = misreads - 1
    /\ baseline' = TRUE
    /\ pc' = "append"
    /\ UNCHANGED <<run, incoming, current, readable, history, attempt, gaveUp,
                   left, failures>>

\* Mutant of Changed: df_diff stays None when nothing can be read.
Changed_NoBaseline ==
    {c \in Customers : /\ incoming[c] # Absent /\ ~baseline
                       /\ current[c] # incoming[c]}

\* Mutant of Changed: only new customers are found, changes are not.
Changed_NewOnly ==
    {c \in Customers : /\ incoming[c] # Absent
                       /\ baseline \/ current[c] = Absent}

\* Mutant of Changed: the hash of a value and itself differ.
Changed_All == {c \in Customers : incoming[c] # Absent}

\* df_diff: the left join of the incoming customers with the current ones.
Changed ==
    {c \in Customers : /\ incoming[c] # Absent
                       /\ baseline \/ current[c] # incoming[c]}

\* df_history.write.mode("append") of the rows of some customers.
Appended(rows) ==
    [c \in Customers |-> IF c \in rows THEN Append(history[c], incoming[c])
                                       ELSE history[c]]

AppendHistory ==
    /\ pc = "append"
    /\ history' = Appended(Changed)
    /\ pc' = "delete"
    /\ UNCHANGED <<run, incoming, current, readable, baseline, attempt, gaveUp,
                   left, failures, misreads>>

\* BaseSparkJob.load, a static overwrite: the directory is deleted ...
DeleteCurrent ==
    /\ pc = "delete"
    /\ current' = Nobody /\ readable' = FALSE
    /\ pc' = "write"
    /\ UNCHANGED <<run, incoming, baseline, history, attempt, gaveUp, left,
                   failures, misreads>>

\* ... and the incoming customers are committed.
WriteCurrent ==
    /\ pc = "write"
    /\ current' = incoming /\ readable' = TRUE
    /\ pc' = "register"
    /\ UNCHANGED <<run, incoming, baseline, history, attempt, gaveUp, left,
                   failures, misreads>>

\* The Hive table is registered, watermark and audit row follow.
Finish ==
    /\ pc = "register"
    /\ pc' = "idle"
    /\ UNCHANGED <<run, incoming, current, readable, baseline, history,
                   attempt, gaveUp, left, failures, misreads>>

\* The committer renames files one after the other: what an attempt that fails
\* in a write has committed is any part of its rows.
LeftBy ==
    \/ UNCHANGED <<history, current, readable>>
    \/ /\ pc = "append"
       /\ \E rows \in SUBSET Changed : history' = Appended(rows)
       /\ UNCHANGED <<current, readable>>
    \/ /\ pc = "write"
       /\ \E rows \in SUBSET Customers :
             current' = [c \in Customers |-> IF c \in rows THEN incoming[c]
                                                           ELSE Absent]
       /\ readable' = TRUE
       /\ UNCHANGED history

\* Mutant of Settle: retries are counted and never compared.
Settle_Unbounded == /\ attempt' = attempt + 1 /\ pc' = "queued"
                    /\ UNCHANGED gaveUp

\* Mutant of Settle: a retry goes on where the failed attempt stopped to write.
Settle_Resume ==
    IF attempt < Retries
    THEN /\ attempt' = attempt + 1
         /\ pc' = IF pc = "append" THEN "delete" ELSE "queued"
         /\ UNCHANGED gaveUp
    ELSE /\ pc' = "idle" /\ gaveUp' = TRUE
         /\ UNCHANGED attempt

\* Airflow retries the task, or fails the run.
Settle ==
    IF attempt < Retries
    THEN /\ attempt' = attempt + 1 /\ pc' = "queued"
         /\ UNCHANGED gaveUp
    ELSE /\ pc' = "idle" /\ gaveUp' = TRUE
         /\ UNCHANGED attempt

Fail ==
    /\ pc # "idle" /\ failures > 0
    /\ failures' = failures - 1
    /\ LeftBy
    /\ Settle
    /\ UNCHANGED <<run, incoming, baseline, left, misreads>>

-----------------------------------------------------------------------------

Work == \/ ReadCurrent \/ AppendHistory \/ DeleteCurrent \/ WriteCurrent
        \/ Finish

Next == StartRun \/ Work \/ MisreadCurrent \/ Fail

Spec == Init /\ [][Next]_vars

\* A queued attempt goes on; neither runs nor failures of any kind are owed.
FairSpec == Spec /\ WF_vars(Work)

-----------------------------------------------------------------------------
(* Properties.                                                             *)

Newest(c, v) == /\ Len(history[c]) > 0
                /\ history[c][Len(history[c])] = v

Recorded(c, v) == \E i \in 1..Len(history[c]) : history[c][i] = v

\* Whatever fails, a value that dim_customer shows is in the history: nothing
\* becomes current, and is later overwritten, unrecorded.
CurrentInHistory ==
    \A c \in Customers : current[c] # Absent => Recorded(c, current[c])

\* While no run was given up, the newest history row of every customer is the
\* current one when the task ends: a retry never leaves the history behind or
\* ahead of the dimension.
HistoryEndsInCurrent ==
    ~gaveUp /\ pc \in {"register", "idle"} =>
        \A c \in Customers : current[c] # Absent => Newest(c, current[c])

\* The versions of a customer that repeat the one before.
Repeats(c) ==
    {i \in 1..Len(history[c]) - 1 : history[c][i] = history[c][i + 1]}

\* "appends changes": the history of a customer that has never disappeared
\* repeats a version at most once per failed attempt and per read of
\* dim_customer that failed unnoticed; without these it never does.
RepeatsAccounted ==
    \A c \in Customers \ left :
        Cardinality(Repeats(c))
            <= (MaxFailures - failures) + (MaxMisreads - misreads)

\* Every value of a customer that a run finds is recorded in the end, if the
\* run is not given up.
EventuallyRecorded ==
    \A c \in Customers, v \in Values :
        (pc = "queued" /\ incoming[c] = v) ~> (Recorded(c, v) \/ gaveUp)

=============================================================================
