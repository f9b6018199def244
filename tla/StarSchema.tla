----------------------------- MODULE StarSchema -----------------------------
(***************************************************************************)
(* The curated star schema: seven dimensions, five facts, the denormalised *)
(* mart obt_loan_portfolio_360 and the reconciliation gate, rebuilt by     *)
(* every run from the stage layer.                                         *)
(*                                                                         *)
(* A dimension gives every natural key a surrogate key, a hash modulo a    *)
(* small number, and has an Unknown member with key -1.  A fact looks its  *)
(* members up by natural key, the mart by surrogate key; both with left    *)
(* joins, so a lookup that finds nothing falls back and one that finds two *)
(* members duplicates the row.  A joined row is the row and the members it *)
(* was joined with: two copies of a row differ in a member, even where the *)
(* table only stores the members' keys.                                    *)
(*                                                                         *)
(* Every task is one step (RiskPipelineDag has the steps inside a task and *)
(* the failures).  Columns that no join, key or check reads are left out.  *)
(***************************************************************************)
EXTENDS Integers, FiniteSets, FiniteSetsExt

CONSTANTS
    Names,      \* values of the text columns that members are found by
    Null,       \* SQL NULL
    Snapshots,  \* what the stage layer may hold when a run begins
    Hashes,     \* what xxhash64 modulo the size of a dimension may be
    Scale,      \* 100 / max_discrepancy_pct: 10000 for the default 0.01
    MaxRuns     \* bound on the DAG runs

-----------------------------------------------------------------------------
(* The stage layer.  Contract and credit types are never NULL: the stage   *)
(* jobs replace NULL by the text Unknown.  They only cast the days of a    *)
(* decision, a credit or an installment.  A place is what fact and         *)
(* dimension compare of a merchant channel: channel_type,                  *)
(* name_goods_category, name_seller_industry and name_yield_group; a       *)
(* decision is name_contract_status, code_reject_reason, name_client_type. *)

Ids == Nat
CurrentRows == [id : Ids, product : Names, amount : Nat]
PreviousRows ==
    [id : Ids, customer : Ids \cup {Null}, product : Names, place : Names,
     suite : Names, decision : Names, amount : Nat,
     days : Int \cup {Null}]
BureauRows ==
    [id : Ids, customer : Ids \cup {Null}, source : Names,
     days : Int \cup {Null}]
InstallmentRows ==
    [id : Ids, customer : Ids \cup {Null}, days : Int \cup {Null},
     delay : Int \cup {Null}]
BalanceRows ==
    [id : Ids, customer : Ids \cup {Null}, month : Int, dpd : Int \cup {Null}]
StatusRows == [id : Ids, month : Int, status : Names]

StageLayers ==
    [train : SUBSET CurrentRows, test : SUBSET CurrentRows,
     previous : SUBSET PreviousRows, bureau : SUBSET BureauRows,
     installments : SUBSET InstallmentRows, balance : SUBSET BalanceRows,
     statuses : SUBSET StatusRows]

Keys == Nat \ {0}
HashFunctions ==
    [product : [Names -> Keys], channel : [Names \X Names -> Keys],
     decision : [Names -> Keys], source : [Names -> Keys]]

UnknownKey == -1
Unknown == "Unknown"

\* What extract() writes into the columns that current applications lack.
DefaultPlace == "Unknown/XNA/XNA/XNA"
DefaultDecision == "Approved/XAP/New"

\* The Unknown members of the two dimensions with several columns.
UnknownPlace == "Unknown/Unknown/Unknown/Unknown"
UnknownDecision == "Unknown/Unknown/Unknown"

ASSUME NamesAssumption ==
    {Unknown, DefaultPlace, DefaultDecision, UnknownPlace, UnknownDecision}
      \subseteq Names
ASSUME NullAssumption == Null \notin Int
ASSUME SnapshotsAssumption == Snapshots \subseteq StageLayers
\* A stage table is read from the files of finitely many tasks.
ASSUME FiniteAssumption ==
    \A s \in Snapshots : \A t \in DOMAIN s : IsFiniteSet(s[t])
ASSUME HashesAssumption == Hashes \subseteq HashFunctions
ASSUME BoundsAssumption == Scale \in Nat /\ MaxRuns \in Nat \ {0}

Dimensions ==
    {"customer", "product", "channel", "decision", "source", "bucket", "time"}
Facts == {"loan", "credit", "installment", "balance", "status"}
Tasks == Dimensions \cup Facts \cup {"mart", "gate"}
LoanDims == {"customer", "product", "channel", "decision"}

VARIABLES
    run,     \* the DAG run
    stage,   \* the stage layer of this run
    before,  \* the stage layer of the run before
    hash,    \* the hash functions of the dimensions
    dim,     \* the members of every dimension
    fact,    \* the joined rows of every fact
    mart,    \* the joined rows of the mart
    gate,    \* what the reconciliation gate has said in this run
    done     \* tasks of this run that have succeeded

vars == <<run, stage, before, hash, dim, fact, mart, gate, done>>

-----------------------------------------------------------------------------
(* Dimensions: the distinct natural keys of their sources and Unknown.     *)

Member(key, name) == [key |-> key, name |-> name]

\* train and test united, without duplicates.  The key of a customer is the
\* whole hash of 64 bits and taken to be injective.
CustomerMembers(s) ==
    {Member(a.id, a.id) : a \in s.train \cup s.test}
    \cup {Member(UnknownKey, -1)}

ProductMembers(keys, train, previous) ==
    {Member(keys[a.product], a.product) : a \in train \cup previous}
    \cup {Member(UnknownKey, Unknown)}

\* The suite, name_type_suite, makes members differ that facts cannot tell
\* apart.
ChannelMembers(keys, previous) ==
    {[key |-> keys[<<a.place, a.suite>>], name |-> a.place,
      suite |-> a.suite] : a \in previous}
    \cup {[key |-> UnknownKey, name |-> UnknownPlace, suite |-> Unknown]}

DecisionMembers(keys, previous) ==
    {Member(keys[a.decision], a.decision) : a \in previous}
    \cup {Member(UnknownKey, UnknownDecision)}

SourceMembers(keys, bureau) ==
    {Member(keys[b.source], b.source) : b \in bureau}
    \cup {Member(UnknownKey, Unknown)}

\* The stage table of the buckets is written by no job: extract() always
\* falls back to the standard ones.
LongestDelay == 999999
Bucket(key, low, high) == [key |-> key, min |-> low, max |-> high]
StandardBuckets ==
    {Bucket(0, 0, 0), Bucket(1, 1, 30), Bucket(2, 31, 60), Bucket(3, 61, 90),
     Bucket(4, 91, 120), Bucket(5, 121, 150), Bucket(6, 151, LongestDelay)}
BucketMembers == StandardBuckets \cup {Bucket(UnknownKey, -1, -1)}

\* The same holds for the relative months -96 to 0.
TimeMembers ==
    {[key |-> m, month |-> m] : m \in -96..0}
    \cup {[key |-> UnknownKey, month |-> -9999]}

-----------------------------------------------------------------------------
(* Lookups. *)

\* coalesce(key, -1) where a left join has found nothing.
NoMember == [key |-> UnknownKey]

\* Mutant of Found: the key of a missing member stays NULL.
Found_Null(members) == IF members = {} THEN {[key |-> Null]} ELSE members

\* Mutant of Found: an inner join.
Found_Inner(members) == members

Found(members) == IF members = {} THEN {NoMember} ELSE members

\* By natural key: facts.  By surrogate key: the mart.
Lookup(members, name) == Found({m \in members : m.name = name})
WithKey(members, key) == Found({m \in members : m.key = key})

\* A fact reads a directory that a run has written: this one, or, where no
\* edge makes it wait, the one before.
Readable(t) == t \in done \/ run > 1

Zero(n) == IF n = Null THEN 0 ELSE n

\* A delay of NULL (not paid) counts as none.  Where the dimension cannot be
\* read the same ranges are spelt out in the code.
Ranges ==
    IF Readable("bucket") THEN {b \in dim.bucket : b.key # UnknownKey}
                          ELSE StandardBuckets

\* Mutant of BucketsOf: the lower bounds are exclusive.
BucketsOf_Exclusive(days) ==
    Found({b \in Ranges : b.min < Zero(days) /\ Zero(days) <= b.max})

BucketsOf(days) ==
    Found({b \in Ranges : b.min <= Zero(days) /\ Zero(days) <= b.max})

\* floor(days / 30), where \div rounds towards minus infinity; NULL of NULL.
TimeKey(days) == IF days = Null THEN Null ELSE days \div 30

\* bureau_status_raw: C closed, 0 current, 1 to 5 the bucket of the delay.
StatusBucket(status) ==
    IF status \in {"C", "0"} THEN 0
    ELSE IF status = "1" THEN 1
    ELSE IF status = "2" THEN 2
    ELSE IF status = "3" THEN 3
    ELSE IF status = "4" THEN 4
    ELSE IF status = "5" THEN 5
    ELSE UnknownKey

-----------------------------------------------------------------------------
(* Facts: the rows of their sources, joined with the members found.        *)

\* A current application as extract() widens it.
Current(kind, a) ==
    [kind |-> kind, id |-> a.id, customer |-> a.id, product |-> a.product,
     place |-> DefaultPlace, decision |-> DefaultDecision,
     amount |-> a.amount, days |-> 0]

Previous(a) ==
    [kind |-> "previous", id |-> a.id, customer |-> a.customer,
     product |-> a.product, place |-> a.place, decision |-> a.decision,
     amount |-> a.amount, days |-> a.days]

\* Current applications, train and test, and previous ones.
Applications(s) ==
    {Current("train", a) : a \in s.train} \cup
    {Current("test", a) : a \in s.test} \cup
    {Previous(a) : a \in s.previous}

\* An application without a day of decision counts as decided on day 0.
LoanRowsOf(a) ==
    {[row |-> a, customer |-> c, product |-> p, channel |-> h,
      decision |-> d, time |-> TimeKey(Zero(a.days))] :
        c \in Lookup(dim.customer, a.customer),
        p \in Lookup(dim.product, a.product),
        h \in Lookup(dim.channel, a.place),
        d \in Lookup(dim.decision, a.decision)}
LoanRows == UNION {LoanRowsOf(a) : a \in Applications(stage)}

\* Credits and installments have no such fallback.
CreditRowsOf(b) ==
    {[row |-> b, customer |-> c, source |-> s, time |-> TimeKey(b.days)] :
        c \in Lookup(dim.customer, b.customer),
        s \in Lookup(dim.source, b.source)}
CreditRows == UNION {CreditRowsOf(b) : b \in stage.bureau}

InstallmentFactsOf(i) ==
    {[row |-> i, customer |-> c, bucket |-> b, time |-> TimeKey(i.days)] :
        c \in Lookup(dim.customer, i.customer), b \in BucketsOf(i.delay)}
InstallmentFacts == UNION {InstallmentFactsOf(i) : i \in stage.installments}

BalanceFactsOf(m) ==
    {[row |-> m, customer |-> c, bucket |-> b, time |-> m.month] :
        c \in Lookup(dim.customer, m.customer), b \in BucketsOf(m.dpd)}
BalanceFacts == UNION {BalanceFactsOf(m) : m \in stage.balance}

\* The parent is looked up in fact_bureau_credit itself, whose copies of a
\* credit line copy its months as well.
ParentsOf(credits, id) == Found({c \in credits : c.row.id = id})

StatusFactsOf(m) ==
    {[row |-> m, credit |-> c, bucket |-> StatusBucket(m.status),
      time |-> m.month] :
        c \in ParentsOf(fact.credit, m.id)}
StatusFacts == UNION {StatusFactsOf(m) : m \in stage.statuses}

-----------------------------------------------------------------------------
(* The mart: the loan fact, joined with its dimensions by surrogate key    *)
(* and with the newest monthly snapshot of the same previous application.  *)

Months(balance, a) ==
    IF a.kind = "previous"
    THEN {f.row.month : f \in {g \in balance : g.row.id = a.id}}
    ELSE {}

\* Mutant of Latest: every month instead of the one that row_number() = 1
\* selects.
Latest_All(balance, a) ==
    IF Months(balance, a) = {} THEN {Null} ELSE Months(balance, a)

\* Of several snapshots of that month row_number() keeps one.
Latest(balance, a) ==
    IF Months(balance, a) = {} THEN {Null} ELSE {Max(Months(balance, a))}

MartRowsOf(f) ==
    {[fact |-> f, customer |-> c, product |-> p, channel |-> h,
      decision |-> d, latest |-> l] :
        c \in WithKey(dim.customer, f.customer.key),
        p \in WithKey(dim.product, f.product.key),
        h \in WithKey(dim.channel, f.channel.key),
        d \in WithKey(dim.decision, f.decision.key),
        l \in Latest(fact.balance, f.row)}
MartRows == UNION {MartRowsOf(f) : f \in fact.loan}

-----------------------------------------------------------------------------
(* The gate. *)

Total(rows) == MapThenSumSet(LAMBDA r : r.amount, rows)
StageCredit == Total(stage.train) + Total(stage.test)
MartTotal(rows) == MapThenSumSet(LAMBDA r : r.fact.row.amount, rows)
CurrentOf(rows) == {r \in rows : r.fact.row.kind # "previous"}
MartCredit == MartTotal(CurrentOf(mart))

\* A NULL key in a stage table is impossible (CurrentRows); the mart has one
\* for every previous application without a customer.
NullKeys == \E r \in mart : r.fact.row.customer = Null

\* Mutant of Drift: the difference without its absolute value.
Drift_Signed == StageCredit - MartCredit

Drift ==
    IF StageCredit >= MartCredit THEN StageCredit - MartCredit
                                 ELSE MartCredit - StageCredit

\* pct_diff <= max_discrepancy_pct, where pct_diff is 0 if nothing is staged.
Reconciles ==
    /\ ~NullKeys
    /\ StageCredit > 0 => Drift * Scale <= StageCredit

-----------------------------------------------------------------------------
(* Tasks.  The second argument of Build is what the edges of the DAG make  *)
(* a task wait for.                                                        *)

NoMembers == [d \in Dimensions |-> {}]
NoFacts == [f \in Facts |-> {}]

Init ==
    /\ run = 1
    /\ stage \in Snapshots /\ before = stage
    /\ hash \in Hashes
    /\ dim = NoMembers /\ fact = NoFacts /\ mart = {}
    /\ gate = "waiting"
    /\ done = {}

Build(t, needs) ==
    /\ t \notin done /\ needs \subseteq done
    /\ done' = done \cup {t}
    /\ UNCHANGED <<run, stage, before, hash>>

BuildDimension(d, members) ==
    /\ Build(d, {})
    /\ dim' = [dim EXCEPT ![d] = members]
    /\ UNCHANGED <<fact, mart, gate>>

BuildFact(f, needs, rows) ==
    /\ Build(f, needs)
    /\ fact' = [fact EXCEPT ![f] = rows]
    /\ UNCHANGED <<dim, mart, gate>>

BuildCustomer == BuildDimension("customer", CustomerMembers(stage))

\* There is no edge from stage_application_train: the task may read what the
\* run before has staged.
BuildProduct ==
    \E train \in {stage.train, before.train} :
        BuildDimension("product", ProductMembers(hash.product, train,
                                                 stage.previous))

BuildChannel ==
    BuildDimension("channel", ChannelMembers(hash.channel, stage.previous))
BuildDecision ==
    BuildDimension("decision", DecisionMembers(hash.decision, stage.previous))
BuildSource ==
    BuildDimension("source", SourceMembers(hash.source, stage.bureau))
BuildBucket == BuildDimension("bucket", BucketMembers)
BuildTime == BuildDimension("time", TimeMembers)

BuildLoan == BuildFact("loan", LoanDims, LoanRows)

\* No edge from dim_customer here, nor in the facts that follow.
BuildCredit ==
    /\ Readable("customer")
    /\ BuildFact("credit", {"source"}, CreditRows)
BuildInstallment ==
    /\ Readable("customer")
    /\ BuildFact("installment", {}, InstallmentFacts)
BuildBalance ==
    /\ Readable("customer")
    /\ BuildFact("balance", {"bucket"}, BalanceFacts)
BuildStatus ==
    /\ Readable("credit")
    /\ BuildFact("status", {}, StatusFacts)

BuildMart ==
    /\ Build("mart", LoanDims \cup {"loan", "balance"})
    /\ mart' = MartRows
    /\ UNCHANGED <<dim, fact, gate>>

\* A gate that raises has failed for this run.
Reconcile ==
    /\ Build("gate", {"mart"})
    /\ gate' = IF Reconciles THEN "passed" ELSE "failed"
    /\ UNCHANGED <<dim, fact, mart>>

NextRun ==
    /\ done = Tasks /\ run < MaxRuns
    /\ run' = run + 1
    /\ stage' \in Snapshots /\ before' = stage
    /\ gate' = "waiting" /\ done' = {}
    /\ UNCHANGED <<hash, dim, fact, mart>>

Next ==
    \/ BuildCustomer \/ BuildProduct \/ BuildChannel \/ BuildDecision
    \/ BuildSource \/ BuildBucket \/ BuildTime
    \/ BuildLoan \/ BuildCredit \/ BuildInstallment \/ BuildBalance
    \/ BuildStatus
    \/ BuildMart \/ Reconcile \/ NextRun

Spec == Init /\ [][Next]_vars

-----------------------------------------------------------------------------
(* Properties *)

Members == [key : Int, name : Names]
MemberSets ==
    [customer : SUBSET [key : Int, name : Int], product : SUBSET Members,
     channel : SUBSET [key : Int, name : Names, suite : Names],
     decision : SUBSET Members, source : SUBSET Members,
     bucket : SUBSET [key : Int, min : Int, max : Int],
     time : SUBSET [key : Int, month : Int]]

\* Every variable has its type; what facts and mart store of a member is an
\* integer key, of the statuses too.
TypeOK ==
    /\ run \in 1..MaxRuns
    /\ stage \in Snapshots /\ before \in Snapshots
    /\ hash \in Hashes
    /\ dim \in MemberSets
    /\ DOMAIN fact = Facts
    /\ \A f \in fact.loan : \A d \in LoanDims : f[d].key \in Int
    /\ \A f \in fact.credit : f.customer.key \in Int /\ f.source.key \in Int
    /\ \A f \in fact.installment \cup fact.balance :
          f.customer.key \in Int /\ f.bucket.key \in Int
    /\ \A f \in fact.status : f.bucket \in Int
    /\ gate \in {"waiting", "passed", "failed"}
    /\ done \subseteq Tasks

\* Every row of the stage layer is in the fact that is built from it, and
\* every application in the mart, whatever members are missing: the joins of
\* transform() never drop a row.
NoneLost ==
    /\ "loan" \in done => Applications(stage) = {f.row : f \in fact.loan}
    /\ "credit" \in done => stage.bureau = {f.row : f \in fact.credit}
    /\ "installment" \in done =>
          stage.installments = {f.row : f \in fact.installment}
    /\ "balance" \in done => stage.balance = {f.row : f \in fact.balance}
    /\ "status" \in done => stage.statuses = {f.row : f \in fact.status}
    /\ "mart" \in done => Applications(stage) = {r.fact.row : r \in mart}

Unique(members) ==
    \A m, n \in members : m.name = n.name \/ m.key = n.key => m = n
Unambiguous ==
    Unique(dim.product) /\ Unique(dim.channel) /\ Unique(dim.decision)

\* What the mart shows is the member that the fact has found, or Unknown
\* where it has found none.
Shows(shown, found) ==
    IF found = NoMember THEN shown.key = UnknownKey ELSE shown = found

Faithful(r) == \A d \in LoanDims : Shows(r[d], r.fact[d])

\* As long as no two members of a dimension share the columns a fact joins
\* on, or a surrogate key, the mart has every application exactly once, with
\* the members its fact has found and one monthly snapshot at most: two joins
\* by different keys of tables that different tasks write agree.
GrainWhenUnambiguous ==
    "mart" \in done /\ Unambiguous =>
        \A a \in Applications(stage) :
            \E r \in mart : /\ {q \in mart : q.fact.row = a} = {r}
                            /\ Faithful(r)

\* Current applications find their customer; previous ones find contract
\* type, channel and decision.  (Contract types of current applications may
\* be missing: the dimension does not read the test table, and may read the
\* training table of the run before.)
LoanReferences ==
    "loan" \in done =>
        \A f \in fact.loan :
            IF f.row.kind = "previous"
            THEN /\ f.product # NoMember /\ f.product.name = f.row.product
                 /\ f.channel # NoMember /\ f.channel.name = f.row.place
                 /\ f.decision # NoMember
            ELSE f.customer # NoMember /\ f.customer.name = f.row.customer

\* Exactly the late payments and balances have a delinquency bucket above
\* that of the current ones; an early payment has the Unknown one.
BucketReferences ==
    /\ \A f \in fact.installment :
          /\ Zero(f.row.delay) \in 1..LongestDelay <=> f.bucket.key \in 1..6
          /\ Zero(f.row.delay) = 0 <=> f.bucket.key = 0
    /\ \A f \in fact.balance :
          Zero(f.row.dpd) \in 1..LongestDelay <=> f.bucket.key \in 1..6

\* The month of a time key is in the time dimension for the 96 months it
\* covers, once but for the month -1, whose key the Unknown member has too.
MonthFound(f, days) ==
    days \in -2880..0 =>
        \E m \in dim.time :
            /\ m.month = f.time
            /\ days \notin -30..-1 =>
                  {n \in dim.time : n.key = f.time} = {m}

\* Time keys are computed without a lookup.  The key of an application is
\* that of its day of decision, or of day 0; the key of a credit or an
\* installment that of its days, and NULL exactly where these are NULL.
TimeReferences ==
    "time" \in done =>
        /\ \A f \in fact.loan : MonthFound(f, Zero(f.row.days))
        /\ \A f \in fact.credit \cup fact.installment :
              IF f.row.days = Null THEN f.time = Null
                                   ELSE MonthFound(f, f.row.days)

\* The references of the facts resolve as far as the dimensions can.
ReferencesResolve == LoanReferences /\ BucketReferences /\ TimeReferences

\* The gate compares sums only.  If it has passed, every current application
\* whose amount is above the tolerance is in the mart exactly once, whatever
\* the joins have duplicated.
GateExposesCopies ==
    gate = "passed" =>
        \A a \in Applications(stage) :
            a.kind # "previous" /\ a.amount * Scale > StageCredit =>
                Cardinality({r \in mart : r.fact.row = a}) = 1

=============================================================================
