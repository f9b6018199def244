-------------------------- MODULE StarSchemaProofs --------------------------
(***************************************************************************)
(* Theorems about StarSchema.  The invariants say of every table what its  *)
(* rows are made of, row by row: which row of the stage layer, which       *)
(* members.  They hold from the task that writes the table to the end of   *)
(* the run, because the edges of the DAG keep what the table was built     *)
(* from in place until then.                                               *)
(***************************************************************************)
EXTENDS StarSchema, SetSums

-----------------------------------------------------------------------------
(* Lookups. *)

\* A left join keeps its row.
LEMMA FoundNonempty == ASSUME NEW S PROVE \E m : m \in Found(S)
  BY DEF Found

\* A lookup answers with a member or with the fallback.
LEMMA LookupMember ==
  ASSUME NEW S, NEW n, NEW m \in Lookup(S, n)
  PROVE  \/ m \in S /\ m.name = n
         \/ m = NoMember /\ \A x \in S : x.name # n
  BY DEF Lookup, Found

\* A lookup by surrogate key returns members with it, or the fallback.
LEMMA WithKeyMember ==
  ASSUME NEW S, NEW k, NEW m \in WithKey(S, k)
  PROVE  \/ m \in S /\ m.key = k
         \/ m = NoMember /\ \A x \in S : x.key # k
  BY DEF WithKey, Found

\* What a row of the loan fact consists of.
LoanFits(f) ==
  /\ f.customer \in Lookup(dim.customer, f.row.customer)
  /\ f.product \in Lookup(dim.product, f.row.product)
  /\ f.channel \in Lookup(dim.channel, f.row.place)
  /\ f.decision \in Lookup(dim.decision, f.row.decision)
  /\ f = [row |-> f.row, customer |-> f.customer, product |-> f.product,
          channel |-> f.channel, decision |-> f.decision,
          time |-> TimeKey(Zero(f.row.days))]

\* Every application gets rows of the loan fact, joined as LoanFits says.
LEMMA LoanJoin ==
  ASSUME NEW a
  PROVE  /\ \E f : f \in LoanRowsOf(a)
         /\ \A f \in LoanRowsOf(a) : f.row = a /\ LoanFits(f)
<1>1. PICK c : c \in Lookup(dim.customer, a.customer)
  BY FoundNonempty DEF Lookup
<1>2. PICK p : p \in Lookup(dim.product, a.product)
  BY FoundNonempty DEF Lookup
<1>3. PICK h : h \in Lookup(dim.channel, a.place)
  BY FoundNonempty DEF Lookup
<1>4. PICK d : d \in Lookup(dim.decision, a.decision)
  BY FoundNonempty DEF Lookup
<1>5. [row |-> a, customer |-> c, product |-> p, channel |-> h,
       decision |-> d, time |-> TimeKey(Zero(a.days))] \in LoanRowsOf(a)
  BY <1>1, <1>2, <1>3, <1>4 DEF LoanRowsOf
<1>6. ASSUME NEW f \in LoanRowsOf(a) PROVE f.row = a /\ LoanFits(f)
  BY DEF LoanRowsOf, LoanFits
<1> QED BY <1>5, <1>6

\* What a row of the mart consists of.
MartFits(r) ==
  /\ r.fact \in fact.loan
  /\ r.customer \in WithKey(dim.customer, r.fact.customer.key)
  /\ r.product \in WithKey(dim.product, r.fact.product.key)
  /\ r.channel \in WithKey(dim.channel, r.fact.channel.key)
  /\ r.decision \in WithKey(dim.decision, r.fact.decision.key)
  /\ r.latest \in Latest(fact.balance, r.fact.row)
  /\ r = [fact |-> r.fact, customer |-> r.customer, product |-> r.product,
          channel |-> r.channel, decision |-> r.decision,
          latest |-> r.latest]

\* The mart joins one month, or Null.
LEMMA LatestOne ==
  ASSUME NEW b, NEW a
  PROVE  \E m : Latest(b, a) = {m}
  BY DEF Latest

\* Every row of the loan fact gets rows of the mart, as MartFits says.
LEMMA MartJoin ==
  ASSUME NEW f \in fact.loan
  PROVE  /\ \E r : r \in MartRowsOf(f)
         /\ \A r \in MartRowsOf(f) : r.fact = f /\ MartFits(r)
<1>1. PICK c : c \in WithKey(dim.customer, f.customer.key)
  BY FoundNonempty DEF WithKey
<1>2. PICK p : p \in WithKey(dim.product, f.product.key)
  BY FoundNonempty DEF WithKey
<1>3. PICK h : h \in WithKey(dim.channel, f.channel.key)
  BY FoundNonempty DEF WithKey
<1>4. PICK d : d \in WithKey(dim.decision, f.decision.key)
  BY FoundNonempty DEF WithKey
<1>5. PICK l : l \in Latest(fact.balance, f.row)
  BY LatestOne
<1>6. [fact |-> f, customer |-> c, product |-> p, channel |-> h,
       decision |-> d, latest |-> l] \in MartRowsOf(f)
  BY <1>1, <1>2, <1>3, <1>4, <1>5 DEF MartRowsOf
<1>7. ASSUME NEW r \in MartRowsOf(f) PROVE r.fact = f /\ MartFits(r)
  BY DEF MartRowsOf, MartFits
<1> QED BY <1>6, <1>7

-----------------------------------------------------------------------------
(* Frames. *)

\* The two tables of tables as explicit records, and the rest of the types
\* that every step needs.
BaseInv ==
  /\ run \in 1..MaxRuns /\ done \subseteq Tasks
  /\ stage \in Snapshots /\ before \in Snapshots /\ hash \in Hashes
  /\ gate \in {"waiting", "passed", "failed"}
  /\ dim = [customer |-> dim.customer, product |-> dim.product,
            channel |-> dim.channel, decision |-> dim.decision,
            source |-> dim.source, bucket |-> dim.bucket, time |-> dim.time]
  /\ fact = [loan |-> fact.loan, credit |-> fact.credit,
             installment |-> fact.installment, balance |-> fact.balance,
             status |-> fact.status]

\* The run, the snapshots and the domains of the tables are as declared.
LEMMA BaseHolds == Spec => []BaseInv
<1>1. Init => BaseInv
  BY BoundsAssumption DEF Init, BaseInv, NoMembers, NoFacts, Dimensions, Facts
<1>2. BaseInv /\ [Next]_vars => BaseInv'
  <2> SUFFICES ASSUME BaseInv, [Next]_vars PROVE BaseInv'
    OBVIOUS
  <2> USE DEF BaseInv
  <2>1. ASSUME NEW d \in Dimensions, NEW S, BuildDimension(d, S)
        PROVE  BaseInv'
    BY <2>1 DEF BuildDimension, Build, Dimensions, Tasks
  <2>2. ASSUME NEW f \in Facts, NEW needs, NEW S, BuildFact(f, needs, S)
        PROVE  BaseInv'
    BY <2>2 DEF BuildFact, Build, Facts, Tasks
  <2>3. CASE BuildMart
    BY <2>3 DEF BuildMart, Build, Tasks
  <2>4. CASE Reconcile
    BY <2>4 DEF Reconcile, Build, Tasks
  <2>5. CASE NextRun
    BY <2>5, BoundsAssumption DEF NextRun, Tasks
  <2>6. CASE UNCHANGED vars
    BY <2>6 DEF vars
  <2>7. CASE BuildProduct
    <3>1. PICK train \in {stage.train, before.train} :
             BuildDimension("product",
               ProductMembers(hash.product, train, stage.previous))
      BY <2>7 DEF BuildProduct
    <3> QED BY <3>1, <2>1 DEF Dimensions
  <2>8. ASSUME BuildCustomer \/ BuildChannel \/ BuildDecision \/ BuildSource
                 \/ BuildBucket \/ BuildTime
        PROVE  BaseInv'
    BY <2>8, <2>1 DEF Dimensions, BuildCustomer, BuildChannel, BuildDecision,
       BuildSource, BuildBucket, BuildTime
  <2>9. ASSUME BuildLoan \/ BuildCredit \/ BuildInstallment \/ BuildBalance
                 \/ BuildStatus
        PROVE  BaseInv'
    BY <2>9, <2>2 DEF Facts, BuildLoan, BuildCredit, BuildInstallment,
       BuildBalance, BuildStatus
  <2> QED BY <2>3, <2>4, <2>5, <2>6, <2>7, <2>8, <2>9 DEF Next
<1> QED BY <1>1, <1>2, PTL DEF Spec

\* Every task writes its own table, and the other tables of the run stay.
Same(t) == t \in done' => t \in done

\* What a step of a run leaves alone: every table that it does not build.
LEMMA Frames ==
  ASSUME BaseInv, Next, ~NextRun
  PROVE  /\ UNCHANGED <<run, stage, before, hash>>
         /\ done \subseteq done'
         /\ BuildCustomer \/ (dim'.customer = dim.customer /\ Same("customer"))
         /\ BuildProduct \/ (dim'.product = dim.product /\ Same("product"))
         /\ BuildChannel \/ (dim'.channel = dim.channel /\ Same("channel"))
         /\ BuildDecision
              \/ (dim'.decision = dim.decision /\ Same("decision"))
         /\ BuildSource \/ (dim'.source = dim.source /\ Same("source"))
         /\ BuildBucket \/ (dim'.bucket = dim.bucket /\ Same("bucket"))
         /\ BuildTime \/ (dim'.time = dim.time /\ Same("time"))
         /\ BuildLoan \/ (fact'.loan = fact.loan /\ Same("loan"))
         /\ BuildCredit \/ (fact'.credit = fact.credit /\ Same("credit"))
         /\ BuildInstallment \/ (/\ fact'.installment = fact.installment
                                 /\ Same("installment"))
         /\ BuildBalance \/ (fact'.balance = fact.balance /\ Same("balance"))
         /\ BuildStatus \/ (fact'.status = fact.status /\ Same("status"))
         /\ BuildMart \/ (mart' = mart /\ Same("mart"))
<1> USE DEF Same, BaseInv
<1>2. CASE BuildCustomer
  BY <1>2 DEF BuildCustomer, BuildDimension, Build
<1>3. CASE BuildProduct
  <2>1. PICK train \in {stage.train, before.train} :
           BuildDimension("product",
             ProductMembers(hash.product, train, stage.previous))
    BY <1>3 DEF BuildProduct
  <2> QED BY <1>3, <2>1 DEF BuildDimension, Build
<1>4. CASE BuildChannel
  BY <1>4 DEF BuildChannel, BuildDimension, Build
<1>5. CASE BuildDecision
  BY <1>5 DEF BuildDecision, BuildDimension, Build
<1>6. CASE BuildSource
  BY <1>6 DEF BuildSource, BuildDimension, Build
<1>7. CASE BuildBucket
  BY <1>7 DEF BuildBucket, BuildDimension, Build
<1>8. CASE BuildTime
  BY <1>8 DEF BuildTime, BuildDimension, Build
<1>9. CASE BuildLoan
  BY <1>9 DEF BuildLoan, BuildFact, Build
<1>10. CASE BuildCredit
  BY <1>10 DEF BuildCredit, BuildFact, Build
<1>11. CASE BuildInstallment
  BY <1>11 DEF BuildInstallment, BuildFact, Build
<1>12. CASE BuildBalance
  BY <1>12 DEF BuildBalance, BuildFact, Build
<1>13. CASE BuildStatus
  BY <1>13 DEF BuildStatus, BuildFact, Build
<1>14. CASE BuildMart
  BY <1>14 DEF BuildMart, Build
<1>15. CASE Reconcile
  BY <1>15 DEF Reconcile, Build
<1> QED
  BY <1>2, <1>3, <1>4, <1>5, <1>6, <1>7, <1>8, <1>9, <1>10, <1>11, <1>12,
     <1>13, <1>14, <1>15 DEF Next

\* The next run starts with nothing done and with all tables as they were.
LEMMA NewRun ==
  ASSUME BaseInv, NextRun
  PROVE  /\ run \in Nat /\ run' = run + 1 /\ done = Tasks /\ done' = {}
         /\ UNCHANGED <<hash, dim, fact, mart>>
  BY BoundsAssumption DEF BaseInv, NextRun

-----------------------------------------------------------------------------
(* The dimensions of a run. *)

DimInv ==
  /\ "customer" \in done => dim.customer = CustomerMembers(stage)
  /\ "product" \in done =>
        \E train \in {stage.train, before.train} :
           dim.product = ProductMembers(hash.product, train, stage.previous)
  /\ "channel" \in done =>
        dim.channel = ChannelMembers(hash.channel, stage.previous)
  /\ "decision" \in done =>
        dim.decision = DecisionMembers(hash.decision, stage.previous)
  /\ run > 1 \/ "bucket" \in done => dim.bucket = BucketMembers
  /\ run > 1 \/ "time" \in done => dim.time = TimeMembers

\* A dimension of this run has the members its sources prescribe.
LEMMA DimHolds == Spec => []DimInv
<1>1. Init => DimInv
  BY DEF Init, DimInv
<1>2. BaseInv /\ DimInv /\ [Next]_vars => DimInv'
  <2> SUFFICES ASSUME BaseInv, DimInv, [Next]_vars PROVE DimInv'
    OBVIOUS
  <2> USE DEF DimInv
  <2>1. CASE UNCHANGED vars
    BY <2>1 DEF vars
  <2>2. CASE NextRun
    BY <2>2, NewRun DEF Tasks, Dimensions
  <2>3. CASE Next /\ ~NextRun
    <3> USE <2>3, Frames DEF Same, BuildDimension, Build
    <3>0. UNCHANGED <<run, stage, before, hash>>
      OBVIOUS
    <3>1. ("customer" \in done => dim.customer = CustomerMembers(stage))'
      <4>1. CASE BuildCustomer
        <5>1. dim'.customer = CustomerMembers(stage)
          BY <4>1 DEF BuildCustomer, BaseInv
        <5> QED BY <5>1, <3>0
      <4> QED BY <4>1, <3>0
    <3>2. ("product" \in done =>
             \E train \in {stage.train, before.train} :
                dim.product =
                  ProductMembers(hash.product, train, stage.previous))'
      <4>1. CASE BuildProduct
        <5>1. PICK train \in {stage.train, before.train} :
                 BuildDimension("product",
                   ProductMembers(hash.product, train, stage.previous))
          BY <4>1 DEF BuildProduct
        <5>2. dim'.product =
                ProductMembers(hash.product, train, stage.previous)
          BY <5>1 DEF BaseInv
        <5> QED BY <5>2, <3>0
      <4> QED BY <4>1, <3>0
    <3>3. ("channel" \in done =>
             dim.channel = ChannelMembers(hash.channel, stage.previous))'
      <4>1. CASE BuildChannel
        <5>1. dim'.channel = ChannelMembers(hash.channel, stage.previous)
          BY <4>1 DEF BuildChannel, BaseInv
        <5> QED BY <5>1, <3>0
      <4> QED BY <4>1, <3>0
    <3>4. ("decision" \in done =>
             dim.decision = DecisionMembers(hash.decision, stage.previous))'
      <4>1. CASE BuildDecision
        <5>1. dim'.decision = DecisionMembers(hash.decision, stage.previous)
          BY <4>1 DEF BuildDecision, BaseInv
        <5> QED BY <5>1, <3>0
      <4> QED BY <4>1, <3>0
    <3>5. (run > 1 \/ "bucket" \in done => dim.bucket = BucketMembers)'
      <4>1. CASE BuildBucket
        BY <4>1 DEF BuildBucket, BaseInv
      <4> QED BY <4>1, <3>0
    <3>6. (run > 1 \/ "time" \in done => dim.time = TimeMembers)'
      <4>1. CASE BuildTime
        BY <4>1 DEF BuildTime, BaseInv
      <4> QED BY <4>1, <3>0
    <3> QED BY <3>1, <3>2, <3>3, <3>4, <3>5, <3>6
  <2> QED BY <2>1, <2>2, <2>3
<1> QED BY <1>1, <1>2, BaseHolds, PTL DEF Spec

-----------------------------------------------------------------------------
(* The loan fact and the mart of a run. *)

LoanInv ==
  "loan" \in done =>
    /\ LoanDims \subseteq done
    /\ \A f \in fact.loan : f.row \in Applications(stage) /\ LoanFits(f)
    /\ \A a \in Applications(stage) : \E f \in fact.loan : f.row = a

MartInv ==
  "mart" \in done =>
    /\ {"loan", "balance"} \subseteq done
    /\ \A r \in mart : MartFits(r)
    /\ \A f \in fact.loan : \E r \in mart : r.fact = f

\* The loan fact of this run is made of all applications by the joins.
LEMMA LoanHolds == Spec => []LoanInv
<1>1. Init => LoanInv
  BY DEF Init, LoanInv
<1>2. BaseInv /\ LoanInv /\ [Next]_vars => LoanInv'
  <2> SUFFICES ASSUME BaseInv, LoanInv, [Next]_vars PROVE LoanInv'
    OBVIOUS
  <2>1. CASE UNCHANGED vars
    BY <2>1 DEF vars, LoanInv, LoanFits
  <2>2. CASE NextRun
    BY <2>2, NewRun DEF LoanInv
  <2>3. CASE Next /\ ~NextRun /\ BuildLoan
    <3>1. /\ UNCHANGED <<stage, dim>> /\ LoanDims \subseteq done
          /\ done' = done \cup {"loan"} /\ fact'.loan = LoanRows
      BY <2>3 DEF BuildLoan, BuildFact, Build, BaseInv
    <3>2. ASSUME NEW f \in LoanRows
          PROVE  f.row \in Applications(stage) /\ LoanFits(f)
      BY LoanJoin DEF LoanRows
    <3>3. ASSUME NEW a \in Applications(stage)
          PROVE  \E f \in LoanRows : f.row = a
      BY LoanJoin DEF LoanRows
    <3>4. \A f \in fact'.loan : f.row \in Applications(stage) /\ LoanFits(f)'
      BY <3>1, <3>2 DEF LoanFits
    <3> QED BY <3>1, <3>3, <3>4 DEF LoanInv
  <2>4. CASE Next /\ ~NextRun /\ ~BuildLoan /\ "loan" \in done
    <3>1. ~BuildCustomer /\ ~BuildProduct /\ ~BuildChannel /\ ~BuildDecision
      BY <2>4 DEF LoanInv, LoanDims, BuildCustomer, BuildProduct,
         BuildChannel, BuildDecision, BuildDimension, Build
    <3>2. /\ dim'.customer = dim.customer /\ dim'.product = dim.product
          /\ dim'.channel = dim.channel /\ dim'.decision = dim.decision
          /\ fact'.loan = fact.loan /\ stage' = stage /\ done \subseteq done'
      BY <2>4, <3>1, Frames
    <3>3. ASSUME NEW f, LoanFits(f) PROVE LoanFits(f)'
      BY <3>2, <3>3 DEF LoanFits
    <3> QED BY <2>4, <3>2, <3>3 DEF LoanInv
  <2>5. CASE Next /\ ~NextRun /\ ~BuildLoan /\ "loan" \notin done
    BY <2>5, Frames DEF LoanInv, Same
  <2> QED BY <2>1, <2>2, <2>3, <2>4, <2>5
<1> QED BY <1>1, <1>2, BaseHolds, PTL DEF Spec

\* The mart of this run is made of the whole loan fact by the joins.
LEMMA MartHolds == Spec => []MartInv
<1>1. Init => MartInv
  BY DEF Init, MartInv
<1>2. BaseInv /\ LoanInv /\ MartInv /\ [Next]_vars => MartInv'
  <2> SUFFICES ASSUME BaseInv, LoanInv, MartInv, [Next]_vars PROVE MartInv'
    OBVIOUS
  <2>1. CASE UNCHANGED vars
    BY <2>1 DEF vars, MartInv, MartFits
  <2>2. CASE NextRun
    BY <2>2, NewRun DEF MartInv
  <2>3. CASE Next /\ ~NextRun /\ BuildMart
    <3>1. /\ UNCHANGED <<dim, fact>> /\ {"loan", "balance"} \subseteq done
          /\ done' = done \cup {"mart"} /\ mart' = MartRows
      BY <2>3 DEF BuildMart, Build
    <3>2. ASSUME NEW r \in MartRows PROVE MartFits(r)
      BY MartJoin DEF MartRows
    <3>3. ASSUME NEW f \in fact.loan PROVE \E r \in MartRows : r.fact = f
      BY MartJoin DEF MartRows
    <3>4. \A r \in mart' : MartFits(r)'
      BY <3>1, <3>2 DEF MartFits
    <3> QED BY <3>1, <3>3, <3>4 DEF MartInv
  <2>4. CASE Next /\ ~NextRun /\ ~BuildMart /\ "mart" \in done
    <3>1. /\ ~BuildCustomer /\ ~BuildProduct /\ ~BuildChannel
          /\ ~BuildDecision /\ ~BuildLoan /\ ~BuildBalance
      BY <2>4 DEF MartInv, LoanInv, LoanDims, BuildCustomer, BuildProduct,
         BuildChannel, BuildDecision, BuildDimension, Build, BuildLoan,
         BuildBalance, BuildFact
    <3>2. /\ dim'.customer = dim.customer /\ dim'.product = dim.product
          /\ dim'.channel = dim.channel /\ dim'.decision = dim.decision
          /\ fact'.loan = fact.loan /\ fact'.balance = fact.balance
          /\ mart' = mart /\ done \subseteq done'
      BY <2>4, <3>1, Frames
    <3>3. ASSUME NEW r, MartFits(r) PROVE MartFits(r)'
      BY <3>2, <3>3 DEF MartFits
    <3> QED BY <2>4, <3>2, <3>3 DEF MartInv
  <2>5. CASE Next /\ ~NextRun /\ ~BuildMart /\ "mart" \notin done
    BY <2>5, Frames DEF MartInv, Same
  <2> QED BY <2>1, <2>2, <2>3, <2>4, <2>5
<1> QED BY <1>1, <1>2, BaseHolds, LoanHolds, PTL DEF Spec

-----------------------------------------------------------------------------
(* Types of members and joined rows, for every run. *)

DimTypes ==
  /\ dim.customer \in SUBSET [key : Int, name : Int]
  /\ dim.product \in SUBSET Members
  /\ dim.channel \in SUBSET [key : Int, name : Names, suite : Names]
  /\ dim.decision \in SUBSET Members
  /\ dim.source \in SUBSET Members
  /\ dim.bucket \in SUBSET [key : Int, min : Int, max : Int]
  /\ dim.time \in SUBSET [key : Int, month : Int]

\* The members that the sources prescribe have integer keys and names.
LEMMA MemberTypes ==
  ASSUME NEW s \in StageLayers, NEW b \in StageLayers, NEW h \in HashFunctions
  PROVE  /\ CustomerMembers(s) \in SUBSET [key : Int, name : Int]
         /\ ProductMembers(h.product, s.train, s.previous) \in SUBSET Members
         /\ ProductMembers(h.product, b.train, s.previous) \in SUBSET Members
         /\ ChannelMembers(h.channel, s.previous)
              \in SUBSET [key : Int, name : Names, suite : Names]
         /\ DecisionMembers(h.decision, s.previous) \in SUBSET Members
         /\ SourceMembers(h.source, s.bureau) \in SUBSET Members
         /\ BucketMembers \in SUBSET [key : Int, min : Int, max : Int]
         /\ TimeMembers \in SUBSET [key : Int, month : Int]
<1> USE NamesAssumption DEF Member, Members, Keys, UnknownKey
<1>1. CustomerMembers(s) \in SUBSET [key : Int, name : Int]
  BY DEF CustomerMembers, StageLayers, CurrentRows, Ids
<1>2. ASSUME NEW l \in StageLayers
      PROVE  ProductMembers(h.product, l.train, s.previous) \in SUBSET Members
  BY DEF ProductMembers, StageLayers, CurrentRows, PreviousRows, HashFunctions
<1>3. ChannelMembers(h.channel, s.previous)
        \in SUBSET [key : Int, name : Names, suite : Names]
  <2>1. ASSUME NEW a \in s.previous
        PROVE  /\ a.place \in Names /\ a.suite \in Names
               /\ h.channel[<<a.place, a.suite>>] \in Int
    <3>1. a.place \in Names /\ a.suite \in Names
      BY DEF StageLayers, PreviousRows
    <3>2. <<a.place, a.suite>> \in Names \X Names
      BY <3>1
    <3>3. h.channel \in [Names \X Names -> Keys]
      BY DEF HashFunctions
    <3> QED BY <3>1, <3>2, <3>3
  <2>2. ASSUME NEW m \in ChannelMembers(h.channel, s.previous)
        PROVE  m \in [key : Int, name : Names, suite : Names]
    <3>1. \/ \E a \in s.previous :
               m = [key |-> h.channel[<<a.place, a.suite>>],
                    name |-> a.place, suite |-> a.suite]
          \/ m = [key |-> -1, name |-> UnknownPlace, suite |-> Unknown]
      BY DEF ChannelMembers
    <3>2. CASE m = [key |-> -1, name |-> UnknownPlace, suite |-> Unknown]
      BY <3>2
    <3>3. CASE m # [key |-> -1, name |-> UnknownPlace, suite |-> Unknown]
      <4>1. PICK a \in s.previous :
               m = [key |-> h.channel[<<a.place, a.suite>>],
                    name |-> a.place, suite |-> a.suite]
        BY <3>1, <3>3
      <4>2. /\ a.place \in Names /\ a.suite \in Names
            /\ h.channel[<<a.place, a.suite>>] \in Int
        BY <2>1
      <4> QED BY <4>1, <4>2
    <3> QED BY <3>2, <3>3
  <2> QED BY <2>2
<1>4. DecisionMembers(h.decision, s.previous) \in SUBSET Members
  BY DEF DecisionMembers, StageLayers, PreviousRows, HashFunctions
<1>5. SourceMembers(h.source, s.bureau) \in SUBSET Members
  BY DEF SourceMembers, StageLayers, BureauRows, HashFunctions
<1>6. BucketMembers \in SUBSET [key : Int, min : Int, max : Int]
  BY SMT DEF BucketMembers, StandardBuckets, Bucket, LongestDelay
<1>7. TimeMembers \in SUBSET [key : Int, month : Int]
  BY DEF TimeMembers
<1> QED BY <1>1, <1>2, <1>3, <1>4, <1>5, <1>6, <1>7

\* So do those of the dimensions, of an earlier run too.
LEMMA DimTypesHold == Spec => []DimTypes
<1>1. Init => DimTypes
  BY DEF Init, DimTypes, NoMembers, Dimensions
<1>2. BaseInv /\ DimTypes /\ [Next]_vars => DimTypes'
  <2> SUFFICES ASSUME BaseInv, DimTypes, [Next]_vars PROVE DimTypes'
    OBVIOUS
  <2> USE DEF DimTypes
  <2>1. CASE UNCHANGED vars
    BY <2>1 DEF vars
  <2>2. CASE NextRun
    BY <2>2, NewRun
  <2>3. CASE Next /\ ~NextRun
    <3>1. stage \in StageLayers /\ before \in StageLayers
      BY SnapshotsAssumption DEF BaseInv
    <3>2. hash \in HashFunctions
      BY HashesAssumption DEF BaseInv
    <3> USE <2>3, <3>1, <3>2, Frames, MemberTypes DEF BuildDimension, BaseInv
    <3>3. (dim.customer \in SUBSET [key : Int, name : Int])'
      BY DEF BuildCustomer
    <3>4. (dim.product \in SUBSET Members)'
      <4>1. CASE BuildProduct
        <5>1. PICK train \in {stage.train, before.train} :
                 BuildDimension("product",
                   ProductMembers(hash.product, train, stage.previous))
          BY <4>1 DEF BuildProduct
        <5>2. dim'.product =
                ProductMembers(hash.product, train, stage.previous)
          BY <5>1
        <5> QED BY <5>2
      <4> QED BY <4>1
    <3>5. (dim.channel \in SUBSET [key : Int, name : Names, suite : Names])'
      BY DEF BuildChannel
    <3>6. (dim.decision \in SUBSET Members)'
      BY DEF BuildDecision
    <3>7. (dim.source \in SUBSET Members)'
      BY DEF BuildSource
    <3>8. (dim.bucket \in SUBSET [key : Int, min : Int, max : Int])'
      BY DEF BuildBucket
    <3>9. (dim.time \in SUBSET [key : Int, month : Int])'
      BY DEF BuildTime
    <3> QED BY <3>3, <3>4, <3>5, <3>6, <3>7, <3>8, <3>9
  <2> QED BY <2>1, <2>2, <2>3
<1> QED BY <1>1, <1>2, BaseHolds, PTL DEF Spec

LoanTyped(f) ==
  /\ f.customer.key \in Int /\ f.product.key \in Int
  /\ f.channel.key \in Int /\ f.decision.key \in Int
  /\ Zero(f.row.days) \in Int /\ f.time = TimeKey(Zero(f.row.days))
CreditTyped(f) ==
  /\ f.customer.key \in Int /\ f.source.key \in Int
  /\ f.row.days \in Int \cup {Null} /\ f.time = TimeKey(f.row.days)
InstallmentTyped(f) ==
  /\ f.customer.key \in Int
  /\ f.row.days \in Int \cup {Null} /\ f.time = TimeKey(f.row.days)
BucketOf(n) == Found({b \in StandardBuckets : b.min <= n /\ n <= b.max})
BucketFits(f, days) == Zero(days) \in Int /\ f.bucket \in BucketOf(Zero(days))

FactInv ==
  /\ \A f \in fact.loan : LoanTyped(f)
  /\ \A f \in fact.credit : CreditTyped(f)
  /\ \A f \in fact.installment :
        InstallmentTyped(f) /\ BucketFits(f, f.row.delay)
  /\ \A f \in fact.balance : f.customer.key \in Int /\ BucketFits(f, f.row.dpd)
  /\ \A f \in fact.status : f.bucket \in Int

\* What a lookup returns has an integer key, the fallback included.
LEMMA LookupKeys ==
  ASSUME DimTypes, NEW n
  PROVE  /\ \A m \in Lookup(dim.customer, n) : m.key \in Int
         /\ \A m \in Lookup(dim.product, n) : m.key \in Int
         /\ \A m \in Lookup(dim.channel, n) : m.key \in Int
         /\ \A m \in Lookup(dim.decision, n) : m.key \in Int
         /\ \A m \in Lookup(dim.source, n) : m.key \in Int
  BY DEF DimTypes, Members, Lookup, Found, NoMember, UnknownKey

\* Whether they are read from the dimension or spelt out.
LEMMA RangesStandard ==
  ASSUME DimInv PROVE Ranges = StandardBuckets
<1>1. {b \in BucketMembers : b.key # UnknownKey} = StandardBuckets
  BY DEF BucketMembers, StandardBuckets, Bucket, UnknownKey
<1>2. CASE Readable("bucket")
  BY <1>1, <1>2 DEF Ranges, DimInv, Readable
<1>3. CASE ~Readable("bucket")
  BY <1>3 DEF Ranges
<1> QED BY <1>2, <1>3

\* The rows of the five facts have integer keys and the bucket of a delay.
LEMMA FactRows ==
  ASSUME BaseInv, DimInv, DimTypes
  PROVE  /\ \A f \in LoanRows : LoanTyped(f)
         /\ \A f \in CreditRows : CreditTyped(f)
         /\ \A f \in InstallmentFacts :
               InstallmentTyped(f) /\ BucketFits(f, f.row.delay)
         /\ \A f \in BalanceFacts :
               f.customer.key \in Int /\ BucketFits(f, f.row.dpd)
         /\ \A f \in StatusFacts : f.bucket \in Int
<1>0. stage \in StageLayers
  BY SnapshotsAssumption DEF BaseInv
<1>1. ASSUME NEW f \in LoanRows PROVE LoanTyped(f)
  <2>1. PICK a \in Applications(stage) : f \in LoanRowsOf(a)
    BY DEF LoanRows
  <2>2. a.days \in Int \cup {Null}
    BY <1>0 DEF Applications, Current, Previous, StageLayers, PreviousRows
  <2>3. Zero(a.days) \in Int
    BY <2>2 DEF Zero
  <2> QED BY <2>1, <2>3, LookupKeys DEF LoanRowsOf, LoanTyped
<1>2. ASSUME NEW f \in CreditRows PROVE CreditTyped(f)
  <2>1. PICK b \in stage.bureau : f \in CreditRowsOf(b)
    BY DEF CreditRows
  <2>2. b.days \in Int \cup {Null}
    BY <1>0 DEF StageLayers, BureauRows
  <2> QED BY <2>1, <2>2, LookupKeys DEF CreditRowsOf, CreditTyped
<1>3. ASSUME NEW n PROVE BucketsOf(n) = BucketOf(Zero(n))
  BY RangesStandard DEF BucketsOf, BucketOf
<1>4. ASSUME NEW f \in InstallmentFacts
      PROVE  InstallmentTyped(f) /\ BucketFits(f, f.row.delay)
  <2>1. PICK i \in stage.installments : f \in InstallmentFactsOf(i)
    BY DEF InstallmentFacts
  <2>2. i.days \in Int \cup {Null} /\ Zero(i.delay) \in Int
    BY <1>0 DEF StageLayers, InstallmentRows, Zero
  <2>3. /\ f.row = i /\ f.bucket \in BucketsOf(i.delay)
        /\ f.time = TimeKey(i.days)
        /\ f.customer \in Lookup(dim.customer, i.customer)
    BY <2>1 DEF InstallmentFactsOf
  <2> QED BY <2>2, <2>3, <1>3, LookupKeys DEF InstallmentTyped, BucketFits
<1>5. ASSUME NEW f \in BalanceFacts
      PROVE  f.customer.key \in Int /\ BucketFits(f, f.row.dpd)
  <2>1. PICK i \in stage.balance : f \in BalanceFactsOf(i)
    BY DEF BalanceFacts
  <2>2. Zero(i.dpd) \in Int
    BY <1>0 DEF StageLayers, BalanceRows, Zero
  <2>3. /\ f.row = i /\ f.bucket \in BucketsOf(i.dpd)
        /\ f.customer \in Lookup(dim.customer, i.customer)
    BY <2>1 DEF BalanceFactsOf
  <2> QED BY <2>2, <2>3, <1>3, LookupKeys DEF BucketFits
<1>6. ASSUME NEW f \in StatusFacts PROVE f.bucket \in Int
  <2>1. ASSUME NEW s PROVE StatusBucket(s) \in Int
    BY DEF StatusBucket, UnknownKey
  <2> QED BY <2>1 DEF StatusFacts, StatusFactsOf
<1> QED BY <1>1, <1>2, <1>4, <1>5, <1>6

\* And stay so in the tables.
LEMMA FactHolds == Spec => []FactInv
<1>1. Init => FactInv
  BY DEF Init, FactInv, NoFacts, Facts
<1>2. BaseInv /\ DimInv /\ DimTypes /\ FactInv /\ [Next]_vars => FactInv'
  <2> SUFFICES ASSUME BaseInv, DimInv, DimTypes, FactInv, [Next]_vars
               PROVE  FactInv'
    OBVIOUS
  <2>1. CASE UNCHANGED vars
    BY <2>1 DEF vars, FactInv
  <2>2. CASE NextRun
    BY <2>2, NewRun DEF FactInv
  <2>3. CASE Next /\ ~NextRun
    <3> USE <2>3, Frames, FactRows DEF FactInv, BaseInv, BuildFact
    <3>1. \A f \in fact'.loan : LoanTyped(f)
      BY DEF BuildLoan
    <3>2. \A f \in fact'.credit : CreditTyped(f)
      BY DEF BuildCredit
    <3>3. \A f \in fact'.installment :
             InstallmentTyped(f) /\ BucketFits(f, f.row.delay)
      BY DEF BuildInstallment
    <3>4. \A f \in fact'.balance :
             f.customer.key \in Int /\ BucketFits(f, f.row.dpd)
      BY DEF BuildBalance
    <3>5. \A f \in fact'.status : f.bucket \in Int
      BY DEF BuildStatus
    <3> QED BY <3>1, <3>2, <3>3, <3>4, <3>5
  <2> QED BY <2>1, <2>2, <2>3
<1> QED BY <1>1, <1>2, BaseHolds, DimHolds, DimTypesHold, PTL DEF Spec

-----------------------------------------------------------------------------
(* Every row is kept. *)

JoinedInv ==
  /\ "credit" \in done => stage.bureau = {f.row : f \in fact.credit}
  /\ "installment" \in done =>
        stage.installments = {f.row : f \in fact.installment}
  /\ "balance" \in done => stage.balance = {f.row : f \in fact.balance}
  /\ "status" \in done => stage.statuses = {f.row : f \in fact.status}

\* The joins of the four other facts lose no row of their source.
LEMMA JoinsKeepRows ==
  /\ stage.bureau = {f.row : f \in CreditRows}
  /\ stage.installments = {f.row : f \in InstallmentFacts}
  /\ stage.balance = {f.row : f \in BalanceFacts}
  /\ stage.statuses = {f.row : f \in StatusFacts}
<1>1. stage.bureau = {f.row : f \in CreditRows}
  <2>1. ASSUME NEW b PROVE \E f \in CreditRowsOf(b) : f.row = b
    <3>1. PICK c : c \in Lookup(dim.customer, b.customer)
      BY FoundNonempty DEF Lookup
    <3>2. PICK s : s \in Lookup(dim.source, b.source)
      BY FoundNonempty DEF Lookup
    <3>3. [row |-> b, customer |-> c, source |-> s,
           time |-> TimeKey(b.days)] \in CreditRowsOf(b)
      BY <3>1, <3>2 DEF CreditRowsOf
    <3> QED BY <3>3
  <2>2. ASSUME NEW b PROVE \A f \in CreditRowsOf(b) : f.row = b
    BY DEF CreditRowsOf
  <2> QED BY <2>1, <2>2 DEF CreditRows
<1>2. stage.installments = {f.row : f \in InstallmentFacts}
  <2>1. ASSUME NEW i PROVE \E f \in InstallmentFactsOf(i) : f.row = i
    <3>1. PICK c : c \in Lookup(dim.customer, i.customer)
      BY FoundNonempty DEF Lookup
    <3>2. PICK b : b \in BucketsOf(i.delay)
      BY FoundNonempty DEF BucketsOf
    <3>3. [row |-> i, customer |-> c, bucket |-> b,
           time |-> TimeKey(i.days)] \in InstallmentFactsOf(i)
      BY <3>1, <3>2 DEF InstallmentFactsOf
    <3> QED BY <3>3
  <2>2. ASSUME NEW i PROVE \A f \in InstallmentFactsOf(i) : f.row = i
    BY DEF InstallmentFactsOf
  <2> QED BY <2>1, <2>2 DEF InstallmentFacts
<1>3. stage.balance = {f.row : f \in BalanceFacts}
  <2>1. ASSUME NEW m PROVE \E f \in BalanceFactsOf(m) : f.row = m
    <3>1. PICK c : c \in Lookup(dim.customer, m.customer)
      BY FoundNonempty DEF Lookup
    <3>2. PICK b : b \in BucketsOf(m.dpd)
      BY FoundNonempty DEF BucketsOf
    <3>3. [row |-> m, customer |-> c, bucket |-> b, time |-> m.month]
            \in BalanceFactsOf(m)
      BY <3>1, <3>2 DEF BalanceFactsOf
    <3> QED BY <3>3
  <2>2. ASSUME NEW m PROVE \A f \in BalanceFactsOf(m) : f.row = m
    BY DEF BalanceFactsOf
  <2> QED BY <2>1, <2>2 DEF BalanceFacts
<1>4. stage.statuses = {f.row : f \in StatusFacts}
  <2>1. ASSUME NEW m PROVE \E f \in StatusFactsOf(m) : f.row = m
    <3>1. PICK c : c \in ParentsOf(fact.credit, m.id)
      BY FoundNonempty DEF ParentsOf
    <3>2. [row |-> m, credit |-> c, bucket |-> StatusBucket(m.status),
           time |-> m.month] \in StatusFactsOf(m)
      BY <3>1 DEF StatusFactsOf
    <3> QED BY <3>2
  <2>2. ASSUME NEW m PROVE \A f \in StatusFactsOf(m) : f.row = m
    BY DEF StatusFactsOf
  <2> QED BY <2>1, <2>2 DEF StatusFacts
<1> QED BY <1>1, <1>2, <1>3, <1>4

\* Nor do the tables of this run.
LEMMA JoinedHolds == Spec => []JoinedInv
<1>1. Init => JoinedInv
  BY DEF Init, JoinedInv
<1>2. BaseInv /\ JoinedInv /\ [Next]_vars => JoinedInv'
  <2> SUFFICES ASSUME BaseInv, JoinedInv, [Next]_vars PROVE JoinedInv'
    OBVIOUS
  <2>1. CASE UNCHANGED vars
    BY <2>1 DEF vars, JoinedInv
  <2>2. CASE NextRun
    BY <2>2, NewRun DEF JoinedInv
  <2>3. CASE Next /\ ~NextRun
    <3>0. UNCHANGED stage
      BY <2>3, Frames
    <3>1. BuildCredit => fact'.credit = CreditRows
      BY DEF BuildCredit, BuildFact, BaseInv
    <3>2. BuildInstallment => fact'.installment = InstallmentFacts
      BY DEF BuildInstallment, BuildFact, BaseInv
    <3>3. BuildBalance => fact'.balance = BalanceFacts
      BY DEF BuildBalance, BuildFact, BaseInv
    <3>4. BuildStatus => fact'.status = StatusFacts
      BY DEF BuildStatus, BuildFact, BaseInv
    <3> USE <2>3, <3>0, Frames, JoinsKeepRows DEF JoinedInv, Same
    <3>5. ("credit" \in done => stage.bureau = {f.row : f \in fact.credit})'
      BY <3>1
    <3>6. ("installment" \in done =>
             stage.installments = {f.row : f \in fact.installment})'
      BY <3>2
    <3>7. ("balance" \in done => stage.balance = {f.row : f \in fact.balance})'
      BY <3>3
    <3>8. ("status" \in done => stage.statuses = {f.row : f \in fact.status})'
      BY <3>4
    <3> QED BY <3>5, <3>6, <3>7, <3>8
  <2> QED BY <2>1, <2>2, <2>3
<1> QED BY <1>1, <1>2, BaseHolds, PTL DEF Spec

-----------------------------------------------------------------------------
(* Theorems *)

\* TypeOK: every variable keeps its type, and every stored key is an integer,
\* whatever the stage layer holds.
THEOREM StarTypeCorrect == Spec => []TypeOK
<1>1. BaseInv /\ DimTypes /\ FactInv => TypeOK
  <2> SUFFICES ASSUME BaseInv, DimTypes, FactInv PROVE TypeOK
    OBVIOUS
  <2>1. dim \in MemberSets
    BY DEF BaseInv, DimTypes, MemberSets
  <2>2. DOMAIN fact = Facts
    BY DEF BaseInv, Facts
  <2>3. \A f \in fact.loan : \A d \in LoanDims : f[d].key \in Int
    BY DEF FactInv, LoanTyped, LoanDims
  <2>4. \A f \in fact.credit : f.customer.key \in Int /\ f.source.key \in Int
    BY DEF FactInv, CreditTyped
  <2>5. ASSUME NEW n \in Int, NEW b \in BucketOf(n) PROVE b.key \in Int
    BY DEF BucketOf, Found, NoMember, UnknownKey, StandardBuckets, Bucket
  <2>6. \A f \in fact.installment \cup fact.balance :
           f.customer.key \in Int /\ f.bucket.key \in Int
    BY <2>5 DEF FactInv, InstallmentTyped, BucketFits
  <2>7. \A f \in fact.status : f.bucket \in Int
    BY DEF FactInv
  <2> QED BY <2>1, <2>2, <2>3, <2>4, <2>6, <2>7 DEF TypeOK, BaseInv
<1> QED BY <1>1, BaseHolds, DimTypesHold, FactHolds, PTL

\* NoneLost: no join of a fact or of the mart drops a row of the stage layer.
THEOREM EveryRowKept == Spec => []NoneLost
<1>1. LoanInv /\ MartInv /\ JoinedInv => NoneLost
  <2> SUFFICES ASSUME LoanInv, MartInv, JoinedInv PROVE NoneLost
    OBVIOUS
  <2>1. ASSUME "loan" \in done
        PROVE  Applications(stage) = {f.row : f \in fact.loan}
    BY <2>1 DEF LoanInv
  <2>2. ASSUME "mart" \in done
        PROVE  Applications(stage) = {r.fact.row : r \in mart}
    <3>1. "loan" \in done
      BY <2>2 DEF MartInv
    <3>2. /\ \A r \in mart : r.fact \in fact.loan
          /\ \A f \in fact.loan : \E r \in mart : r.fact = f
      BY <2>2 DEF MartInv, MartFits
    <3> QED BY <3>1, <3>2, <2>1
  <2> QED BY <2>1, <2>2 DEF JoinedInv, NoneLost
<1> QED BY <1>1, LoanHolds, MartHolds, JoinedHolds, PTL

\* With unique names and keys a lookup by name finds one member,
LEMMA LookupUnique ==
  ASSUME NEW S, Unique(S), NEW n, NEW l \in Lookup(S, n), NEW m \in Lookup(S, n)
  PROVE  l = m
<1>1. /\ (l \in S /\ l.name = n) \/ (l = NoMember /\ \A x \in S : x.name # n)
      /\ (m \in S /\ m.name = n) \/ (m = NoMember /\ \A x \in S : x.name # n)
  BY LookupMember
<1> QED BY <1>1 DEF Unique

\* and so does one by key.
LEMMA WithKeyUnique ==
  ASSUME NEW S, Unique(S), NEW k,
         NEW l \in WithKey(S, k), NEW m \in WithKey(S, k)
  PROVE  l = m
<1>1. /\ (l \in S /\ l.key = k) \/ (l = NoMember /\ \A x \in S : x.key # k)
      /\ (m \in S /\ m.key = k) \/ (m = NoMember /\ \A x \in S : x.key # k)
  BY WithKeyMember
<1> QED BY <1>1 DEF Unique

\* The two lookups of one member, by natural key and by surrogate key, agree.
LEMMA LookupsAgree ==
  ASSUME NEW S, Unique(S), NEW n,
         NEW found \in Lookup(S, n), NEW shown \in WithKey(S, found.key)
  PROVE  Shows(shown, found)
<1>1. (found \in S /\ found.name = n) \/ found = NoMember
  BY LookupMember
<1>2. \/ shown \in S /\ shown.key = found.key
      \/ shown = NoMember /\ \A x \in S : x.key # found.key
  BY WithKeyMember
<1>3. CASE found \in S
  <2>1. shown = found
    BY <1>2, <1>3 DEF Unique
  <2> QED BY <2>1 DEF Shows, NoMember
<1>4. CASE found = NoMember
  BY <1>2, <1>4 DEF Shows, NoMember
<1> QED BY <1>1, <1>3, <1>4

\* Customers are unique by construction: their key is the whole hash.
LEMMA CustomersUnique ==
  ASSUME NEW s PROVE Unique(CustomerMembers(s))
<1>1. \A m \in CustomerMembers(s) : m = [key |-> m.name, name |-> m.name]
  BY DEF CustomerMembers, Member, UnknownKey
<1> QED BY <1>1 DEF Unique

\* GrainWhenUnambiguous: as long as natural and surrogate keys are unique in
\* the dimensions, the mart has every application exactly once, with the
\* members that the fact has found.
THEOREM GrainKept == Spec => []GrainWhenUnambiguous
<1>1. DimInv /\ LoanInv /\ MartInv => GrainWhenUnambiguous
  <2> SUFFICES ASSUME DimInv, LoanInv, MartInv, "mart" \in done, Unambiguous,
                      NEW a \in Applications(stage)
               PROVE  \E r \in mart : /\ {q \in mart : q.fact.row = a} = {r}
                                      /\ Faithful(r)
    BY DEF GrainWhenUnambiguous
  <2>1. /\ Unique(dim.customer) /\ Unique(dim.product)
        /\ Unique(dim.channel) /\ Unique(dim.decision)
    BY CustomersUnique DEF Unambiguous, DimInv, LoanInv, MartInv, LoanDims
  <2>2. /\ \A f \in fact.loan : LoanFits(f)
        /\ \E f \in fact.loan : f.row = a
    BY DEF LoanInv, MartInv
  <2>3. /\ \A r \in mart : MartFits(r)
        /\ \A f \in fact.loan : \E r \in mart : r.fact = f
    BY DEF MartInv
  <2>4. PICK f \in fact.loan : f.row = a
    BY <2>2
  <2>5. PICK r \in mart : r.fact = f
    BY <2>3
  <2>6. ASSUME NEW g \in fact.loan, g.row = a PROVE g = f
    <3>1. LoanFits(f) /\ LoanFits(g)
      BY <2>2
    <3>2. g.customer = f.customer
      BY <2>1, <2>4, <2>6, <3>1, LookupUnique DEF LoanFits
    <3>3. g.product = f.product
      BY <2>1, <2>4, <2>6, <3>1, LookupUnique DEF LoanFits
    <3>4. g.channel = f.channel
      BY <2>1, <2>4, <2>6, <3>1, LookupUnique DEF LoanFits
    <3>5. g.decision = f.decision
      BY <2>1, <2>4, <2>6, <3>1, LookupUnique DEF LoanFits
    <3> QED BY <2>4, <2>6, <3>1, <3>2, <3>3, <3>4, <3>5 DEF LoanFits
  <2>7. ASSUME NEW q \in mart, q.fact.row = a PROVE q = r
    <3>1. MartFits(q) /\ MartFits(r)
      BY <2>3
    <3>2. q.fact = f /\ r.fact = f
      BY <2>5, <2>6, <2>7, <3>1 DEF MartFits
    <3>3. q.customer = r.customer
      BY <2>1, <3>1, <3>2, WithKeyUnique DEF MartFits
    <3>4. q.product = r.product
      BY <2>1, <3>1, <3>2, WithKeyUnique DEF MartFits
    <3>5. q.channel = r.channel
      BY <2>1, <3>1, <3>2, WithKeyUnique DEF MartFits
    <3>6. q.decision = r.decision
      BY <2>1, <3>1, <3>2, WithKeyUnique DEF MartFits
    <3>7. PICK m : Latest(fact.balance, f.row) = {m}
      BY LatestOne
    <3>8. q.latest = r.latest
      BY <3>1, <3>2, <3>7 DEF MartFits
    <3> QED BY <3>1, <3>2, <3>3, <3>4, <3>5, <3>6, <3>8 DEF MartFits
  <2>8. {q \in mart : q.fact.row = a} = {r}
    BY <2>4, <2>5, <2>7
  <2>9. Faithful(r)
    <3>1. MartFits(r) /\ LoanFits(f)
      BY <2>2, <2>3
    <3>2. Shows(r.customer, f.customer)
      BY <2>1, <2>5, <3>1, LookupsAgree DEF MartFits, LoanFits
    <3>3. Shows(r.product, f.product)
      BY <2>1, <2>5, <3>1, LookupsAgree DEF MartFits, LoanFits
    <3>4. Shows(r.channel, f.channel)
      BY <2>1, <2>5, <3>1, LookupsAgree DEF MartFits, LoanFits
    <3>5. Shows(r.decision, f.decision)
      BY <2>1, <2>5, <3>1, LookupsAgree DEF MartFits, LoanFits
    <3> QED BY <2>5, <3>2, <3>3, <3>4, <3>5 DEF Faithful, LoanDims
  <2> QED BY <2>8, <2>9
<1> QED BY <1>1, DimHolds, LoanHolds, MartHolds, PTL

-----------------------------------------------------------------------------
(* References *)

\* A name that some member has is resolved to a member with that name.
LEMMA Resolved ==
  ASSUME NEW S, NEW n, NEW m \in Lookup(S, n), \E x \in S : x.name = n
  PROVE  m \in S /\ m.name = n
  BY LookupMember

\* A member has a name, the fallback has none.
LEMMA MembersNamed ==
  ASSUME NEW m, "name" \in DOMAIN m PROVE m # NoMember
  BY DEF NoMember

\* The part of ReferencesResolve about the loan fact.
LEMMA LoanReferencesHold ==
  ASSUME DimInv, DimTypes, LoanInv PROVE LoanReferences
<1> SUFFICES ASSUME "loan" \in done, NEW f \in fact.loan
    PROVE  IF f.row.kind = "previous"
           THEN /\ f.product # NoMember /\ f.product.name = f.row.product
                /\ f.channel # NoMember /\ f.channel.name = f.row.place
                /\ f.decision # NoMember
           ELSE f.customer # NoMember /\ f.customer.name = f.row.customer
  BY DEF LoanReferences
<1>1. f.row \in Applications(stage) /\ LoanFits(f) /\ LoanDims \subseteq done
  BY DEF LoanInv
<1>2. CASE f.row.kind = "previous"
  <2>1. PICK a \in stage.previous : f.row = Previous(a)
    BY <1>1, <1>2 DEF Applications, Current
  <2>2. /\ f.row.product = a.product /\ f.row.place = a.place
        /\ f.row.decision = a.decision
    BY <2>1 DEF Previous
  <2>3. f.product \in dim.product /\ f.product.name = f.row.product
    <3>1. PICK train : dim.product =
                         ProductMembers(hash.product, train, stage.previous)
      BY <1>1 DEF DimInv, LoanDims
    <3>2. \E x \in dim.product : x.name = f.row.product
      <4>1. Member(hash.product[a.product], a.product) \in dim.product
        BY <3>1 DEF ProductMembers
      <4> QED BY <4>1, <2>2 DEF Member
    <3> QED BY <1>1, <3>2, Resolved DEF LoanFits
  <2>4. f.channel \in dim.channel /\ f.channel.name = f.row.place
    <3>1. \E x \in dim.channel : x.name = f.row.place
      <4>1. [key |-> hash.channel[<<a.place, a.suite>>], name |-> a.place,
             suite |-> a.suite] \in dim.channel
        BY <1>1 DEF DimInv, LoanDims, ChannelMembers
      <4> QED BY <4>1, <2>2
    <3> QED BY <1>1, <3>1, Resolved DEF LoanFits
  <2>5. f.decision \in dim.decision
    <3>1. \E x \in dim.decision : x.name = f.row.decision
      <4>1. Member(hash.decision[a.decision], a.decision) \in dim.decision
        BY <1>1 DEF DimInv, LoanDims, DecisionMembers
      <4> QED BY <4>1, <2>2 DEF Member
    <3> QED BY <1>1, <3>1, Resolved DEF LoanFits
  <2>6. f.product # NoMember
    BY <2>3, MembersNamed DEF DimTypes, Members
  <2>7. f.channel # NoMember
    BY <2>4, MembersNamed DEF DimTypes
  <2>8. f.decision # NoMember
    BY <2>5, MembersNamed DEF DimTypes, Members
  <2> QED BY <1>2, <2>3, <2>4, <2>6, <2>7, <2>8
<1>3. CASE f.row.kind # "previous"
  <2>1. PICK a \in stage.train \cup stage.test : f.row.customer = a.id
    BY <1>1, <1>3 DEF Applications, Current, Previous
  <2>2. \E x \in dim.customer : x.name = f.row.customer
    <3>1. Member(a.id, a.id) \in dim.customer
      BY <1>1 DEF DimInv, LoanDims, CustomerMembers
    <3> QED BY <3>1, <2>1 DEF Member
  <2>3. f.customer \in dim.customer /\ f.customer.name = f.row.customer
    BY <1>1, <2>2, Resolved DEF LoanFits
  <2>4. f.customer # NoMember
    BY <2>3, MembersNamed DEF DimTypes
  <2> QED BY <1>3, <2>3, <2>4
<1> QED BY <1>2, <1>3

\* The standard buckets cover every delay up to LongestDelay days, once.
LEMMA BucketRanges ==
  ASSUME NEW n \in Int, NEW b \in BucketOf(n)
  PROVE  /\ n \in 1..LongestDelay => b.key \in 1..6
         /\ b.key \in 1..6 => n \in 1..LongestDelay
         /\ n = 0 => b.key = 0
         /\ b.key = 0 => n = 0
<1>1. \/ b \in StandardBuckets /\ b.min <= n /\ n <= b.max
      \/ /\ b = NoMember
         /\ \A c \in StandardBuckets : ~(c.min <= n /\ n <= c.max)
  BY SMT DEF BucketOf, Found
<1>2. CASE b \in StandardBuckets /\ b.min <= n /\ n <= b.max
  <2>1. \/ b.key = 0 /\ b.min = 0 /\ b.max = 0
        \/ b.key = 1 /\ b.min = 1 /\ b.max = 30
        \/ b.key = 2 /\ b.min = 31 /\ b.max = 60
        \/ b.key = 3 /\ b.min = 61 /\ b.max = 90
        \/ b.key = 4 /\ b.min = 91 /\ b.max = 120
        \/ b.key = 5 /\ b.min = 121 /\ b.max = 150
        \/ b.key = 6 /\ b.min = 151 /\ b.max = LongestDelay
    BY <1>2, SMT DEF StandardBuckets, Bucket
  <2>2. b.key \in 0..6 /\ b.min <= n /\ n <= b.max
    BY <1>2, <2>1
  <2>3. CASE b.key = 0
    BY <2>1, <2>2, <2>3, SMT
  <2>4. CASE b.key \in 1..6
    <3>1. 1 <= n /\ n <= LongestDelay
      BY <2>1, <2>2, <2>4, SMT DEF LongestDelay
    <3> QED BY <2>4, <3>1, SMT
  <2> QED BY <2>2, <2>3, <2>4, SMT
<1>3. CASE /\ b = NoMember
           /\ \A c \in StandardBuckets : ~(c.min <= n /\ n <= c.max)
  <2>1. \A k, low, high : Bucket(k, low, high) \in StandardBuckets
                            => ~(low <= n /\ n <= high)
    BY <1>3, SMT DEF Bucket
  <2>2. ~(0 <= n /\ n <= 0) /\ ~(1 <= n /\ n <= 30) /\ ~(31 <= n /\ n <= 60)
    BY <2>1, SMT DEF StandardBuckets
  <2>3. /\ ~(61 <= n /\ n <= 90) /\ ~(91 <= n /\ n <= 120)
        /\ ~(121 <= n /\ n <= 150) /\ ~(151 <= n /\ n <= LongestDelay)
    BY <2>1, SMT DEF StandardBuckets
  <2>4. b.key = -1
    BY <1>3, SMT DEF NoMember, UnknownKey
  <2>5. ~(0 <= n /\ n <= LongestDelay)
    BY <2>2, <2>3, SMT DEF LongestDelay
  <2>6. ASSUME n \in 1..LongestDelay PROVE FALSE
    <3>0. LongestDelay \in Int
      BY SMT DEF LongestDelay
    <3>1. 1 <= n /\ n <= LongestDelay
      BY <2>6, <3>0, SMT
    <3>2. 0 <= n
      BY <3>1, SMT
    <3> QED BY <2>5, <3>1, <3>2
  <2>7. ~(0 <= n /\ n <= 0)
    BY <2>2
  <2>8. n # 0
    BY <2>7, SMT
  <2> QED BY <2>4, <2>6, <2>8, SMT
<1> QED BY <1>1, <1>2, <1>3

\* A month of 30 days that has a key in the time dimension.
LEMMA TimeKeyRange ==
  ASSUME NEW d \in Int, d \in -2880..0
  PROVE  /\ TimeKey(d) \in -96..0
         /\ d \notin -30..-1 => TimeKey(d) # -1
<1>1. TimeKey(d) = d \div 30
  BY NullAssumption DEF TimeKey
<1>2. -2880 <= d /\ d <= 0
  BY SMT
<1>3. d \div 30 \in -96..0
  BY <1>2, SMT
<1>4. ASSUME d \notin -30..-1 PROVE d \div 30 # -1
  BY <1>2, <1>4, SMT
<1> QED BY <1>1, <1>3, <1>4

TimeMember(k) == [key |-> k, month |-> k]

\* A month of the window has one member, but for the key -1.
LEMMA TimeMemberOnce ==
  \A k \in -96..0 :
     /\ TimeMember(k) \in TimeMembers
     /\ \A n \in TimeMembers : n.key = k /\ k # -1 => n = TimeMember(k)
<1> SUFFICES ASSUME NEW k \in -96..0
    PROVE  /\ TimeMember(k) \in TimeMembers
           /\ \A n \in TimeMembers : n.key = k /\ k # -1 => n = TimeMember(k)
  OBVIOUS
<1>1. TimeMember(k) \in TimeMembers
  BY DEF TimeMembers, TimeMember
<1>2. ASSUME NEW n \in TimeMembers, n.key = k, k # -1
      PROVE  n = TimeMember(k)
  BY <1>2 DEF TimeMembers, TimeMember, UnknownKey
<1> QED BY <1>1, <1>2

\* A time key computed from days has its month in the dimension.
LEMMA MonthsHold ==
  ASSUME DimInv, "time" \in done,
         NEW f, NEW days \in Int, f.time = TimeKey(days)
  PROVE  MonthFound(f, days)
<1> SUFFICES ASSUME days \in -2880..0
    PROVE  \E m \in dim.time :
              /\ m.month = f.time
              /\ days \notin -30..-1 =>
                    {n \in dim.time : n.key = f.time} = {m}
  BY DEF MonthFound
<1>1. f.time \in -96..0
  BY TimeKeyRange
<1>2. ASSUME days \notin -30..-1 PROVE f.time # -1
  BY <1>2, TimeKeyRange
<1>3. dim.time = TimeMembers
  BY DEF DimInv
<1>4. PICK m \in TimeMembers :
         /\ m.month = f.time /\ m.key = f.time
         /\ \A n \in TimeMembers : n.key = f.time /\ f.time # -1 => n = m
  <2>1. TimeMember(f.time) \in TimeMembers
    BY <1>1, TimeMemberOnce
  <2>2. TimeMember(f.time).month = f.time /\ TimeMember(f.time).key = f.time
    BY DEF TimeMember
  <2>3. \A n \in TimeMembers :
           n.key = f.time /\ f.time # -1 => n = TimeMember(f.time)
    BY <1>1, TimeMemberOnce
  <2> QED BY <2>1, <2>2, <2>3
<1>5. m \in dim.time /\ m.month = f.time
  BY <1>3, <1>4
<1>6. ASSUME days \notin -30..-1
      PROVE  {n \in dim.time : n.key = f.time} = {m}
  BY <1>2, <1>3, <1>4, <1>6
<1> QED BY <1>5, <1>6

\* The part of ReferencesResolve about the time keys.
LEMMA TimeReferencesHold ==
  ASSUME DimInv, FactInv PROVE TimeReferences
<1> SUFFICES ASSUME "time" \in done PROVE TimeReferences
  BY DEF TimeReferences
<1>1. ASSUME NEW f \in fact.loan PROVE MonthFound(f, Zero(f.row.days))
  BY MonthsHold DEF FactInv, LoanTyped
<1>2. ASSUME NEW f \in fact.credit \cup fact.installment
      PROVE  IF f.row.days = Null THEN f.time = Null
                                  ELSE MonthFound(f, f.row.days)
  <2>1. f.row.days \in Int \cup {Null} /\ f.time = TimeKey(f.row.days)
    BY DEF FactInv, CreditTyped, InstallmentTyped
  <2>2. CASE f.row.days = Null
    BY <2>1, <2>2 DEF TimeKey
  <2>3. CASE f.row.days # Null
    BY <2>1, <2>3, MonthsHold
  <2> QED BY <2>2, <2>3
<1> QED BY <1>1, <1>2 DEF TimeReferences

\* ReferencesResolve: what the dimensions hold for the facts, for all numbers
\* of days and delays.
THEOREM ReferencesFound == Spec => []ReferencesResolve
<1>1. DimInv /\ DimTypes /\ LoanInv /\ FactInv => ReferencesResolve
  <2> SUFFICES ASSUME DimInv, DimTypes, LoanInv, FactInv
               PROVE  ReferencesResolve
    OBVIOUS
  <2>1. BucketReferences
    <3>1. ASSUME NEW n \in Int, NEW c \in BucketOf(n)
          PROVE  /\ n \in 1..LongestDelay <=> c.key \in 1..6
                 /\ n = 0 <=> c.key = 0
      BY BucketRanges, Zenon
    <3>2. ASSUME NEW f \in fact.installment
          PROVE  /\ Zero(f.row.delay) \in Int
                 /\ f.bucket \in BucketOf(Zero(f.row.delay))
      BY DEF FactInv, BucketFits
    <3>3. ASSUME NEW f \in fact.balance
          PROVE  /\ Zero(f.row.dpd) \in Int
                 /\ f.bucket \in BucketOf(Zero(f.row.dpd))
      BY DEF FactInv, BucketFits
    <3> QED BY <3>1, <3>2, <3>3, Zenon DEF BucketReferences
  <2> QED BY <2>1, LoanReferencesHold, TimeReferencesHold DEF ReferencesResolve
<1> QED BY <1>1, DimHolds, DimTypesHold, LoanHolds, FactHolds, PTL

-----------------------------------------------------------------------------
(* The reconciliation gate. *)

\* While the gate has passed, the mart is the one of this run and reconciles.
GateInv == gate = "passed" => "mart" \in done /\ Reconciles

\* The mart and the stage layer stay as they were when the gate compared them.
LEMMA GateHolds == Spec => []GateInv
<1>1. Init => GateInv
  BY DEF Init, GateInv
<1>2. BaseInv /\ GateInv /\ [Next]_vars => GateInv'
  <2> SUFFICES ASSUME BaseInv, GateInv, [Next]_vars PROVE GateInv'
    OBVIOUS
  <2>1. ASSUME UNCHANGED <<mart, stage>> PROVE Reconciles' = Reconciles
    BY <2>1 DEF Reconciles, NullKeys, Drift, StageCredit, MartCredit
  <2>2. CASE UNCHANGED vars
    BY <2>1, <2>2 DEF vars, GateInv
  <2>3. CASE NextRun
    BY <2>3 DEF NextRun, GateInv
  <2>4. CASE Reconcile
    BY <2>1, <2>4 DEF Reconcile, Build, GateInv
  <2>5. CASE BuildMart
    BY <2>5 DEF BuildMart, Build, GateInv
  <2>6. ASSUME Next, ~NextRun, ~Reconcile, ~BuildMart PROVE GateInv'
    <3>1. UNCHANGED <<mart, stage>> /\ done \subseteq done'
      BY <2>6, Frames
    <3>2. gate' = gate
      BY <2>6 DEF Next, BuildCustomer, BuildProduct, BuildChannel,
         BuildDecision, BuildSource, BuildBucket, BuildTime, BuildDimension,
         BuildLoan, BuildCredit, BuildInstallment, BuildBalance, BuildStatus,
         BuildFact
    <3> QED BY <2>1, <3>1, <3>2 DEF GateInv
  <2> QED BY <2>2, <2>3, <2>4, <2>5, <2>6
<1> QED BY <1>1, <1>2, BaseHolds, PTL DEF Spec

\* The tables of the stage layer are finite, and their rows have types.
LEMMA StageFinite ==
  ASSUME BaseInv, NEW s \in {stage, before}
  PROVE  /\ s \in StageLayers
         /\ IsFiniteSet(s.train) /\ IsFiniteSet(s.test)
         /\ IsFiniteSet(s.previous)
<1>1. s \in Snapshots
  BY DEF BaseInv
<1>2. s \in StageLayers
  BY <1>1, SnapshotsAssumption
<1>3. {"train", "test", "previous"} \subseteq DOMAIN s
  BY <1>2 DEF StageLayers
<1> QED BY <1>1, <1>2, <1>3, FiniteAssumption

\* So are the applications and the members they may be joined with.
LEMMA MembersFinite ==
  ASSUME BaseInv, DimInv, LoanDims \subseteq done
  PROVE  /\ IsFiniteSet(Applications(stage))
         /\ IsFiniteSet(dim.customer \cup {NoMember})
         /\ IsFiniteSet(dim.product \cup {NoMember})
         /\ IsFiniteSet(dim.channel \cup {NoMember})
         /\ IsFiniteSet(dim.decision \cup {NoMember})
<1>1. /\ IsFiniteSet(stage.train) /\ IsFiniteSet(stage.test)
      /\ IsFiniteSet(stage.previous) /\ IsFiniteSet(before.train)
  BY StageFinite
<1>2. IsFiniteSet(Applications(stage))
  <2> DEFINE A == {Current("train", a) : a \in stage.train}
             B == {Current("test", a) : a \in stage.test}
             C == {Previous(a) : a \in stage.previous}
  <2>1. IsFiniteSet(A)
    <3>1. [a \in stage.train |-> Current("train", a)]
             \in Surjection(stage.train, A)
      BY DEF Surjection
    <3> QED BY <1>1, <3>1, FS_Surjection
  <2>2. IsFiniteSet(B)
    <3>1. [a \in stage.test |-> Current("test", a)]
             \in Surjection(stage.test, B)
      BY DEF Surjection
    <3> QED BY <1>1, <3>1, FS_Surjection
  <2>3. IsFiniteSet(C)
    <3>1. [a \in stage.previous |-> Previous(a)]
             \in Surjection(stage.previous, C)
      BY DEF Surjection
    <3> QED BY <1>1, <3>1, FS_Surjection
  <2>4. Applications(stage) = (A \cup B) \cup C
    BY DEF Applications
  <2> QED BY <2>1, <2>2, <2>3, <2>4, FS_Union
<1>3. IsFiniteSet(dim.customer)
  <2> DEFINE S == stage.train \cup stage.test
             T == {Member(a.id, a.id) : a \in S}
  <2>1. [a \in S |-> Member(a.id, a.id)] \in Surjection(S, T)
    BY DEF Surjection
  <2>4. IsFiniteSet(S)
    BY <1>1, FS_Union
  <2>2. IsFiniteSet(T)
    BY <2>1, <2>4, FS_Surjection
  <2>3. dim.customer = T \cup {Member(UnknownKey, -1)}
    BY DEF DimInv, LoanDims, CustomerMembers
  <2> QED BY <2>2, <2>3, FS_AddElement
<1>4. IsFiniteSet(dim.product)
  <2>1. PICK train \in {stage.train, before.train} :
          dim.product = ProductMembers(hash.product, train, stage.previous)
    BY DEF DimInv, LoanDims
  <2> DEFINE S == train \cup stage.previous
             T == {Member(hash.product[a.product], a.product) : a \in S}
  <2>2. [a \in S |-> Member(hash.product[a.product], a.product)]
           \in Surjection(S, T)
    BY DEF Surjection
  <2>5. IsFiniteSet(S)
    BY <1>1, <2>1, FS_Union
  <2>3. IsFiniteSet(T)
    BY <2>2, <2>5, FS_Surjection
  <2>4. dim.product = T \cup {Member(UnknownKey, Unknown)}
    BY <2>1 DEF ProductMembers
  <2> QED BY <2>3, <2>4, FS_AddElement
<1>5. IsFiniteSet(dim.channel)
  <2> DEFINE T == {[key |-> hash.channel[<<a.place, a.suite>>],
                    name |-> a.place, suite |-> a.suite] :
                      a \in stage.previous}
  <2>1. [a \in stage.previous |->
            [key |-> hash.channel[<<a.place, a.suite>>], name |-> a.place,
             suite |-> a.suite]] \in Surjection(stage.previous, T)
    BY DEF Surjection
  <2>2. IsFiniteSet(T)
    BY <1>1, <2>1, FS_Surjection
  <2>3. dim.channel = T \cup {[key |-> UnknownKey, name |-> UnknownPlace,
                               suite |-> Unknown]}
    BY DEF DimInv, LoanDims, ChannelMembers
  <2> QED BY <2>2, <2>3, FS_AddElement
<1>6. IsFiniteSet(dim.decision)
  <2> DEFINE T == {Member(hash.decision[a.decision], a.decision) :
                      a \in stage.previous}
  <2>1. [a \in stage.previous |-> Member(hash.decision[a.decision],
                                         a.decision)]
           \in Surjection(stage.previous, T)
    BY DEF Surjection
  <2>2. IsFiniteSet(T)
    BY <1>1, <2>1, FS_Surjection
  <2>3. dim.decision = T \cup {Member(UnknownKey, UnknownDecision)}
    BY DEF DimInv, LoanDims, DecisionMembers
  <2> QED BY <2>2, <2>3, FS_AddElement
<1> QED BY <1>2, <1>3, <1>4, <1>5, <1>6, FS_AddElement

\* The mart is finite: a row is determined by its application and members.
LEMMA MartFinite ==
  ASSUME BaseInv, DimInv, LoanInv, MartInv, "mart" \in done
  PROVE  IsFiniteSet(mart)
<1> DEFINE C == dim.customer \cup {NoMember}
           P == dim.product \cup {NoMember}
           H == dim.channel \cup {NoMember}
           D == dim.decision \cup {NoMember}
           Four == (C \X P) \X (H \X D)
           A == Applications(stage)
           members(x) == <<<<x.customer, x.product>>,
                           <<x.channel, x.decision>>>>
           loan == [f \in fact.loan |-> <<f.row, members(f)>>]
           row == [r \in mart |-> <<r.fact, members(r)>>]
<1>1. /\ LoanDims \subseteq done
      /\ \A f \in fact.loan : f.row \in A /\ LoanFits(f)
      /\ \A r \in mart : MartFits(r)
  BY DEF LoanInv, MartInv
<1>2. IsFiniteSet(A) /\ IsFiniteSet(Four)
  <2>1. /\ IsFiniteSet(A) /\ IsFiniteSet(C) /\ IsFiniteSet(P)
        /\ IsFiniteSet(H) /\ IsFiniteSet(D)
    BY <1>1, MembersFinite
  <2> HIDE DEF A, C, P, H, D
  <2>2. IsFiniteSet(C \X P) /\ IsFiniteSet(H \X D)
    BY <2>1, FS_Product
  <2> QED BY <2>1, <2>2, FS_Product
<1>3. IsFiniteSet(fact.loan)
  <2>1. ASSUME NEW f \in fact.loan PROVE loan[f] \in A \X Four
    <3>1. f.row \in A /\ LoanFits(f)
      BY <1>1
    <3>2. f.customer \in C /\ f.product \in P
      BY <3>1, LookupMember DEF LoanFits
    <3>3. f.channel \in H /\ f.decision \in D
      BY <3>1, LookupMember DEF LoanFits
    <3> QED BY <3>1, <3>2, <3>3
  <2>2. ASSUME NEW f \in fact.loan, NEW g \in fact.loan, loan[f] = loan[g]
        PROVE  f = g
    <3>1. LoanFits(f) /\ LoanFits(g)
      BY <1>1
    <3>2. /\ f.row = g.row
          /\ f.customer = g.customer /\ f.product = g.product
          /\ f.channel = g.channel /\ f.decision = g.decision
      BY <2>2
    <3> QED BY <3>1, <3>2 DEF LoanFits
  <2>3. loan \in Injection(fact.loan, A \X Four)
    BY <2>1, <2>2 DEF Injection, IsInjective
  <2>4. IsFiniteSet(A \X Four)
    BY <1>2, FS_Product
  <2> QED BY <2>3, <2>4, FS_Injection
<1>4. ASSUME NEW r \in mart PROVE row[r] \in fact.loan \X Four
  <2>1. MartFits(r)
    BY <1>1
  <2>2. r.customer \in C /\ r.product \in P
    BY <2>1, WithKeyMember DEF MartFits
  <2>3. r.channel \in H /\ r.decision \in D
    BY <2>1, WithKeyMember DEF MartFits
  <2> QED BY <2>1, <2>2, <2>3 DEF MartFits
<1>5. ASSUME NEW q \in mart, NEW r \in mart, row[q] = row[r] PROVE q = r
  <2>1. MartFits(q) /\ MartFits(r)
    BY <1>1
  <2>2. /\ q.fact = r.fact
        /\ q.customer = r.customer /\ q.product = r.product
        /\ q.channel = r.channel /\ q.decision = r.decision
    BY <1>5
  <2>3. PICK m : Latest(fact.balance, r.fact.row) = {m}
    BY LatestOne
  <2>4. q.latest = r.latest
    BY <2>1, <2>2, <2>3 DEF MartFits
  <2> QED BY <2>1, <2>2, <2>4 DEF MartFits
<1>6. row \in Injection(mart, fact.loan \X Four)
  BY <1>4, <1>5 DEF Injection, IsInjective
<1>7. IsFiniteSet(fact.loan \X Four)
  BY <1>2, <1>3, FS_Product
<1> QED BY <1>6, <1>7, FS_Injection

\* The sum of the gate over a stage table counts units,
LEMMA TotalCounts ==
  ASSUME NEW S, IsFiniteSet(S), NEW w,
         \A x \in S : w[x] \in Nat /\ w[x] = x.amount
  PROVE  Total(S) = Cardinality(Units(w, S))
<1> DEFINE one(s) == CHOOSE x \in s : TRUE
           g == [s \in SUBSET S |-> Cardinality(Units(w, s))]
           f == CHOOSE h : h = [s \in SUBSET S |->
                  IF s = {} THEN 0
                  ELSE (CHOOSE x \in s : TRUE).amount
                         + h[s \ {CHOOSE x \in s : TRUE}]]
<1>1. \A s \in SUBSET S : s # {} => w[one(s)] = one(s).amount
  OBVIOUS
<1>2. g = [s \in SUBSET S |->
             IF s = {} THEN 0 ELSE one(s).amount + g[s \ {one(s)}]]
  <2>1. SumsUp(g, w, S)
    BY UnitsSumUp, Zenon
  <2>2. g = [s \in SUBSET S |->
               IF s = {} THEN 0 ELSE w[one(s)] + g[s \ {one(s)}]]
    BY <2>1, Zenon DEF SumsUp
  <2> HIDE DEF g, one
  <2> QED BY <1>1, <2>2
<1>3. f = [s \in SUBSET S |->
             IF s = {} THEN 0 ELSE one(s).amount + f[s \ {one(s)}]]
  BY <1>2, Zenon
<1>4. Total(S) = f[S]
  BY Zenon DEF Total, MapThenSumSet, MapThenFoldSet
<1>5. SumsUp(f, w, S)
  <2>1. f = [s \in SUBSET S |->
               IF s = {} THEN 0 ELSE w[one(s)] + f[s \ {one(s)}]]
    <3> HIDE DEF f, one
    <3> QED BY <1>1, <1>3
  <2> QED BY <2>1, Zenon DEF SumsUp
<1>6. f[S] = Cardinality(Units(w, S))
  <2> HIDE DEF f
  <2> QED BY <1>5, SumIsCount
<1> QED BY <1>4, <1>6, Zenon

\* and so does the sum over the mart.
LEMMA MartTotalCounts ==
  ASSUME NEW S, IsFiniteSet(S), NEW w,
         \A x \in S : w[x] \in Nat /\ w[x] = x.fact.row.amount
  PROVE  MartTotal(S) = Cardinality(Units(w, S))
<1> DEFINE one(s) == CHOOSE x \in s : TRUE
           g == [s \in SUBSET S |-> Cardinality(Units(w, s))]
           f == CHOOSE h : h = [s \in SUBSET S |->
                  IF s = {} THEN 0
                  ELSE (CHOOSE x \in s : TRUE).fact.row.amount
                         + h[s \ {CHOOSE x \in s : TRUE}]]
<1>1. \A s \in SUBSET S : s # {} => w[one(s)] = one(s).fact.row.amount
  OBVIOUS
<1>2. g = [s \in SUBSET S |->
             IF s = {} THEN 0 ELSE one(s).fact.row.amount + g[s \ {one(s)}]]
  <2>1. SumsUp(g, w, S)
    BY UnitsSumUp, Zenon
  <2>2. g = [s \in SUBSET S |->
               IF s = {} THEN 0 ELSE w[one(s)] + g[s \ {one(s)}]]
    BY <2>1, Zenon DEF SumsUp
  <2> HIDE DEF g, one
  <2> QED BY <1>1, <2>2
<1>3. f = [s \in SUBSET S |->
             IF s = {} THEN 0 ELSE one(s).fact.row.amount + f[s \ {one(s)}]]
  BY <1>2, Zenon
<1>4. MartTotal(S) = f[S]
  BY Zenon DEF MartTotal, MapThenSumSet, MapThenFoldSet
<1>5. SumsUp(f, w, S)
  <2>1. f = [s \in SUBSET S |->
               IF s = {} THEN 0 ELSE w[one(s)] + f[s \ {one(s)}]]
    <3> HIDE DEF f, one
    <3> QED BY <1>1, <1>3
  <2> QED BY <2>1, Zenon DEF SumsUp
<1>6. f[S] = Cardinality(Units(w, S))
  <2> HIDE DEF f
  <2> QED BY <1>5, SumIsCount
<1> QED BY <1>4, <1>6, Zenon

\* Rows that hold every application of a stage table weigh as much as it.
LEMMA TableWeighs ==
  ASSUME NEW kind, NEW S \in SUBSET CurrentRows, NEW B, IsFiniteSet(B), NEW w,
         \A r \in B : w[r] \in Nat /\ w[r] = r.fact.row.amount,
         \A a \in S : \E r \in B : r.fact.row = Current(kind, a)
  PROVE  Total(S) \in Nat /\ Total(S) <= Cardinality(Units(w, B))
<1> DEFINE v == [a \in S |-> a.amount]
           h == [a \in S |-> CHOOSE r \in B : r.fact.row = Current(kind, a)]
<1>1. ASSUME NEW a \in S PROVE h[a] \in B /\ h[a].fact.row = Current(kind, a)
  OBVIOUS
<1>2. ASSUME NEW a \in S, NEW b \in S, h[a] = h[b] PROVE a = b
  <2>1. Current(kind, a) = Current(kind, b)
    BY <1>1, <1>2
  <2>2. a.id = b.id /\ a.product = b.product /\ a.amount = b.amount
    BY <2>1 DEF Current
  <2> QED BY <2>2 DEF CurrentRows
<1>3. h \in Injection(S, B)
  BY <1>1, <1>2 DEF Injection, IsInjective
<1>4. \A a \in S : v[a] \in Nat /\ v[a] = a.amount
  BY DEF CurrentRows
<1>5. \A a \in S : v[a] = w[h[a]]
  <2>1. ASSUME NEW a \in S PROVE a.amount = w[h[a]]
    <3>1. h[a] \in B /\ h[a].fact.row.amount = a.amount
      BY <1>1 DEF Current
    <3> QED BY <3>1
  <2> QED BY <2>1
<1> HIDE DEF h, v
<1>6. IsFiniteSet(S) /\ Cardinality(Units(v, S)) <= Cardinality(Units(w, B))
  BY <1>3, <1>5, UnitsImage
<1>7. Total(S) = Cardinality(Units(v, S)) /\ Cardinality(Units(v, S)) \in Nat
  BY <1>4, <1>6, TotalCounts, UnitsFinite
<1> QED BY <1>6, <1>7

\* The sum of a stage table is at least the amount of each of its rows.
LEMMA TotalBounds ==
  ASSUME NEW S \in SUBSET CurrentRows, IsFiniteSet(S), NEW a \in S
  PROVE  Total(S) \in Nat /\ a.amount <= Total(S)
<1> DEFINE v == [b \in S |-> b.amount]
<1>1. \A b \in S : v[b] \in Nat /\ v[b] = b.amount
  BY DEF CurrentRows
<1> HIDE DEF v
<1>2. Total(S) = Cardinality(Units(v, S)) /\ Cardinality(Units(v, S)) \in Nat
  BY <1>1, TotalCounts, UnitsFinite
<1>3. Cardinality(Units(v, {a})) = v[a]
  BY <1>1, UnitsOne
<1>4. Cardinality(Units(v, {a})) <= Cardinality(Units(v, S))
  BY <1>1, UnitsMonotone
<1> QED BY <1>1, <1>2, <1>3, <1>4

\* A row beyond one for every current application adds its amount to the sum
\* of the mart.
LEMMA CopyAdds ==
  ASSUME BaseInv, DimInv, LoanInv, MartInv, "mart" \in done,
         NEW q \in mart, NEW r \in mart, q # r, q.fact.row = r.fact.row,
         r.fact.row.kind # "previous"
  PROVE  /\ r.fact.row.amount \in Nat
         /\ Total(stage.train) \in Nat /\ Total(stage.test) \in Nat
         /\ MartCredit \in Nat
         /\ StageCredit + r.fact.row.amount <= MartCredit
<1> DEFINE M == CurrentOf(mart)
           w == [x \in M |-> x.fact.row.amount]
           B(kind) == {x \in M \ {r} : x.fact.row.kind = kind}
<1>1. /\ \A x \in mart : x.fact.row \in Applications(stage)
      /\ \A a \in Applications(stage) : \E x \in mart : x.fact.row = a
  BY DEF LoanInv, MartInv, MartFits
<1>2. stage \in StageLayers
  BY StageFinite
<1>3. ASSUME NEW x \in M
      PROVE  \/ \E a \in stage.train : x.fact.row = Current("train", a)
             \/ \E a \in stage.test : x.fact.row = Current("test", a)
  BY <1>1 DEF Applications, Previous, CurrentOf
<1>4. ASSUME NEW x \in M PROVE w[x] \in Nat /\ w[x] = x.fact.row.amount
  <2>1. stage.train \subseteq CurrentRows /\ stage.test \subseteq CurrentRows
    BY <1>2 DEF StageLayers
  <2>2. x.fact.row.amount \in Nat
    <3>1. ASSUME NEW kind, NEW a \in CurrentRows,
                 x.fact.row = Current(kind, a)
          PROVE  x.fact.row.amount \in Nat
      <4>1. x.fact.row.amount = a.amount
        BY <3>1 DEF Current
      <4> QED BY <4>1 DEF CurrentRows
    <3>2. CASE \E a \in stage.train : x.fact.row = Current("train", a)
      BY <2>1, <3>1, <3>2
    <3>3. CASE \E a \in stage.test : x.fact.row = Current("test", a)
      BY <2>1, <3>1, <3>3
    <3> QED BY <1>3, <3>2, <3>3
  <2> QED BY <2>2
<1>5. M \subseteq mart /\ q \in M /\ r \in M
  BY DEF CurrentOf
<1>6. IsFiniteSet(M) /\ IsFiniteSet(B("train")) /\ IsFiniteSet(B("test"))
  BY <1>5, MartFinite, FS_Subset
<1>7. ASSUME NEW kind \in {"train", "test"}, NEW a,
             Current(kind, a) \in Applications(stage)
      PROVE  \E x \in B(kind) : x.fact.row = Current(kind, a)
  <2>1. PICK x \in mart : x.fact.row = Current(kind, a)
    BY <1>1, <1>7
  <2>2. Current(kind, a).kind = kind /\ kind # "previous"
    BY DEF Current
  <2>3. CASE x # r
    BY <2>1, <2>2, <2>3 DEF CurrentOf
  <2>4. CASE x = r
    BY <2>1, <2>2, <2>4, <1>5
  <2> QED BY <2>3, <2>4
<1>8. /\ \A a \in stage.train : Current("train", a) \in Applications(stage)
      /\ \A a \in stage.test : Current("test", a) \in Applications(stage)
  BY DEF Applications
<1>9. /\ stage.train \in SUBSET CurrentRows
      /\ stage.test \in SUBSET CurrentRows
  BY <1>2 DEF StageLayers
<1>10. B("train") \cap B("test") = {}
  OBVIOUS
<1>11. /\ B("train") \subseteq M /\ B("test") \subseteq M
       /\ (B("train") \cup B("test")) \cap {r} = {}
  OBVIOUS
<1> DEFINE T1 == B("train")  T2 == B("test")
<1>12. /\ \A a \in stage.train :
             \E x \in T1 : x.fact.row = Current("train", a)
       /\ \A a \in stage.test : \E x \in T2 : x.fact.row = Current("test", a)
  BY <1>7, <1>8
<1> HIDE DEF w, B, M, T1, T2
<1>13. Total(stage.train) \in Nat
       /\ Total(stage.train) <= Cardinality(Units(w, T1))
  BY <1>4, <1>6, <1>9, <1>11, <1>12, TableWeighs DEF T1
<1>14. Total(stage.test) \in Nat
       /\ Total(stage.test) <= Cardinality(Units(w, T2))
  BY <1>4, <1>6, <1>9, <1>11, <1>12, TableWeighs DEF T2
<1>15. /\ IsFiniteSet(T1) /\ T1 \subseteq M
       /\ IsFiniteSet(T2) /\ T2 \subseteq M
       /\ T1 \cap T2 = {} /\ (T1 \cup T2) \cap {r} = {}
       /\ IsFiniteSet(T1 \cup T2) /\ IsFiniteSet({r})
  BY <1>6, <1>10, <1>11, FS_Union, FS_Singleton DEF T1, T2
<1>16. /\ Cardinality(Units(w, T1)) \in Nat
       /\ Cardinality(Units(w, T2)) \in Nat
       /\ Cardinality(Units(w, M)) \in Nat
       /\ w[r] \in Nat /\ w[r] = r.fact.row.amount
  BY <1>4, <1>5, <1>6, <1>15, UnitsFinite
<1>17. Cardinality(Units(w, T1 \cup T2))
         = Cardinality(Units(w, T1)) + Cardinality(Units(w, T2))
  BY <1>4, <1>15, UnitsAdd
<1>18. Cardinality(Units(w, (T1 \cup T2) \cup {r}))
         = Cardinality(Units(w, T1 \cup T2)) + Cardinality(Units(w, {r}))
  BY <1>4, <1>5, <1>15, UnitsAdd
<1>19. Cardinality(Units(w, {r})) = w[r]
  BY <1>16, UnitsOne
<1>20. Cardinality(Units(w, (T1 \cup T2) \cup {r}))
         <= Cardinality(Units(w, M))
  <2>1. (T1 \cup T2) \cup {r} \subseteq M
    BY <1>5, <1>15
  <2> QED BY <1>4, <1>6, <2>1, UnitsMonotone
<1>21. MartCredit = Cardinality(Units(w, M))
  BY <1>4, <1>6, MartTotalCounts DEF MartCredit, M
<1> QED
  BY <1>13, <1>14, <1>16, <1>17, <1>18, <1>19, <1>20, <1>21 DEF StageCredit

\* GateExposesCopies: a copy of an application whose amount is above the
\* tolerance moves the sum of the mart further than the gate allows, for all
\* amounts and whatever the joins have duplicated.
THEOREM CopiesExposed == Spec => []GateExposesCopies
<1>1. BaseInv /\ DimInv /\ LoanInv /\ MartInv /\ GateInv => GateExposesCopies
  <2> SUFFICES ASSUME BaseInv, DimInv, LoanInv, MartInv, GateInv,
                      gate = "passed", NEW a \in Applications(stage),
                      a.kind # "previous", a.amount * Scale > StageCredit
               PROVE  Cardinality({r \in mart : r.fact.row = a}) = 1
    BY DEF GateExposesCopies
  <2>1. "mart" \in done /\ Reconciles
    BY DEF GateInv
  <2>2. PICK r \in mart : r.fact.row = a
    BY <2>1 DEF LoanInv, MartInv
  <2>3. ASSUME NEW q \in mart, q.fact.row = a, q # r PROVE FALSE
    <3>1. /\ a.amount \in Nat /\ StageCredit \in Nat /\ MartCredit \in Nat
          /\ StageCredit + a.amount <= MartCredit
      BY <2>1, <2>2, <2>3, CopyAdds DEF StageCredit
    <3>2. a.amount <= StageCredit
      <4>1. \/ \E b \in stage.train : a = Current("train", b)
            \/ \E b \in stage.test : a = Current("test", b)
        BY DEF Applications, Previous
      <4>2. stage \in StageLayers
            /\ IsFiniteSet(stage.train) /\ IsFiniteSet(stage.test)
        BY StageFinite
      <4>3. Total(stage.train) \in Nat /\ Total(stage.test) \in Nat
        BY <2>1, <2>2, <2>3, CopyAdds
      <4>4. /\ stage.train \in SUBSET CurrentRows
            /\ stage.test \in SUBSET CurrentRows
        BY <4>2 DEF StageLayers
      <4>5. CASE \E b \in stage.train : a = Current("train", b)
        <5>1. PICK b \in stage.train : a = Current("train", b)
          BY <4>5
        <5>2. a.amount = b.amount
          BY <5>1 DEF Current
        <5>3. b.amount <= Total(stage.train)
          BY <4>2, <4>4, TotalBounds
        <5> QED BY <3>1, <4>3, <5>2, <5>3 DEF StageCredit
      <4>6. CASE \E b \in stage.test : a = Current("test", b)
        <5>1. PICK b \in stage.test : a = Current("test", b)
          BY <4>6
        <5>2. a.amount = b.amount
          BY <5>1 DEF Current
        <5>3. b.amount <= Total(stage.test)
          BY <4>2, <4>4, TotalBounds
        <5> QED BY <3>1, <4>3, <5>2, <5>3 DEF StageCredit
      <4> QED BY <4>1, <4>5, <4>6
    <3>3. Scale \in Nat
      BY BoundsAssumption
    <3>4. \A m, n, s \in Nat : m <= n => m * s <= n * s
      OBVIOUS
    <3>5. CASE StageCredit = 0
      <4>1. a.amount = 0
        BY <3>1, <3>2, <3>5
      <4>2. a.amount * Scale = 0
        BY <3>3, <4>1
      <4> QED BY <3>5, <4>2
    <3>6. CASE StageCredit > 0
      <4>1. Drift * Scale <= StageCredit
        BY <2>1, <3>6 DEF Reconciles
      <4>2. Drift \in Nat /\ a.amount <= Drift
        BY <3>1 DEF Drift
      <4>3. a.amount * Scale <= Drift * Scale
        BY <3>1, <3>3, <3>4, <4>2
      <4>4. a.amount * Scale \in Nat /\ Drift * Scale \in Nat
        BY <3>1, <3>3, <4>2
      <4> QED BY <3>1, <4>1, <4>3, <4>4
    <3> QED BY <3>1, <3>5, <3>6
  <2>4. {q \in mart : q.fact.row = a} = {r}
    BY <2>2, <2>3
  <2> QED BY <2>4, FS_Singleton, Zenon
<1> QED BY <1>1, BaseHolds, DimHolds, LoanHolds, MartHolds, GateHolds, PTL

=============================================================================
