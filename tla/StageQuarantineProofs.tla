------------------------ MODULE StageQuarantineProofs ------------------------
(***************************************************************************)
(* Proofs about StageQuarantine, for all jobs, finite landing tables and   *)
(* any number of batches and attempts: the types, that what an attempt     *)
(* stages and quarantines adds up to what was landed, and that the audit   *)
(* log agrees with the quarantine.                                         *)
(***************************************************************************)
EXTENDS StageQuarantine, FiniteSetTheorems, TLAPS

-----------------------------------------------------------------------------
(* Evaluations of the plan: two evaluations may keep other rows, but they  *)
(* keep as many.                                                           *)

\* The landed rows that clean_and_cast lets through.
Input == Kept(config, landing)

\* Every key of the input has one first row.
LEMMA FirstRow ==
  ASSUME NEW rows, NEW first \in Firsts(rows), NEW r \in rows
  PROVE  /\ first \subseteq rows
         /\ \E f \in first : {g \in first : g.key = r.key} = {f}
  BY DEF Firsts

\* Whether the primary key is NULL depends on the key only.
LEMMA NullKeyByKey ==
  ASSUME NEW conf, NEW r, NEW s, r.key = s.key
  PROVE  NullKey(conf, r) <=> NullKey(conf, s)
  BY DEF NullKey

\* A row is either clean or rejected.
LEMMA RejectedRest ==
  ASSUME NEW conf, NEW rows, NEW first \in Firsts(rows)
  PROVE  /\ Clean(conf, rows, first) \subseteq rows
         /\ Rejected(conf, rows, first) = rows \ Clean(conf, rows, first)
  BY DEF Firsts, Clean, Rejected

\* Any two evaluations find as many clean rows.
LEMMA SameClean ==
  ASSUME NEW conf, NEW rows, IsFiniteSet(rows),
         NEW f \in Firsts(rows), NEW g \in Firsts(rows)
  PROVE  Cardinality(Clean(conf, rows, f)) = Cardinality(Clean(conf, rows, g))
<1> DEFINE S == Clean(conf, rows, f)
           T == Clean(conf, rows, g)
           h == [r \in S |-> CHOOSE s \in T : s.key = r.key]
<1>1. S \subseteq rows /\ T \subseteq rows
  BY RejectedRest
<1>2. \A r \in S : \E s \in T : s.key = r.key
  <2> SUFFICES ASSUME NEW r \in S PROVE \E s \in T : s.key = r.key
    OBVIOUS
  <2>1. r \in rows /\ ~NullKey(conf, r)
    BY <1>1 DEF Clean
  <2>2. PICK s \in g : {q \in g : q.key = r.key} = {s}
    BY <2>1, FirstRow
  <2>3. s.key = r.key
    BY <2>2
  <2>4. ~NullKey(conf, s)
    BY <2>1, <2>3, NullKeyByKey
  <2> QED BY <2>3, <2>4 DEF Clean
<1>3. \A s \in T : \E r \in S : r.key = s.key
  <2> SUFFICES ASSUME NEW s \in T PROVE \E r \in S : r.key = s.key
    OBVIOUS
  <2>1. s \in rows /\ ~NullKey(conf, s)
    BY <1>1 DEF Clean
  <2>2. PICK r \in f : {q \in f : q.key = s.key} = {r}
    BY <2>1, FirstRow
  <2>3. r.key = s.key
    BY <2>2
  <2>4. ~NullKey(conf, r)
    BY <2>1, <2>3, NullKeyByKey
  <2> QED BY <2>3, <2>4 DEF Clean
<1>4. \A r, s \in S : r.key = s.key => r = s
  <2> SUFFICES ASSUME NEW r \in S, NEW s \in S, r.key = s.key PROVE r = s
    OBVIOUS
  <2>1. r \in f /\ s \in f /\ r \in rows
    BY <1>1 DEF Clean
  <2>2. PICK p \in f : {q \in f : q.key = r.key} = {p}
    BY <2>1, FirstRow
  <2> QED BY <2>1, <2>2
<1>5. \A r, s \in T : r.key = s.key => r = s
  <2> SUFFICES ASSUME NEW r \in T, NEW s \in T, r.key = s.key PROVE r = s
    OBVIOUS
  <2>1. r \in g /\ s \in g /\ r \in rows
    BY <1>1 DEF Clean
  <2>2. PICK p \in g : {q \in g : q.key = r.key} = {p}
    BY <2>1, FirstRow
  <2> QED BY <2>1, <2>2
<1> HIDE DEF S, T
<1>6. \A r \in S : h[r] \in T /\ h[r].key = r.key
  BY <1>2
<1>7. h \in [S -> T]
  BY <1>6
<1> HIDE DEF h
<1>8. \A r, s \in S : h[r] = h[s] => r = s
  BY <1>4, <1>6
<1>9. \A s \in T : \E r \in S : h[r] = s
  BY <1>3, <1>5, <1>6
<1>10. h \in Bijection(S, T)
  BY <1>7, <1>8, <1>9 DEF Bijection, Injection, Surjection, IsInjective
<1>11. ExistsBijection(S, T)
  BY <1>10 DEF ExistsBijection
<1>12. IsFiniteSet(S)
  BY <1>1, FS_Subset
<1>13. Cardinality(T) = Cardinality(S)
  BY <1>11, <1>12, FS_Bijection
<1> QED BY <1>13 DEF S, T

\* The number of rejected rows does not depend on the evaluation.
LEMMA SameRejected ==
  ASSUME NEW conf, NEW rows, IsFiniteSet(rows),
         NEW f \in Firsts(rows), NEW g \in Firsts(rows)
  PROVE  Cardinality(Rejected(conf, rows, f))
           = Cardinality(Rejected(conf, rows, g))
<1> DEFINE S == Clean(conf, rows, f)
           T == Clean(conf, rows, g)
<1>1. S \subseteq rows /\ T \subseteq rows
  BY RejectedRest
<1>2. Cardinality(S) = Cardinality(T)
  BY SameClean
<1>3. Rejected(conf, rows, f) = rows \ S /\ Rejected(conf, rows, g) = rows \ T
  BY RejectedRest
<1> HIDE DEF S, T
<1>4. /\ Cardinality(rows \ S) = Cardinality(rows) - Cardinality(rows \cap S)
      /\ Cardinality(rows \ T) = Cardinality(rows) - Cardinality(rows \cap T)
  BY FS_Difference
<1>5. rows \cap S = S /\ rows \cap T = T
  BY <1>1
<1> QED BY <1>2, <1>3, <1>4, <1>5

\* One key: at most one clean row, and the rejected rows of any evaluation
\* are as many as are missing.
LEMMA KeyConserved ==
  ASSUME NEW conf, NEW rows, IsFiniteSet(rows), NEW r \in rows,
         NEW f \in Firsts(rows), NEW g \in Firsts(rows)
  PROVE  LET clean == WithKey(Clean(conf, rows, f), r.key)
             out == WithKey(Rejected(conf, rows, g), r.key)
         IN  /\ Cardinality(clean) = IF NullKey(conf, r) THEN 0 ELSE 1
             /\ Cardinality(clean) + Cardinality(out)
                  = Cardinality(WithKey(rows, r.key))
<1> DEFINE clean == WithKey(Clean(conf, rows, f), r.key)
           out == WithKey(Rejected(conf, rows, g), r.key)
           all == WithKey(rows, r.key)
<1>1. IsFiniteSet(all) /\ Cardinality(all) \in Nat
  <2>1. all \in SUBSET rows
    BY DEF WithKey
  <2>2. IsFiniteSet(all)
    BY <2>1, FS_Subset
  <2> QED BY <2>2, FS_CardinalityType
<1>2. \A q \in all : NullKey(conf, q) <=> NullKey(conf, r)
  BY NullKeyByKey DEF WithKey
<1>3. CASE NullKey(conf, r)
  <2>1. clean = {}
    BY <1>3, NullKeyByKey DEF WithKey, Clean
  <2>2. out = all
    BY <1>2, <1>3 DEF WithKey, Rejected
  <2>3. Cardinality(clean) = 0
    BY <2>1, FS_EmptySet
  <2> QED BY <1>1, <1>3, <2>2, <2>3
<1>4. CASE ~NullKey(conf, r)
  <2>1. PICK p \in f : {q \in f : q.key = r.key} = {p}
    BY FirstRow
  <2>2. PICK s \in g : {q \in g : q.key = r.key} = {s}
    BY FirstRow
  <2>3. clean = {p}
    <3>1. ~NullKey(conf, p)
      BY <1>4, <2>1, NullKeyByKey
    <3> QED BY <2>1, <3>1 DEF WithKey, Clean
  <2>4. out = all \ {s}
    <3>1. \A q \in all : ~NullKey(conf, q)
      BY <1>2, <1>4
    <3>2. \A q \in all : q \in g <=> q = s
      BY <2>2 DEF WithKey
    <3> QED BY <3>1, <3>2 DEF WithKey, Rejected
  <2>5. s \in all
    <3>1. s \in rows /\ s.key = r.key
      BY <2>2, FirstRow
    <3> QED BY <3>1 DEF WithKey
  <2> HIDE DEF clean, out, all
  <2>6. Cardinality(clean) = 1
    BY <2>3, FS_Singleton
  <2>7. Cardinality(out) = Cardinality(all) - 1
    BY <1>1, <2>4, <2>5, FS_RemoveElement
  <2> QED BY <1>1, <1>4, <2>6, <2>7 DEF clean, out, all
<1> QED BY <1>3, <1>4

-----------------------------------------------------------------------------
(* Types.                                                                  *)

\* The input is a finite set of rows of the job.
LEMMA InputFinite ==
  ASSUME TypeOK
  PROVE  Input \subseteq Rows(config) /\ IsFiniteSet(Input)
<1>1. landing \subseteq Rows(config) /\ IsFiniteSet(landing)
  BY LandingsAssumption DEF TypeOK, config
<1>2. Input \in SUBSET landing
  BY DEF Input, Kept
<1> QED BY <1>1, <1>2, FS_Subset

\* Rejected rows are rows of the input, finitely many.
LEMMA RejectedFinite ==
  ASSUME TypeOK, NEW first \in Firsts(Input)
  PROVE  /\ Rejected(config, Input, first) \subseteq Rows(config)
         /\ Cardinality(Rejected(config, Input, first)) \in Nat
<1>1. Rejected(config, Input, first) \in SUBSET Input
  BY DEF Rejected
<1>2. IsFiniteSet(Rejected(config, Input, first))
  BY <1>1, InputFinite, FS_Subset
<1> QED BY <1>1, <1>2, InputFinite, FS_CardinalityType

\* Clean rows have their key.
LEMMA CleanHasKey ==
  ASSUME TypeOK, NEW first \in Firsts(Input)
  PROVE  Clean(config, Input, first)
           \subseteq {r \in Rows(config) : HasKey(config, r)}
<1>1. \A r \in Clean(config, Input, first) : r \in Input /\ ~NullKey(config, r)
  BY RejectedRest DEF Clean
<1>2. \A r \in Input : \A col \in config.required : r.key[col] # Null
  BY DEF Input, Kept
<1> QED BY <1>1, <1>2, InputFinite DEF HasKey, NullKey

\* The types hold at the start.
LEMMA QuarantineTypeInit == Init => TypeOK
<1> SUFFICES ASSUME Init PROVE TypeOK
  OBVIOUS
<1> USE DEF Init
<1>1. job \in Jobs /\ landing \in Landings[job] /\ batch \in Batches
  OBVIOUS
<1>2. stage = {} /\ quarantine \in [Batches -> SUBSET Rows(config)]
  OBVIOUS
<1>3. /\ pc \in Points /\ rejected \in Nat /\ routed \in Outcomes
      /\ status \in {"FAILED", "SUCCESS"}
  BY DEF Points, Outcomes
<1>4. last \in [Batches -> [status : {"none", "running", "FAILED", "SUCCESS"},
                            rejected : Nat, routed : Outcomes]]
  BY DEF NoReport, Report, Outcomes
<1>5. starts \in 0..MaxStarts
  BY StartsAssumption
<1> QED BY <1>1, <1>2, <1>3, <1>4, <1>5 DEF TypeOK

\* Every step keeps the types, one case per action.
LEMMA QuarantineTypeStep == TypeOK /\ [Next]_vars => TypeOK'
<1> SUFFICES ASSUME TypeOK, [Next]_vars PROVE TypeOK'
  OBVIOUS
<1> USE DEF attempt, Points, Outcomes
<1>0. job' = job /\ config' = config
  BY DEF Next, vars, Ingest, Start, Extract, Count, Route, RouteFails, Delete,
         Write, Register, Fail, Audit, Crash, config
<1>1. CASE Ingest
  BY <1>0, <1>1 DEF TypeOK, Ingest
<1>2. ASSUME NEW b \in Batches, Start(b) PROVE TypeOK'
  <2>1. last' \in [Batches ->
                     [status : {"none", "running", "FAILED", "SUCCESS"},
                      rejected : Nat, routed : Outcomes]]
    BY <1>2 DEF TypeOK, Start, Report
  <2>2. starts' \in 0..MaxStarts
    BY <1>2, StartsAssumption DEF TypeOK, Start
  <2> QED BY <1>0, <1>2, <2>1, <2>2 DEF TypeOK, Start
<1>3. CASE Extract
  BY <1>0, <1>3 DEF TypeOK, Extract
<1>4. CASE Count
  <2>1. rejected' \in Nat
    <3>1. PICK first \in Firsts(Input) :
             rejected' = Cardinality(Rejected(config, Input, first))
      BY <1>4 DEF Count, Input
    <3> QED BY <3>1, RejectedFinite
  <2>2. routed' \in Outcomes /\ pc' \in Points
    BY <1>4 DEF TypeOK, Count
  <2> QED BY <1>0, <1>4, <2>1, <2>2 DEF TypeOK, Count
<1>5. CASE Route
  <2>1. PICK first \in Firsts(Input) :
           quarantine' = Overwritten(quarantine, batch,
                                     Rejected(config, Input, first))
    BY <1>5 DEF Route, Input
  <2>2. quarantine' \in [Batches -> SUBSET Rows(config)]
    BY <2>1, RejectedFinite DEF TypeOK, Overwritten
  <2> QED BY <1>0, <1>5, <2>2 DEF TypeOK, Route
<1>6. CASE RouteFails
  <2>1. quarantine' \in [Batches -> SUBSET Rows(config)]
    BY <1>6 DEF TypeOK, RouteFails, Overwritten
  <2> QED BY <1>0, <1>6, <2>1 DEF TypeOK, RouteFails
<1>7. CASE Delete
  BY <1>0, <1>7 DEF TypeOK, Delete
<1>8. CASE Write
  <2>1. PICK first \in Firsts(Input) : stage' = Clean(config, Input, first)
    BY <1>8 DEF Write, Input
  <2>2. stage' \subseteq {r \in Rows(config) : HasKey(config, r)}
    BY <2>1, CleanHasKey
  <2> QED BY <1>0, <1>8, <2>2 DEF TypeOK, Write
<1>9. CASE Register
  BY <1>0, <1>9 DEF TypeOK, Register
<1>10. CASE Fail
  BY <1>0, <1>10 DEF TypeOK, Fail
<1>11. CASE Audit
  <2>1. last' \in [Batches ->
                     [status : {"none", "running", "FAILED", "SUCCESS"},
                      rejected : Nat, routed : Outcomes]]
    BY <1>11 DEF TypeOK, Audit, Report
  <2> QED BY <1>0, <1>11, <2>1 DEF TypeOK, Audit
<1>12. CASE Crash
  <2>1. quarantine' \in [Batches -> SUBSET Rows(config)]
    BY <1>12 DEF TypeOK, Crash, Overwritten
  <2> QED BY <1>0, <1>12, <2>1 DEF TypeOK, Crash
<1>13. CASE UNCHANGED vars
  BY <1>0, <1>13 DEF TypeOK, vars
<1> QED BY <1>1, <1>2, <1>3, <1>4, <1>5, <1>6, <1>7, <1>8, <1>9, <1>10, <1>11,
           <1>12, <1>13 DEF Next

\* TypeOK: every row in the stage table has its key, for every stage job and
\* whatever its landing table holds.
THEOREM QuarantineTypeCorrect == Spec => []TypeOK
<1> QED BY QuarantineTypeInit, QuarantineTypeStep, PTL DEF Spec

-----------------------------------------------------------------------------
(* What the running attempt has done so far, point by point.               *)

\* rejected_count could be n.
IsCount(n) ==
    \E first \in Firsts(Input) :
        n = Cardinality(Rejected(config, Input, first))

\* rows could be what the stage table, or the slice, is written from.
IsClean(rows) == \E first \in Firsts(Input) : rows = Clean(config, Input, first)
IsRejected(rows) ==
    \E first \in Firsts(Input) : rows = Rejected(config, Input, first)

Routing == {"extract", "count", "route"}
Loading == {"delete", "write", "register"}

\* Where the attempt succeeds, its quarantine has ended.
StatusInv ==
    /\ pc \in Routing => routed = "pending"
    /\ pc \in Routing \cup Loading => status = "FAILED"
    /\ pc \in Loading \/ (pc = "audit" /\ status = "SUCCESS") =>
          routed # "pending"

\* The count, and the slice where it has been written.
SliceInv ==
    /\ pc = "route" => IsCount(rejected)
    /\ pc \in Loading \cup {"audit"} =>
          /\ routed = "nothing" => IsCount(0)
          /\ routed = "written" =>
                IsCount(rejected) /\ IsRejected(quarantine[batch])

\* The stage table, once it is written.
CleanInv ==
    pc = "register" \/ (pc = "audit" /\ status = "SUCCESS") => IsClean(stage)

\* A batch that is being run has not reported yet.
RunningInv == pc # "idle" => last[batch].status = "running"

IInv ==
    /\ TypeOK /\ StatusInv /\ SliceInv /\ CleanInv /\ RunningInv
    /\ AuditedRejects

\* The inductive invariant holds at the start.
LEMMA IInvInit == Init => IInv
<1> SUFFICES ASSUME Init PROVE IInv
  OBVIOUS
<1>1. TypeOK
  BY QuarantineTypeInit
<1>2. StatusInv /\ SliceInv /\ CleanInv /\ RunningInv
  BY DEF Init, StatusInv, SliceInv, CleanInv, RunningInv, Routing, Loading
<1>3. AuditedRejects
  BY DEF Init, AuditedRejects, NoReport, Report
<1> QED BY <1>1, <1>2, <1>3 DEF IInv

\* The predicates on an evaluation stay what they are while the landing table
\* does.
LEMMA SamePlan ==
  ASSUME UNCHANGED <<job, landing>>
  PROVE  /\ \A n : IsCount(n)' <=> IsCount(n)
         /\ IsClean(stage)' <=> IsClean(stage')
         /\ IsRejected(quarantine[batch])' <=> IsRejected(quarantine'[batch'])
  BY DEF IsCount, IsClean, IsRejected, Input, config

\* A step keeps the control part of the invariant.
LEMMA StatusStep == IInv /\ [Next]_vars => StatusInv' /\ RunningInv'
<1> SUFFICES ASSUME IInv, [Next]_vars PROVE StatusInv' /\ RunningInv'
  OBVIOUS
<1> USE DEF IInv, StatusInv, RunningInv, Routing, Loading, Points, attempt
<1>0. batch \in Batches /\ DOMAIN last = Batches
  BY DEF TypeOK
<1>1. CASE Ingest
  BY <1>1 DEF Ingest
<1>2. ASSUME NEW b \in Batches, Start(b) PROVE StatusInv' /\ RunningInv'
  BY <1>0, <1>2 DEF Start, Report
<1>3. CASE Extract
  BY <1>3 DEF Extract
<1>4. CASE Count
  BY <1>4 DEF Count
<1>5. CASE Route
  BY <1>5 DEF Route
<1>6. CASE RouteFails
  BY <1>6 DEF RouteFails
<1>7. CASE Delete
  BY <1>7 DEF Delete
<1>8. CASE Write
  BY <1>8 DEF Write
<1>9. CASE Register
  BY <1>9 DEF Register
<1>10. CASE Fail
  BY <1>10 DEF Fail
<1>11. CASE Audit
  BY <1>11 DEF Audit
<1>12. CASE Crash
  BY <1>12 DEF Crash
<1>13. CASE UNCHANGED vars
  BY <1>13 DEF vars
<1> QED BY <1>1, <1>2, <1>3, <1>4, <1>5, <1>6, <1>7, <1>8, <1>9, <1>10, <1>11,
           <1>12, <1>13 DEF Next

\* A step keeps what is known of the count, the slice and the stage table.
LEMMA PlanStep == IInv /\ [Next]_vars => SliceInv' /\ CleanInv'
<1> SUFFICES ASSUME IInv, [Next]_vars PROVE SliceInv' /\ CleanInv'
  OBVIOUS
<1> USE DEF IInv, SliceInv, CleanInv, StatusInv, Routing, Loading, attempt
<1>0. /\ batch \in Batches /\ DOMAIN quarantine = Batches
      /\ quarantine \in [Batches -> SUBSET Rows(config)]
  BY DEF TypeOK
<1>1. CASE Ingest
  BY <1>1 DEF Ingest
<1>2. ASSUME NEW b \in Batches, Start(b) PROVE SliceInv' /\ CleanInv'
  BY <1>2 DEF Start
<1>3. CASE Extract
  BY <1>3 DEF Extract
<1>4. CASE Count
  <2>1. UNCHANGED <<job, landing>>
    BY <1>4 DEF Count
  <2>2. IsCount(rejected')
    BY <1>4 DEF Count, IsCount, Input
  <2>3. IsCount(rejected)' <=> IsCount(rejected')
    BY <2>1, SamePlan DEF IsCount, Input, config
  <2>4. routed = "pending"
    BY <1>4 DEF Count
  <2>5. rejected' = 0 => IsCount(0)'
    BY <2>1, <2>2, SamePlan
  <2> QED BY <1>4, <2>2, <2>3, <2>4, <2>5 DEF Count
<1>5. CASE Route
  <2>1. UNCHANGED <<job, landing>>
    BY <1>5 DEF Route
  <2>2. PICK first \in Firsts(Input) :
           quarantine' = Overwritten(quarantine, batch,
                                     Rejected(config, Input, first))
    BY <1>5 DEF Route, Input
  <2>3. batch' = batch /\ quarantine'[batch] = Rejected(config, Input, first)
    BY <1>0, <1>5, <2>2 DEF Route, Overwritten
  <2>4. IsRejected(quarantine[batch])'
    BY <2>1, <2>3, SamePlan DEF IsRejected
  <2>5. IsCount(rejected)'
    <3>1. IsCount(rejected) /\ rejected' = rejected
      BY <1>5 DEF Route
    <3> QED BY <2>1, <3>1 DEF IsCount, Input, config
  <2> QED BY <1>5, <2>4, <2>5 DEF Route
<1>6. CASE RouteFails
  BY <1>6 DEF RouteFails
<1>7. CASE Delete
  BY <1>7 DEF Delete, IsCount, IsRejected, Input, config
<1>8. CASE Write
  <2>1. UNCHANGED <<job, landing>>
    BY <1>8 DEF Write
  <2>2. IsClean(stage')
    BY <1>8 DEF Write, IsClean, Input
  <2>3. IsClean(stage)'
    BY <2>1, <2>2, SamePlan
  <2>4. SliceInv'
    BY <1>8 DEF Write, IsCount, IsRejected, Input, config
  <2> QED BY <1>8, <2>3, <2>4 DEF Write
<1>9. CASE Register
  BY <1>9 DEF Register, IsCount, IsRejected, IsClean, Input, config
<1>10. CASE Fail
  <2>1. CASE pc = "extract"
    BY <1>10, <2>1 DEF Fail
  <2>2. CASE pc \in Loading
    BY <1>10, <2>2 DEF Fail, IsCount, IsRejected, IsClean, Input, config
  <2> QED BY <1>10, <2>1, <2>2 DEF Fail
<1>11. CASE Audit
  BY <1>11 DEF Audit
<1>12. CASE Crash
  BY <1>12 DEF Crash
<1>13. CASE UNCHANGED vars
  BY <1>13 DEF vars, IsCount, IsRejected, IsClean, Input, config
<1> QED BY <1>1, <1>2, <1>3, <1>4, <1>5, <1>6, <1>7, <1>8, <1>9, <1>10, <1>11,
           <1>12, <1>13 DEF Next

\* Count and slice come from evaluations of one plan.
LEMMA SliceCounted ==
  ASSUME TypeOK, IsCount(rejected), IsRejected(quarantine[batch])
  PROVE  Cardinality(quarantine[batch]) = rejected
<1>1. PICK f \in Firsts(Input) :
         rejected = Cardinality(Rejected(config, Input, f))
  BY DEF IsCount
<1>2. PICK g \in Firsts(Input) : quarantine[batch] = Rejected(config, Input, g)
  BY DEF IsRejected
<1> QED BY <1>1, <1>2, InputFinite, SameRejected

\* A step keeps the reports in agreement with the slices.
LEMMA ReportStep == IInv /\ [Next]_vars => AuditedRejects'
<1> SUFFICES ASSUME IInv, [Next]_vars,
                    NEW b \in Batches,
                    last'[b].status = "SUCCESS", last'[b].routed = "written"
             PROVE  Cardinality(quarantine'[b]) = last'[b].rejected
  BY DEF AuditedRejects
<1>0. /\ batch \in Batches /\ DOMAIN last = Batches
      /\ DOMAIN quarantine = Batches
  BY DEF IInv, TypeOK
<1> USE DEF attempt
\* Only the slice and the report of the running batch change.
<1>1. CASE last' = last /\ quarantine' = quarantine
  BY <1>1 DEF IInv, AuditedRejects
<1>2. CASE /\ last' = last /\ pc # "idle"
           /\ \E rows : quarantine' = Overwritten(quarantine, batch, rows)
  <2>1. last[batch].status = "running"
    BY <1>2 DEF IInv, RunningInv
  <2>2. b # batch
    BY <1>2, <2>1
  <2>3. quarantine'[b] = quarantine[b]
    BY <1>0, <1>2, <2>2 DEF Overwritten
  <2> QED BY <1>2, <2>3 DEF IInv, AuditedRejects
<1>3. ASSUME NEW d \in Batches, Start(d)
      PROVE  Cardinality(quarantine'[b]) = last'[b].rejected
  <2>1. b # d
    BY <1>0, <1>3 DEF Start, Report
  <2>2. last'[b] = last[b] /\ quarantine' = quarantine
    BY <1>0, <1>3, <2>1 DEF Start
  <2> QED BY <2>2 DEF IInv, AuditedRejects
<1>4. CASE Audit
  <2>1. quarantine' = quarantine
    BY <1>4 DEF Audit
  <2>2. CASE b # batch
    <3>1. last'[b] = last[b]
      BY <1>0, <1>4, <2>2 DEF Audit
    <3> QED BY <2>1, <3>1 DEF IInv, AuditedRejects
  <2>3. CASE b = batch
    <3>1. last'[b] = Report(status, rejected, routed)
      BY <1>0, <1>4, <2>3 DEF Audit
    <3>2. pc = "audit" /\ routed = "written"
      BY <1>4, <3>1 DEF Audit, Report
    <3>3. IsCount(rejected) /\ IsRejected(quarantine[batch])
      BY <3>2 DEF IInv, SliceInv
    <3>4. last'[b].rejected = rejected
      BY <3>1 DEF Report
    <3> QED BY <2>1, <2>3, <3>3, <3>4, SliceCounted DEF IInv
  <2> QED BY <2>2, <2>3
<1>5. CASE Ingest
  BY <1>1, <1>5 DEF Ingest
<1>6. CASE Extract \/ Count \/ Delete \/ Write \/ Register \/ Fail
  BY <1>1, <1>6 DEF Extract, Count, Delete, Write, Register, Fail
<1>7. CASE Route
  BY <1>2, <1>7 DEF Route
<1>8. CASE RouteFails
  BY <1>1, <1>2, <1>8 DEF RouteFails
<1>9. CASE Crash
  BY <1>1, <1>2, <1>9 DEF Crash
<1>10. CASE UNCHANGED vars
  BY <1>1, <1>10 DEF vars
<1> QED BY <1>3, <1>4, <1>5, <1>6, <1>7, <1>8, <1>9, <1>10 DEF Next

\* The inductive invariant.
LEMMA IInvHolds == Spec => []IInv
<1>1. IInv /\ [Next]_vars => IInv'
  BY QuarantineTypeStep, StatusStep, PlanStep, ReportStep DEF IInv
<1> QED BY <1>1, IInvInit, PTL DEF Spec

\* AuditedRejects: the reported number of rejects is the number of rows in the
\* slice, for every number of batches and attempts in any order.
THEOREM RejectsAudited == Spec => []AuditedRejects
<1>1. IInv => AuditedRejects
  BY DEF IInv
<1> QED BY <1>1, IInvHolds, PTL

\* Where no row is rejected, every row is clean in every evaluation.
LEMMA NothingRejected ==
  ASSUME TypeOK, IsCount(0), NEW g \in Firsts(Input)
  PROVE  Rejected(config, Input, g) = {}
<1>1. PICK f \in Firsts(Input) :
         Cardinality(Rejected(config, Input, f)) = 0
  BY DEF IsCount
<1>2. Cardinality(Rejected(config, Input, g)) = 0
  BY <1>1, InputFinite, SameRejected
<1>3. Rejected(config, Input, g) \in SUBSET Input
  BY DEF Rejected
<1>4. IsFiniteSet(Rejected(config, Input, g))
  BY <1>3, InputFinite, FS_Subset
<1> QED BY <1>2, <1>4, FS_EmptySet

\* RowsConserved: no landed row of any key is lost between the stage table and
\* the quarantine, nor counted twice.
THEOREM RowsAddUp == Spec => []RowsConserved
<1>1. IInv => RowsConserved
  <2> SUFFICES ASSUME IInv, pc = "audit", status = "SUCCESS",
                      routed # "swallowed"
               PROVE  /\ stage \cup Slice \subseteq Input
                      /\ \A r \in Input :
                            /\ Cardinality(WithKey(stage, r.key)) =
                                  IF NullKey(config, r) THEN 0 ELSE 1
                            /\ Cardinality(WithKey(stage, r.key))
                                 + Cardinality(WithKey(Slice, r.key))
                                  = Cardinality(WithKey(Input, r.key))
    BY DEF RowsConserved, Input
  <2>1. PICK f \in Firsts(Input) : stage = Clean(config, Input, f)
    BY DEF IInv, CleanInv, IsClean
  <2>2. PICK g \in Firsts(Input) : Slice = Rejected(config, Input, g)
    <3>1. CASE routed = "written"
      BY <3>1 DEF IInv, SliceInv, IsRejected, Slice
    <3>2. CASE routed = "nothing"
      <4>1. Slice = {}
        BY <3>2 DEF Slice
      <4>2. IsCount(0)
        BY <3>2 DEF IInv, SliceInv
      <4> QED BY <2>1, <4>1, <4>2, NothingRejected DEF IInv
    <3> QED BY <3>1, <3>2 DEF IInv, TypeOK, StatusInv, Outcomes
  <2>3. stage \cup Slice \subseteq Input
    BY <2>1, <2>2, RejectedRest
  <2>4. IsFiniteSet(Input)
    BY InputFinite DEF IInv
  <2> QED BY <2>1, <2>2, <2>3, <2>4, KeyConserved
<1> QED BY <1>1, IInvHolds, PTL

=============================================================================
