------------------------- MODULE SourceSeedingProofs -------------------------
(***************************************************************************)
(* Proofs about SourceSeeding, for any tables, files, threads and runs:    *)
(* the types and the bound of the pool, that what is reported as seeded is *)
(* in the table, and when an ingest lands all of it.                       *)
(***************************************************************************)
EXTENDS SourceSeeding, FiniteSetTheorems, TLAPS

USE BoundsAssumption

-----------------------------------------------------------------------------
(* Files. *)

\* A file that exists is a sequence of sets of times.
LEMMA FileTyped ==
  ASSUME csv \in Sources, NEW t \in Tables, csv[t] # NoFile
  PROVE  csv[t] \in Seq(SUBSET Times)
  BY SourcesAssumption, FilesAssumption

\* A chunk is a finite set of rows.
LEMMA ChunkFinite ==
  ASSUME NEW file \in Seq(SUBSET Times), NEW i \in 1..Len(file)
  PROVE  /\ Chunk(file, i) \subseteq Nat \X Times
         /\ IsFiniteSet(Chunk(file, i))
         /\ Cardinality(Chunk(file, i)) \in Nat
<1>1. file[i] \in SUBSET Times
  OBVIOUS
<1>2. IsFiniteSet(Times)
  BY FS_Interval DEF Times
<1>3. IsFiniteSet(file[i])
  BY <1>1, <1>2, FS_Subset
<1>4. IsFiniteSet({i})
  BY FS_Singleton
<1>5. IsFiniteSet({i} \X file[i])
  BY <1>3, <1>4, FS_Product
<1>6. Chunk(file, i) \subseteq Nat \X Times
  BY <1>1 DEF Chunk
<1>7. IsFiniteSet(Chunk(file, i))
  BY <1>5 DEF Chunk
<1> QED BY <1>6, <1>7, FS_CardinalityType

\* There are finitely many tables.
LEMMA TablesFinite == IsFiniteSet(Tables)
<1>1. DOMAIN TableConfigs = 1..Len(TableConfigs) /\ Len(TableConfigs) \in Nat
  BY ConfigsAssumption
<1>2. IsFiniteSet(DOMAIN TableConfigs)
  BY <1>1, FS_Interval
<1>3. TableConfigs \in Surjection(DOMAIN TableConfigs, Tables)
  BY ConfigsAssumption DEF Surjection, Tables
<1> QED BY <1>2, <1>3, FS_Surjection

-----------------------------------------------------------------------------
(* Types and the pool. *)

\* A worker that starts is one of those that are free; one that goes on or
\* ends makes none.
LEMMA PoolBound ==
  ASSUME Cardinality(Working) <= Threads, NEW t \in Tables,
         phase \in [Tables -> {"idle", "start", "copy", "done"}],
         NEW p, phase' = [phase EXCEPT ![t] = p],
         Cardinality(Working) < Threads \/ t \in Working
  PROVE  Cardinality(Working') <= Threads
<1>1. IsFiniteSet(Working) /\ Cardinality(Working) \in Nat
  <2>1. Working \in SUBSET Tables
    BY DEF Working
  <2>2. IsFiniteSet(Working)
    BY <2>1, TablesFinite, FS_Subset
  <2> QED BY <2>2, FS_CardinalityType
<1>2. Working' \in SUBSET (Working \cup {t})
  BY DEF Working
<1>3. /\ IsFiniteSet(Working \cup {t})
      /\ Cardinality(Working \cup {t}) =
            IF t \in Working THEN Cardinality(Working)
                             ELSE Cardinality(Working) + 1
  BY <1>1, FS_AddElement
<1>4. /\ IsFiniteSet(Working')
      /\ Cardinality(Working') <= Cardinality(Working \cup {t})
  BY <1>2, <1>3, FS_Subset
<1>5. Cardinality(Working') \in Nat /\ Cardinality(Working \cup {t}) \in Nat
  BY <1>3, <1>4, FS_CardinalityType
<1> QED BY <1>1, <1>3, <1>4, <1>5

\* Without a worker the pool is empty.
LEMMA PoolEmpty ==
  ASSUME \A t \in Tables : phase[t] = "idle"
  PROVE  Cardinality(Working) <= Threads
<1>1. Working = {}
  BY DEF Working
<1> QED BY <1>1, FS_EmptySet

\* The types without the bound of the pool.
VarTypes ==
    /\ csv \in Sources
    /\ exists \subseteq Tables
    /\ db \in [Tables -> SUBSET (Nat \X (Nat \X Times))]
    /\ script \in {"off", "running", "ended", "killed"}
    /\ targets \subseteq Tables
    /\ phase \in [Tables -> {"idle", "start", "copy", "done"}]
    /\ copied \in [Tables -> Nat] /\ total \in [Tables -> Nat]
    /\ results \in [Tables -> Nat \cup {Pending, Failed}]
    /\ runs \in 0..MaxRuns
    /\ landed \in [Tables -> SUBSET (Nat \X Times)]
    /\ wm \in [Tables -> 0..Now]
    /\ read \in [Tables -> {"nothing", "part", "all"}]
    /\ early \in [Tables -> BOOLEAN]

\* A table that is being filled has a file.
FileInv == \A t \in Tables : phase[t] = "copy" => csv[t] # NoFile

TypeInv == VarTypes /\ FileInv /\ Cardinality(Working) <= Threads

\* The initial state has the types.
LEMMA SeedingTypeInit == Init => TypeInv
<1> SUFFICES ASSUME Init PROVE TypeInv
  OBVIOUS
<1>1. Cardinality(Working) <= Threads
  BY PoolEmpty DEF Init
<1>2. VarTypes
  BY DEF Init, VarTypes, Pending, NoTime, Now
<1>3. FileInv
  BY DEF Init, FileInv
<1> QED BY <1>1, <1>2, <1>3 DEF TypeInv

\* What an ingest lands are rows.
LEMMA LandedRows ==
  ASSUME VarTypes, NEW t \in Tables
  PROVE  Landed(t) \in SUBSET (Nat \X Times)
<1>1. Content(db[t]) \subseteq Nat \X Times
  BY DEF VarTypes, Content
<1>2. \A f : Found(t, f) \subseteq Nat \X Times
  BY <1>1 DEF Found
<1> QED BY <1>2 DEF VarTypes, Landed

\* Every step keeps the types, one case per action.
LEMMA VarTypesStep == VarTypes /\ FileInv /\ [Next]_vars => VarTypes'
<1> SUFFICES ASSUME VarTypes, FileInv, [Next]_vars PROVE VarTypes'
  OBVIOUS
<1> USE DEF sourceVars, seedVars, pipelineVars, Pending, Failed
<1>1. ASSUME NEW selected \in SUBSET Tables, Begin(selected)
      PROVE  VarTypes'
  BY <1>1 DEF VarTypes, Begin
<1>2. ASSUME NEW t \in Tables, Take(t) PROVE VarTypes'
  BY <1>2 DEF VarTypes, Take
<1>3. ASSUME NEW t \in Tables, Skip(t) PROVE VarTypes'
  BY <1>3 DEF VarTypes, Skip, Return
<1>4. ASSUME NEW t \in Tables, Recreate(t) PROVE VarTypes'
  BY <1>4 DEF VarTypes, Recreate
<1>5. ASSUME NEW t \in Tables, Copy(t) PROVE VarTypes'
  <2>0. csv[t] # NoFile
    BY <1>5 DEF FileInv, Copy
  <2> DEFINE chunk == Chunk(csv[t], copied[t] + 1)
  <2>1. chunk \subseteq Nat \X Times /\ Cardinality(chunk) \in Nat
    BY <1>5, <2>0, FileTyped, ChunkFinite DEF VarTypes, Copy, Chunks
  <2>2. /\ db' = [db EXCEPT ![t] = @ \cup ({runs} \X chunk)]
        /\ total' = [total EXCEPT ![t] = @ + Cardinality(chunk)]
    BY <1>5 DEF Copy
  <2> HIDE DEF chunk
  <2>3. runs \in Nat
    BY DEF VarTypes
  <2>4. db' \in [Tables -> SUBSET (Nat \X (Nat \X Times))]
    BY <2>1, <2>2, <2>3 DEF VarTypes
  <2>5. total' \in [Tables -> Nat]
    BY <2>1, <2>2 DEF VarTypes
  <2> QED BY <1>5, <2>4, <2>5 DEF VarTypes, Copy
<1>6. ASSUME NEW t \in Tables, Index(t) PROVE VarTypes'
  BY <1>6 DEF VarTypes, Index, Return
<1>7. ASSUME NEW t \in Tables, Raise(t) PROVE VarTypes'
  BY <1>7 DEF VarTypes, Raise, Return
<1>8. ASSUME NEW t \in Tables, Ingest(t) PROVE VarTypes'
  <2>1. landed' \in [Tables -> SUBSET (Nat \X Times)]
    BY <1>8, LandedRows DEF VarTypes, Ingest
  <2>2. wm' \in [Tables -> 0..Now]
    <3>1. PICK w \in Times \cup {Now} : wm' = [wm EXCEPT ![t] = w]
      BY <1>8 DEF Ingest
    <3>2. w \in 0..Now
      BY <3>1 DEF Times, Now
    <3> QED BY <3>1, <3>2 DEF VarTypes
  <2>3. read' \in [Tables -> {"nothing", "part", "all"}]
    BY <1>8 DEF VarTypes, Ingest
  <2>4. early' \in [Tables -> BOOLEAN]
    BY <1>8, Zenon DEF VarTypes, Ingest
  <2> QED BY <1>8, <2>1, <2>2, <2>3, <2>4 DEF VarTypes, Ingest
<1>9. ASSUME NEW t \in Tables, Stage(t) PROVE VarTypes'
  <2>1. Now \in 0..Now
    BY DEF Now
  <2> QED BY <1>9, <2>1 DEF VarTypes, Stage
<1>10. CASE Finish
  BY <1>10 DEF VarTypes, Finish
<1>11. CASE Kill
  BY <1>11 DEF VarTypes, Kill
<1>12. CASE UNCHANGED vars
  BY <1>12 DEF VarTypes, vars
<1> QED BY <1>1, <1>2, <1>3, <1>4, <1>5, <1>6, <1>7, <1>8, <1>9, <1>10, <1>11,
           <1>12 DEF Next

\* Every step keeps the bound of the pool, and only files are copied.
LEMMA PoolStep ==
  TypeInv /\ [Next]_vars => FileInv' /\ Cardinality(Working') <= Threads
<1> SUFFICES ASSUME TypeInv, [Next]_vars
             PROVE  FileInv' /\ Cardinality(Working') <= Threads
  OBVIOUS
<1> USE DEF sourceVars, seedVars, pipelineVars
<1>0. /\ phase \in [Tables -> {"idle", "start", "copy", "done"}]
      /\ FileInv /\ Cardinality(Working) <= Threads
  BY DEF TypeInv, VarTypes
<1>1. CASE UNCHANGED <<csv, phase>>
  <2>1. Working' = Working
    BY <1>1 DEF Working
  <2> QED BY <1>0, <1>1, <2>1 DEF FileInv
<1>2. ASSUME NEW selected \in SUBSET Tables, Begin(selected)
      PROVE  FileInv' /\ Cardinality(Working') <= Threads
  <2>1. phase' = [t \in Tables |-> "idle"]
    BY <1>2 DEF Begin
  <2>2. Working' = {}
    BY <2>1 DEF Working
  <2> QED BY <2>1, <2>2, FS_EmptySet DEF FileInv
<1>3. ASSUME NEW t \in Tables, NEW p, UNCHANGED csv,
             phase' = [phase EXCEPT ![t] = p],
             Cardinality(Working) < Threads \/ t \in Working,
             p = "copy" => csv[t] # NoFile
      PROVE  FileInv' /\ Cardinality(Working') <= Threads
  <2>1. Cardinality(Working') <= Threads
    BY <1>0, <1>3, PoolBound
  <2> QED BY <1>0, <1>3, <2>1 DEF FileInv
<1>4. ASSUME NEW t \in Tables, Take(t)
      PROVE  FileInv' /\ Cardinality(Working') <= Threads
  <2>1. phase' = [phase EXCEPT ![t] = "start"] /\ UNCHANGED csv
    BY <1>4 DEF Take
  <2>2. Cardinality(Working) < Threads
    BY <1>4 DEF Take
  <2> QED BY <1>3, <2>1, <2>2
<1>5. ASSUME NEW t \in Tables, Skip(t) \/ Index(t) \/ Raise(t)
      PROVE  FileInv' /\ Cardinality(Working') <= Threads
  <2>1. phase' = [phase EXCEPT ![t] = "done"] /\ UNCHANGED csv
    BY <1>5 DEF Skip, Index, Raise, Return
  <2>2. t \in Working
    BY <1>5 DEF Skip, Index, Raise, Working
  <2> QED BY <1>3, <2>1, <2>2
<1>6. ASSUME NEW t \in Tables, Recreate(t)
      PROVE  FileInv' /\ Cardinality(Working') <= Threads
  <2>1. phase' = [phase EXCEPT ![t] = "copy"] /\ UNCHANGED csv
    BY <1>6 DEF Recreate
  <2>2. t \in Working /\ csv[t] # NoFile
    BY <1>6 DEF Recreate, Working
  <2> QED BY <1>3, <2>1, <2>2
<1>7. ASSUME NEW t \in Tables, Copy(t) \/ Ingest(t) \/ Stage(t)
      PROVE  FileInv' /\ Cardinality(Working') <= Threads
  BY <1>1, <1>7 DEF Copy, Ingest, Stage
<1>8. CASE Finish \/ Kill
  BY <1>1, <1>8 DEF Finish, Kill
<1>9. CASE UNCHANGED vars
  BY <1>1, <1>9 DEF vars
<1> QED BY <1>2, <1>4, <1>5, <1>6, <1>7, <1>8, <1>9 DEF Next

\* The types and what they need.
LEMMA TypeInvHolds == Spec => []TypeInv
<1>1. TypeInv /\ [Next]_vars => TypeInv'
  BY VarTypesStep, PoolStep DEF TypeInv
<1> QED BY <1>1, SeedingTypeInit, PTL DEF Spec

\* TypeOK: the pool never works on more tables than it has threads, for any
\* number of tables, threads, failures and runs.
THEOREM SeedingTypeCorrect == Spec => []TypeOK
<1>1. TypeInv => TypeOK
  BY DEF TypeInv, VarTypes, TypeOK
<1> QED BY <1>1, TypeInvHolds, PTL

-----------------------------------------------------------------------------
(* What an ingest lands. *)

\* An incremental table of which no ingest has found a part is landed once it
\* has a watermark; a table that is loaded in full, after an ingest that has
\* found all of it.
LandInv ==
    \A t \in Tables :
        /\ read[t] # "nothing" => wm[t] # NoTime
        /\ Incremental(t) /\ ~early[t] /\ wm[t] # NoTime =>
              RowsOf(csv[t]) \subseteq landed[t]
        /\ ~Incremental(t) /\ read[t] = "all" =>
              RowsOf(csv[t]) \subseteq landed[t]

\* An ingest of the whole table, on top of what is landed already.
LEMMA WholeLands ==
  ASSUME NEW t \in Tables, Whole(t),
         Incremental(t) /\ wm[t] # NoTime => RowsOf(csv[t]) \subseteq landed[t]
  PROVE  RowsOf(csv[t]) \subseteq Landed(t)
<1>1. CASE First(t)
  BY <1>1 DEF Landed, Found, Whole
<1>2. CASE ~First(t)
  BY <1>2 DEF Landed, First
<1> QED BY <1>1, <1>2

\* A step keeps LandInv; only ingests and stage jobs have a part in it.
LEMMA LandStep == TypeInv /\ LandInv /\ [Next]_vars => LandInv'
<1> SUFFICES ASSUME TypeInv, LandInv, [Next]_vars PROVE LandInv'
  OBVIOUS
<1> USE DEF sourceVars, seedVars, pipelineVars
<1>0. /\ DOMAIN landed = Tables /\ DOMAIN wm = Tables
      /\ DOMAIN read = Tables /\ DOMAIN early = Tables
  BY DEF TypeInv, VarTypes
<1>1. CASE UNCHANGED <<csv, landed, wm, read, early>>
  BY <1>1 DEF LandInv
<1>2. ASSUME NEW t \in Tables, Ingest(t) PROVE LandInv'
  <2>1. /\ csv' = csv
        /\ landed' = [landed EXCEPT ![t] = Landed(t)]
        /\ read' = [read EXCEPT ![t] = IF Whole(t) THEN "all" ELSE "part"]
        /\ early' = [early EXCEPT ![t] = @ \/ ~Whole(t)]
    BY <1>2 DEF Ingest
  <2>2. PICK w \in Times \cup {Now} : wm' = [wm EXCEPT ![t] = w]
    BY <1>2 DEF Ingest
  <2>3. w # NoTime
    BY DEF Times, Now, NoTime
  <2> SUFFICES ASSUME NEW u \in Tables
        PROVE  /\ read'[u] # "nothing" => wm'[u] # NoTime
               /\ Incremental(u) /\ ~early'[u] /\ wm'[u] # NoTime =>
                     RowsOf(csv[u]) \subseteq landed'[u]
               /\ ~Incremental(u) /\ read'[u] = "all" =>
                     RowsOf(csv[u]) \subseteq landed'[u]
    BY <2>1 DEF LandInv
  <2>4. CASE u # t
    <3>1. /\ landed'[u] = landed[u] /\ read'[u] = read[u]
          /\ early'[u] = early[u] /\ wm'[u] = wm[u]
      BY <1>0, <2>1, <2>2, <2>4
    <3> QED BY <3>1 DEF LandInv
  <2>5. CASE u = t
    <3>1. /\ landed'[u] = Landed(t) /\ wm'[u] = w
          /\ read'[u] = IF Whole(t) THEN "all" ELSE "part"
      BY <1>0, <2>1, <2>2, <2>5
    <3>2. early'[u] <=> early[t] \/ ~Whole(t)
      BY <1>0, <2>1, <2>5, Zenon
    <3>3. CASE Whole(t) /\ (Incremental(t) => ~early[t])
      <4>1. RowsOf(csv[u]) \subseteq landed'[u]
        BY <2>5, <3>1, <3>3, WholeLands DEF LandInv
      <4> QED BY <2>3, <3>1, <4>1
    <3>4. CASE ~Whole(t)
      BY <2>3, <2>5, <3>1, <3>2, <3>4
    <3>5. CASE Incremental(t) /\ early[t]
      BY <2>3, <2>5, <3>1, <3>2, <3>5
    <3> QED BY <3>3, <3>4, <3>5
  <2> QED BY <2>4, <2>5
<1>3. ASSUME NEW t \in Tables, Stage(t) PROVE LandInv'
  <2>1. /\ wm[t] # NoTime /\ wm' = [wm EXCEPT ![t] = Now]
        /\ UNCHANGED <<csv, landed, read, early>>
    BY <1>3 DEF Stage
  <2>2. \A u \in Tables : wm'[u] # NoTime <=> wm[u] # NoTime
    BY <1>0, <2>1 DEF Now, NoTime
  <2> QED BY <2>1, <2>2 DEF LandInv
<1>4. ASSUME NEW t \in Tables,
             Take(t) \/ Skip(t) \/ Recreate(t) \/ Copy(t) \/ Index(t) \/ Raise(t)
      PROVE  LandInv'
  BY <1>1, <1>4 DEF Take, Skip, Recreate, Copy, Index, Raise
<1>5. ASSUME NEW selected \in SUBSET Tables, Begin(selected) PROVE LandInv'
  BY <1>1, <1>5 DEF Begin
<1>6. CASE Finish \/ Kill
  BY <1>1, <1>6 DEF Finish, Kill
<1>7. CASE UNCHANGED vars
  BY <1>1, <1>7 DEF vars
<1> QED BY <1>2, <1>3, <1>4, <1>5, <1>6, <1>7 DEF Next

\* LandedAfterSeed: ingests that overlap the seeding are the only way to lose
\* rows of the files, for all files and any times in them.
THEOREM SeedLanded == Spec => []LandedAfterSeed
<1>1. Init => LandInv
  BY DEF Init, LandInv
<1>2. LandInv => LandedAfterSeed
  BY DEF LandInv, LandedAfterSeed
<1> QED BY <1>1, <1>2, LandStep, TypeInvHolds, PTL DEF Spec

-----------------------------------------------------------------------------
(* What is reported. *)

\* The rows of the first n chunks.
Prefix(file, n) == UNION {Chunk(file, i) : i \in 1..n}

\* A further chunk has no row of those before it.
LEMMA PrefixGrows ==
  ASSUME NEW file \in Seq(SUBSET Times), NEW n \in Nat, n + 1 \in 1..Len(file)
  PROVE  /\ Prefix(file, n + 1) = Prefix(file, n) \cup Chunk(file, n + 1)
         /\ Prefix(file, n) \cap Chunk(file, n + 1) = {}
<1>1. 1..(n + 1) = 1..n \cup {n + 1}
  OBVIOUS
<1>2. Prefix(file, n + 1) = Prefix(file, n) \cup Chunk(file, n + 1)
  BY <1>1 DEF Prefix
<1>3. ASSUME NEW r \in Prefix(file, n), r \in Chunk(file, n + 1) PROVE FALSE
  <2>1. PICK i \in 1..n : r \in Chunk(file, i)
    BY DEF Prefix
  <2>2. r[1] = i
    BY <2>1 DEF Chunk
  <2>3. r[1] = n + 1
    BY <1>3 DEF Chunk
  <2> QED BY <2>2, <2>3
<1> QED BY <1>2, <1>3

\* The chunks of a file are its rows, and before the first there is none.
LEMMA PrefixEnds ==
  ASSUME NEW file \in Seq(SUBSET Times)
  PROVE  Prefix(file, Len(file)) = RowsOf(file) /\ Prefix(file, 0) = {}
<1>1. DOMAIN file = 1..Len(file)
  OBVIOUS
<1>2. 1..0 = {}
  OBVIOUS
<1> QED BY <1>1, <1>2 DEF Prefix, RowsOf

\* The rows as run n copies them.
Tagged(n, rows) == {n} \X rows

\* Adding the rows of another chunk adds their number.
LEMMA ChunkCounted ==
  ASSUME NEW n, NEW S, NEW C, IsFiniteSet(Tagged(n, S)), IsFiniteSet(C),
         S \cap C = {}
  PROVE  /\ IsFiniteSet(Tagged(n, S) \cup Tagged(n, C))
         /\ Cardinality(Tagged(n, S) \cup Tagged(n, C))
              = Cardinality(Tagged(n, S)) + Cardinality(C)
<1>1. IsFiniteSet({n}) /\ Cardinality({n}) = 1
  BY FS_Singleton
<1>2. /\ IsFiniteSet(Tagged(n, C))
      /\ Cardinality(Tagged(n, C)) = 1 * Cardinality(C)
  BY <1>1, FS_Product DEF Tagged
<1>3. Cardinality(C) \in Nat /\ Cardinality(Tagged(n, S)) \in Nat
  BY FS_CardinalityType
<1>4. Tagged(n, S) \cap Tagged(n, C) = {}
  BY DEF Tagged
<1>5. Cardinality(Tagged(n, S) \cap Tagged(n, C)) = 0
  BY <1>4, FS_EmptySet
<1>6. /\ IsFiniteSet(Tagged(n, S) \cup Tagged(n, C))
      /\ Cardinality(Tagged(n, S) \cup Tagged(n, C))
           = Cardinality(Tagged(n, S)) + Cardinality(Tagged(n, C))
               - Cardinality(Tagged(n, S) \cap Tagged(n, C))
  BY <1>2, FS_Union
<1> QED BY <1>2, <1>3, <1>5, <1>6

\* A table that is being filled has the chunks copied by this run.
CopyInv ==
    \A t \in Tables :
        script = "running" /\ phase[t] = "copy" =>
            /\ t \in exists
            /\ db[t] = {runs} \X Prefix(csv[t], copied[t])
            /\ IsFiniteSet(db[t])
            /\ total[t] = Cardinality(db[t])
            /\ copied[t] \in 0..Len(csv[t])

\* A reported number is that of a table no worker is at.
ReportInv ==
    \A t \in Tables :
        results[t] >= 0 =>
            /\ phase[t] = "done"
            /\ csv[t] # NoFile =>
                  t \in exists /\ Whole(t) /\ Cardinality(db[t]) = results[t]

SeedInv == TypeInv /\ CopyInv /\ ReportInv

\* Where nothing of the seeding changes there is nothing to show.
LEMMA SeedUnchanged ==
  ASSUME SeedInv, UNCHANGED <<sourceVars, phase, copied, total, results, runs>>,
         script' = "running" => script = "running"
  PROVE  CopyInv' /\ ReportInv'
  BY DEF SeedInv, CopyInv, ReportInv, Whole, sourceVars

\* A table that is copied to.
LEMMA CopyStep ==
  ASSUME SeedInv, NEW t \in Tables, Copy(t)
  PROVE  CopyInv' /\ ReportInv'
<1> DEFINE chunk == Chunk(csv[t], copied[t] + 1)
           before == Prefix(csv[t], copied[t])
<1>0. /\ DOMAIN db = Tables /\ DOMAIN total = Tables /\ DOMAIN copied = Tables
      /\ copied[t] \in Nat
  BY DEF SeedInv, TypeInv, VarTypes
<1>1. csv[t] \in Seq(SUBSET Times)
  BY FileTyped DEF SeedInv, TypeInv, VarTypes, FileInv, Copy
<1>2. copied[t] + 1 \in 1..Len(csv[t])
  BY DEF Copy, Chunks
<1>3. IsFiniteSet(chunk)
  BY <1>1, <1>2, ChunkFinite
<1>4. /\ Prefix(csv[t], copied[t] + 1) = before \cup chunk
      /\ before \cap chunk = {}
  BY <1>0, <1>1, <1>2, PrefixGrows
<1>5. /\ t \in exists /\ db[t] = {runs} \X before
      /\ IsFiniteSet(db[t]) /\ total[t] = Cardinality(db[t])
  BY DEF SeedInv, CopyInv, Copy
<1>6. /\ db' = [db EXCEPT ![t] = @ \cup ({runs} \X chunk)]
      /\ total' = [total EXCEPT ![t] = @ + Cardinality(chunk)]
      /\ copied' = [copied EXCEPT ![t] = @ + 1]
      /\ UNCHANGED <<csv, exists, script, phase, results, runs>>
  BY DEF Copy
<1> HIDE DEF chunk, before
<1>7. /\ db'[t] = ({runs} \X before) \cup ({runs} \X chunk)
      /\ total'[t] = Cardinality({runs} \X before) + Cardinality(chunk)
      /\ copied'[t] = copied[t] + 1
  BY <1>0, <1>5, <1>6
<1>8. \A u \in Tables \ {t} : /\ db'[u] = db[u] /\ total'[u] = total[u]
                              /\ copied'[u] = copied[u]
  BY <1>0, <1>6
<1>9. IsFiniteSet(db'[t]) /\ total'[t] = Cardinality(db'[t])
  <2>1. /\ db'[t] = Tagged(runs, before) \cup Tagged(runs, chunk)
        /\ total'[t] = Cardinality(Tagged(runs, before)) + Cardinality(chunk)
        /\ IsFiniteSet(Tagged(runs, before))
    BY <1>5, <1>7 DEF Tagged
  <2>2. /\ IsFiniteSet(Tagged(runs, before) \cup Tagged(runs, chunk))
        /\ Cardinality(Tagged(runs, before) \cup Tagged(runs, chunk))
             = Cardinality(Tagged(runs, before)) + Cardinality(chunk)
    BY <1>3, <1>4, <2>1, ChunkCounted
  <2> QED BY <2>1, <2>2
<1>10. db'[t] = {runs} \X Prefix(csv[t], copied'[t])
  <2>1. db'[t] = {runs} \X (before \cup chunk)
    BY <1>7
  <2> QED BY <1>4, <1>7, <2>1
<1>11. CopyInv'
  <2>1. copied'[t] \in 0..Len(csv[t])
    BY <1>0, <1>1, <1>2, <1>7
  <2> QED BY <1>5, <1>6, <1>8, <1>9, <1>10, <2>1 DEF SeedInv, CopyInv
<1>12. ReportInv'
  <2>1. ~(results[t] >= 0)
    BY DEF SeedInv, ReportInv, Copy
  <2> QED BY <1>6, <1>8, <2>1 DEF SeedInv, ReportInv, Whole
<1> QED BY <1>11, <1>12

\* A table that is done, with or without a result.
LEMMA ReturnStep ==
  ASSUME SeedInv, NEW t \in Tables, Skip(t) \/ Index(t) \/ Raise(t)
  PROVE  CopyInv' /\ ReportInv'
<1>0. DOMAIN phase = Tables /\ DOMAIN results = Tables
  BY DEF SeedInv, TypeInv, VarTypes
<1>1. /\ phase' = [phase EXCEPT ![t] = "done"]
      /\ UNCHANGED <<csv, exists, db, script, copied, total, runs>>
  BY DEF Skip, Index, Raise, Return, sourceVars
<1>2. phase'[t] = "done" /\ \A u \in Tables \ {t} : phase'[u] = phase[u]
  BY <1>0, <1>1
<1>3. CopyInv'
  BY <1>1, <1>2 DEF SeedInv, CopyInv
<1>4. \A u \in Tables \ {t} : results'[u] = results[u]
  BY <1>0 DEF Skip, Index, Raise, Return
<1>5. CASE Skip(t)
  <2>1. csv[t] = NoFile
    BY <1>5 DEF Skip
  <2>2. ReportInv'
    BY <1>1, <1>2, <1>4, <2>1 DEF SeedInv, ReportInv, Whole
  <2> QED BY <1>3, <2>2
<1>6. CASE Raise(t)
  <2>1. results'[t] = Failed
    BY <1>0, <1>6 DEF Raise, Return
  <2>2. ~(results'[t] >= 0)
    BY <2>1 DEF Failed
  <2>3. ReportInv'
    BY <1>1, <1>2, <1>4, <2>2 DEF SeedInv, ReportInv, Whole
  <2> QED BY <1>3, <2>3
<1>7. CASE Index(t)
  <2>1. results'[t] = total[t]
    BY <1>0, <1>7 DEF Index, Return
  <2>2. /\ t \in exists /\ total[t] = Cardinality(db[t])
        /\ db[t] = {runs} \X Prefix(csv[t], copied[t])
        /\ copied[t] \in 0..Len(csv[t])
    BY <1>7 DEF SeedInv, CopyInv, Index
  <2>3. csv[t] \in Seq(SUBSET Times)
    BY <1>7, FileTyped DEF SeedInv, TypeInv, VarTypes, FileInv, Index
  <2>3a. copied[t] = Len(csv[t])
    BY <1>7, <2>2, <2>3 DEF Index, Chunks
  <2>4. db[t] = {runs} \X RowsOf(csv[t])
    BY <2>2, <2>3, <2>3a, PrefixEnds
  <2>5. Content(db[t]) = RowsOf(csv[t])
    <3> DEFINE rows == RowsOf(csv[t])
    <3> HIDE DEF rows
    <3>1. db[t] = {runs} \X rows
      BY <2>4 DEF rows
    <3>2. {r[2] : r \in {runs} \X rows} = rows
      <4>1. \A x \in rows : <<runs, x>> \in {runs} \X rows /\ <<runs, x>>[2] = x
        OBVIOUS
      <4>2. \A r \in {runs} \X rows : r[2] \in rows
        OBVIOUS
      <4> QED BY <4>1, <4>2
    <3> QED BY <3>1, <3>2 DEF Content, rows
  <2>6. (t \in exists /\ Whole(t) /\ Cardinality(db[t]) = results[t])'
    BY <1>1, <2>1, <2>2, <2>5 DEF Whole
  <2>7. ReportInv'
    BY <1>1, <1>2, <1>4, <2>6 DEF SeedInv, ReportInv, Whole
  <2> QED BY <1>3, <2>7
<1> QED BY <1>5, <1>6, <1>7

\* A step keeps both.
LEMMA SeedStep == SeedInv /\ [Next]_vars => CopyInv' /\ ReportInv'
<1> SUFFICES ASSUME SeedInv, [Next]_vars PROVE CopyInv' /\ ReportInv'
  OBVIOUS
<1> USE DEF pipelineVars
<1>0. /\ DOMAIN phase = Tables /\ DOMAIN results = Tables /\ DOMAIN db = Tables
      /\ DOMAIN copied = Tables /\ DOMAIN total = Tables
  BY DEF SeedInv, TypeInv, VarTypes
<1>1. ASSUME NEW selected \in SUBSET Tables, Begin(selected)
      PROVE  CopyInv' /\ ReportInv'
  BY <1>1 DEF Begin, CopyInv, ReportInv, Pending
<1>2. ASSUME NEW t \in Tables, Take(t) PROVE CopyInv' /\ ReportInv'
  <2>1. /\ phase[t] = "idle" /\ phase' = [phase EXCEPT ![t] = "start"]
        /\ UNCHANGED <<csv, exists, db, script, copied, total, results, runs>>
    BY <1>2 DEF Take, Waiting, sourceVars
  <2>2. phase'[t] = "start" /\ \A u \in Tables \ {t} : phase'[u] = phase[u]
    BY <1>0, <2>1
  <2>3. ~(results[t] >= 0)
    BY <2>1 DEF SeedInv, ReportInv
  <2> QED BY <2>1, <2>2, <2>3 DEF SeedInv, CopyInv, ReportInv, Whole
<1>3. ASSUME NEW t \in Tables, Recreate(t) PROVE CopyInv' /\ ReportInv'
  <2>1. /\ phase[t] = "start" /\ phase' = [phase EXCEPT ![t] = "copy"]
        /\ exists' = exists \cup {t} /\ db' = [db EXCEPT ![t] = {}]
        /\ copied' = [copied EXCEPT ![t] = 0]
        /\ total' = [total EXCEPT ![t] = 0]
        /\ UNCHANGED <<csv, script, results, runs>>
    BY <1>3 DEF Recreate
  <2>2. \A u \in Tables \ {t} :
           /\ phase'[u] = phase[u] /\ db'[u] = db[u]
           /\ copied'[u] = copied[u] /\ total'[u] = total[u]
    BY <1>0, <2>1
  <2>3. db'[t] = {} /\ copied'[t] = 0 /\ total'[t] = 0 /\ t \in exists'
    BY <1>0, <2>1
  <2>4. {runs} \X Prefix(csv[t], 0) = {}
    BY DEF Prefix
  <2>5. IsFiniteSet(db'[t]) /\ Cardinality(db'[t]) = 0
    BY <2>3, FS_EmptySet
  <2>5a. copied'[t] \in 0..Len(csv[t])
    <3>1. csv[t] \in Seq(SUBSET Times)
      BY <1>3, FileTyped DEF SeedInv, TypeInv, VarTypes, Recreate
    <3> QED BY <2>3, <3>1
  <2>6. ~(results[t] >= 0)
    BY <2>1 DEF SeedInv, ReportInv
  <2>7. CopyInv'
    BY <2>1, <2>2, <2>3, <2>4, <2>5, <2>5a DEF SeedInv, CopyInv
  <2>8. ReportInv'
    BY <2>1, <2>2, <2>6 DEF SeedInv, ReportInv, Whole
  <2> QED BY <2>7, <2>8
<1>4. ASSUME NEW t \in Tables, Skip(t) \/ Copy(t) \/ Index(t) \/ Raise(t)
      PROVE  CopyInv' /\ ReportInv'
  BY <1>4, CopyStep, ReturnStep
<1>5. ASSUME NEW t \in Tables, Ingest(t) \/ Stage(t)
      PROVE  CopyInv' /\ ReportInv'
  BY <1>5, SeedUnchanged DEF Ingest, Stage, seedVars
<1>6. CASE Finish
  BY <1>6, SeedUnchanged DEF Finish
<1>7. CASE Kill
  BY <1>7 DEF Kill, CopyInv, ReportInv, Pending
<1>8. CASE UNCHANGED vars
  BY <1>8, SeedUnchanged DEF vars, seedVars
<1> QED BY <1>1, <1>2, <1>3, <1>4, <1>5, <1>6, <1>7, <1>8 DEF Next

\* SeededComplete: a reported number of rows is that of the whole file, for
\* all files, whatever earlier runs have left and other tables meet.
THEOREM ReportedSeeded == Spec => []SeededComplete
<1>1. Init => SeedInv
  BY SeedingTypeInit DEF Init, SeedInv, CopyInv, ReportInv, Pending
<1>2. SeedInv /\ [Next]_vars => SeedInv'
  BY SeedStep, VarTypesStep, PoolStep DEF SeedInv, TypeInv
<1>3. SeedInv => SeededComplete
  BY DEF SeedInv, ReportInv, SeededComplete
<1> QED BY <1>1, <1>2, <1>3, PTL DEF Spec

=============================================================================
