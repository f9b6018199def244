------------------------- MODULE ClickHouseSyncProofs -------------------------
(***************************************************************************)
(* Proofs about ClickHouseSync, for any number of syncs, files, builds,    *)
(* retries and failures: the types, what a sync that ran alone leaves in   *)
(* the table the readers query, and that the script implements             *)
(* AtomicPublish.                                                          *)
(***************************************************************************)
EXTENDS ClickHouseSync, TLAPS

USE SyncAssumption, BoundAssumption

-----------------------------------------------------------------------------
(* Types.                                                                  *)

\* A file that is committed has a build of which it is a part.
TypeInv == TypeOK /\ (writing => version # 0)

\* The initial state has the types of TypeOK.
LEMMA SyncTypeInit == Init => TypeInv
<1> SUFFICES ASSUME Init PROVE TypeInv
  OBVIOUS
<1> USE DEF Init, Tables, Phases, Points
<1>1. /\ writing \in BOOLEAN /\ ~writing
      /\ clashed \in BOOLEAN
      /\ solo \in [Syncs -> BOOLEAN]
  OBVIOUS
<1>2. /\ version \in 0..MaxVersion /\ tries \in 0..Retries
      /\ manuals \in 0..MaxManual /\ failures \in 0..MaxFailures
  OBVIOUS
<1>3. /\ rows \in [Tables -> SUBSET (Files \X Syncs)]
      /\ dir \in SUBSET Files
      /\ todo \in [Syncs -> SUBSET Files]
  OBVIOUS
<1>4. /\ phase \in Phases /\ live \in Tables
      /\ pc \in [Syncs -> Points] /\ target \in [Syncs -> Tables]
  OBVIOUS
<1>5. QED BY <1>1, <1>2, <1>3, <1>4 DEF TypeInv, TypeOK

\* The one action on the task that a failed attempt has keeps its types.
LEMMA SettleTypes ==
    ASSUME phase \in Phases, tries \in 0..Retries, NEW s, Settle(s)
    PROVE  phase' \in Phases /\ tries' \in 0..Retries
BY DEF Settle, Phases

\* Every step keeps the types, one case per action.
LEMMA SyncTypeStep == TypeInv /\ [Next]_vars => TypeInv'
<1> SUFFICES ASSUME TypeInv, [Next]_vars PROVE TypeInv'
  OBVIOUS
<1> USE DEF TypeInv, TypeOK, martVars, taskVars, syncVars, Points
<1>0. Staging \in Tables
  BY DEF Staging, Tables
<1>1. CASE DeleteMart
  BY <1>1 DEF DeleteMart
<1>2. CASE CommitFile
  <2>1. PICK f \in Build(version) \ dir : dir' = dir \cup {f}
    BY <1>2 DEF CommitFile
  <2>2. version \in 1..MaxVersion
    BY <1>2 DEF CommitFile
  <2>3. f \in Files
    BY <2>1, <2>2 DEF Build, Files
  <2>4. dir' \in SUBSET Files
    BY <2>1, <2>3
  <2>5. QED BY <1>2, <2>4 DEF CommitFile
<1>3. CASE FinishMart
  <2>1. writing' \in BOOLEAN /\ ~writing'
    BY <1>3 DEF FinishMart
  <2>2. phase' \in Phases /\ tries' \in 0..Retries
    BY <1>3 DEF FinishMart, Phases
  <2>3. QED BY <1>3, <2>1, <2>2 DEF FinishMart
<1>4. CASE FailMart
  <2>1. writing' \in BOOLEAN /\ ~writing'
    BY <1>4 DEF FailMart
  <2>2. failures' \in 0..MaxFailures
    BY <1>4 DEF FailMart
  <2>3. QED BY <1>4, <2>1, <2>2 DEF FailMart
<1>5. ASSUME NEW s \in Syncs, Begin(s) PROVE TypeInv'
  <2>1. rows' \in [Tables -> SUBSET (Files \X Syncs)]
    BY <1>0, <1>5 DEF Begin, Truncated
  <2>2. solo' \in [Syncs -> BOOLEAN]
    BY <1>5 DEF Begin
  <2>3. clashed' \in BOOLEAN
    BY <1>5 DEF Begin
  <2>4. pc' \in [Syncs -> Points] /\ manuals' \in 0..MaxManual
    BY <1>5 DEF Begin
  <2>5. QED BY <1>5, <2>1, <2>2, <2>3, <2>4 DEF Begin
<1>6. ASSUME NEW s \in Syncs, ListFiles(s) PROVE TypeInv'
  BY <1>0, <1>6 DEF ListFiles
<1>7. ASSUME NEW s \in Syncs, InsertFile(s) PROVE TypeInv'
  <2>1. PICK f \in todo[s] \cap dir :
           /\ rows' = [rows EXCEPT ![target[s]] = @ \cup {<<f, s>>}]
           /\ todo' = [todo EXCEPT ![s] = @ \ {f}]
    BY <1>7 DEF InsertFile
  <2>2. target[s] \in Tables /\ <<f, s>> \in Files \X Syncs
    BY <2>1
  <2>3. rows' \in [Tables -> SUBSET (Files \X Syncs)]
    BY <2>1, <2>2
  <2>4. todo' \in [Syncs -> SUBSET Files]
    BY <2>1
  <2>5. QED BY <1>7, <2>3, <2>4 DEF InsertFile
<1>8. ASSUME NEW s \in Syncs, EndInsert(s) \/ CountRows(s) PROVE TypeInv'
  BY <1>8 DEF EndInsert, CountRows
<1>9. ASSUME NEW s \in Syncs, Exchange(s) PROVE TypeInv'
  BY <1>0, <1>9 DEF Exchange
<1>10. ASSUME NEW s \in Syncs, Finish(s) PROVE TypeInv'
  BY <1>10 DEF Finish, Phases
<1>11. ASSUME NEW s \in Syncs, Refuse(s) PROVE TypeInv'
  <2>1. phase' \in Phases /\ tries' \in 0..Retries
    BY <1>11, SettleTypes DEF Refuse
  <2>2. QED BY <1>11, <2>1 DEF Refuse
<1>12. ASSUME NEW s \in Syncs, Fail(s) PROVE TypeInv'
  <2>1. phase' \in Phases /\ tries' \in 0..Retries
    BY <1>12, SettleTypes DEF Fail
  <2>2. QED BY <1>12, <2>1 DEF Fail
<1>13. CASE UNCHANGED vars
  BY <1>13 DEF vars
<1>14. QED
  BY <1>1, <1>2, <1>3, <1>4, <1>5, <1>6, <1>7, <1>8, <1>9, <1>10, <1>11,
     <1>12, <1>13 DEF Next, BuildMart, Work

\* Every variable keeps its type, whoever starts how many syncs.
THEOREM SyncTypeCorrect == Spec => []TypeOK
<1>1. TypeInv => TypeOK
  BY DEF TypeInv
<1>2. QED BY <1>1, SyncTypeInit, SyncTypeStep, PTL DEF Spec

-----------------------------------------------------------------------------
(* A sync that runs alone.                                                 *)

\* How far a sync that runs alone has come, and what it has put where.
SoloProgress(s) ==
    /\ pc[s] = "truncated" => rows[Staging] = {}
    /\ pc[s] = "inserting" => /\ target[s] = Staging
                              /\ todo[s] \subseteq dir
                              /\ rows[Staging] = (dir \ todo[s]) \X {s}
    /\ pc[s] \in {"inserted", "counted"} => rows[Staging] = dir \X {s}
    /\ pc[s] = "swapped" => rows[live] = dir \X {s}

SoloInv ==
    \A s \in Syncs :
        solo[s] /\ Active(s) =>
            /\ \A u \in Syncs \ {s} : ~Active(u)
            /\ SoloProgress(s)

\* Nothing is demanded of a state in which no sync is alone.
LEMMA NobodySolo ==
    ASSUME \A s \in Syncs : ~solo'[s]
    PROVE  SoloInv'
BY DEF SoloInv

\* A step of s can disturb SoloInv for s only: if another active sync were
\* alone, s would be idle.
LEMMA OnlySelf ==
    ASSUME TypeOK, SoloInv, NEW s \in Syncs, Active(s), solo' = solo,
           \A u \in Syncs \ {s} : pc'[u] = pc[u],
           solo[s] /\ Active(s)' => SoloProgress(s)'
    PROVE  SoloInv'
<1> SUFFICES ASSUME NEW u \in Syncs, solo'[u], Active(u)'
             PROVE  /\ \A w \in Syncs \ {u} : ~Active(w)'
                    /\ SoloProgress(u)'
  BY DEF SoloInv
<1>1. CASE u = s
  BY <1>1 DEF SoloInv, Active
<1>2. CASE u # s
  <2>1. Active(u)
    BY <1>2 DEF Active
  <2>2. QED BY <1>2, <2>1 DEF SoloInv
<1>3. QED BY <1>1, <1>2

\* The invariant is preserved, one case per action.
LEMMA SoloStep == TypeOK /\ SoloInv /\ [Next]_vars => SoloInv'
<1> SUFFICES ASSUME TypeOK, SoloInv, [Next]_vars PROVE SoloInv'
  OBVIOUS
<1> USE DEF martVars, taskVars, syncVars
<1>0. Staging \in Tables /\ Staging # live /\ live \in Tables
  BY DEF Staging, Tables, TypeOK
<1>1. CASE DeleteMart \/ CommitFile
  BY <1>1, NobodySolo DEF DeleteMart, CommitFile
<1>2. CASE FinishMart \/ FailMart
  BY <1>2 DEF FinishMart, FailMart, SoloInv, SoloProgress, Active, Staging
<1>3. ASSUME NEW s \in Syncs, Begin(s) PROVE SoloInv'
  <2>1. /\ solo' = [u \in Syncs |-> u = s /\ ~AnyActive]
        /\ pc' = [pc EXCEPT ![s] = "truncated"]
        /\ rows' = [rows EXCEPT ![Staging] = {}]
        /\ live' = live
    BY <1>3 DEF Begin, Truncated
  <2>2. ASSUME NEW u \in Syncs, solo'[u], Active(u)'
        PROVE  /\ \A w \in Syncs \ {u} : ~Active(w)'
               /\ SoloProgress(u)'
    <3>1. u = s /\ ~AnyActive
      BY <2>1, <2>2
    <3>2. \A w \in Syncs \ {u} : ~Active(w)'
      BY <2>1, <3>1 DEF TypeOK, AnyActive, Active
    <3>3. pc'[s] = "truncated" /\ rows'[Staging] = {} /\ Staging' = Staging
      BY <1>0, <2>1 DEF TypeOK, Staging
    <3>4. QED BY <3>1, <3>2, <3>3 DEF SoloProgress
  <2>3. QED BY <2>2 DEF SoloInv
<1>4. ASSUME NEW s \in Syncs, ListFiles(s) PROVE SoloInv'
  <2>1. /\ pc' = [pc EXCEPT ![s] = "inserting"]
        /\ target' = [target EXCEPT ![s] = Staging]
        /\ todo' = [todo EXCEPT ![s] = dir]
        /\ UNCHANGED <<rows, live, dir, solo>>
        /\ pc[s] = "truncated"
    BY <1>4 DEF ListFiles
  <2>2. solo[s] => rows[Staging] = {}
    BY <2>1 DEF SoloInv, SoloProgress, Active
  <2>3. /\ pc'[s] = "inserting" /\ target'[s] = Staging /\ todo'[s] = dir
        /\ Staging' = Staging
    BY <2>1 DEF TypeOK, Staging
  <2>4. solo[s] => rows'[Staging] = (dir' \ todo'[s]) \X {s}
    BY <2>1, <2>2, <2>3
  <2>5. solo[s] /\ Active(s)' => SoloProgress(s)'
    BY <2>1, <2>3, <2>4 DEF SoloProgress
  <2>6. QED BY <2>1, <2>5, OnlySelf DEF Active, TypeOK
<1>5. ASSUME NEW s \in Syncs, InsertFile(s) PROVE SoloInv'
  <2>1. PICK f \in todo[s] \cap dir :
           /\ rows' = [rows EXCEPT ![target[s]] = @ \cup {<<f, s>>}]
           /\ todo' = [todo EXCEPT ![s] = @ \ {f}]
    BY <1>5 DEF InsertFile
  <2>2. pc[s] = "inserting" /\ UNCHANGED <<pc, target, live, dir, solo>>
    BY <1>5 DEF InsertFile
  <2>3. ASSUME solo[s] PROVE SoloProgress(s)'
    <3>1. /\ target[s] = Staging /\ todo[s] \subseteq dir
          /\ rows[Staging] = (dir \ todo[s]) \X {s}
      BY <2>2, <2>3 DEF SoloInv, SoloProgress, Active
    <3>2. todo'[s] = todo[s] \ {f} /\ Staging' = Staging
      BY <2>1, <2>2 DEF TypeOK, Staging
    <3>3. rows'[Staging] = ((dir \ todo[s]) \X {s}) \cup {<<f, s>>}
      BY <1>0, <2>1, <3>1 DEF TypeOK
    <3>4. dir \ todo'[s] = (dir \ todo[s]) \cup {f}
      BY <2>1, <3>2
    <3>5. rows'[Staging] = (dir \ todo'[s]) \X {s}
      BY <3>3, <3>4
    <3>6. QED BY <2>2, <3>1, <3>2, <3>5 DEF SoloProgress
  <2>4. QED BY <2>2, <2>3, OnlySelf DEF Active
<1>6. ASSUME NEW s \in Syncs, EndInsert(s) \/ CountRows(s) PROVE SoloInv'
  <2>1. /\ UNCHANGED <<rows, live, dir, solo>>
        /\ Active(s)
        /\ \A u \in Syncs \ {s} : pc'[u] = pc[u]
    BY <1>6 DEF EndInsert, CountRows, TypeOK, Active
  <2>2. pc'[s] \in {"inserted", "counted"} /\ Staging' = Staging
    BY <1>6 DEF EndInsert, CountRows, TypeOK, Staging
  <2>3. solo[s] => rows[Staging] = dir \X {s}
    BY <1>6 DEF EndInsert, CountRows, SoloInv, SoloProgress, Active
  <2>4. solo[s] /\ Active(s)' => SoloProgress(s)'
    BY <2>1, <2>2, <2>3 DEF SoloProgress
  <2>5. QED BY <2>1, <2>4, OnlySelf
<1>7. ASSUME NEW s \in Syncs, Exchange(s) PROVE SoloInv'
  <2>1. /\ UNCHANGED <<rows, dir, solo>>
        /\ pc[s] = "counted" /\ live' = Staging
        /\ pc' = [pc EXCEPT ![s] = "swapped"]
    BY <1>7 DEF Exchange
  <2>2. solo[s] => rows[Staging] = dir \X {s}
    BY <2>1 DEF SoloInv, SoloProgress, Active
  <2>3. pc'[s] = "swapped"
    BY <2>1 DEF TypeOK
  <2>4. solo[s] /\ Active(s)' => SoloProgress(s)'
    BY <2>1, <2>2, <2>3 DEF SoloProgress
  <2>5. QED BY <2>1, <2>4, OnlySelf DEF Active, TypeOK
<1>8. ASSUME NEW s \in Syncs, Finish(s) \/ Refuse(s) \/ Fail(s)
      PROVE  SoloInv'
  <2>1. solo' = solo /\ pc' = [pc EXCEPT ![s] = "idle"] /\ Active(s)
    BY <1>8 DEF Finish, Refuse, Fail, Active
  <2>2. ~Active(s)'
    BY <2>1 DEF TypeOK, Active
  <2>3. QED BY <2>1, <2>2, OnlySelf DEF TypeOK
<1>9. CASE UNCHANGED vars
  BY <1>9 DEF vars, SoloInv, SoloProgress, Active, Staging
<1>10. QED
  BY <1>1, <1>2, <1>3, <1>4, <1>5, <1>6, <1>7, <1>8, <1>9
     DEF Next, BuildMart, Work

\* Whatever earlier or failed syncs have left behind, a sync beside which
\* nothing else ran publishes the directory, whole and once.
THEOREM SoloSyncIsExact == Spec => []SoloSyncPublishes
<1>1. Init => SoloInv
  BY DEF Init, SoloInv
<1>2. SoloInv => SoloSyncPublishes
  BY DEF SoloInv, SoloSyncPublishes, SoloProgress, Active
<1>3. QED BY <1>1, <1>2, SoloStep, SyncTypeCorrect, PTL DEF Spec

-----------------------------------------------------------------------------
(* The script implements AtomicPublish.                                    *)

\* Until syncs clash, one that is active is alone over a finished mart, and
\* the readers' table is empty or holds one build.
CleanInv ==
    ~clashed =>
        /\ \A s \in Syncs : Active(s) => solo[s] /\ MartWhole /\ ~writing
        /\ rows[live] = {} \/ \E v \in 1..version : Serves(v)

\* A table that holds one build holds no other.
LEMMA ViewIs ==
    ASSUME ~clashed, NEW v \in 1..version, Serves(v)
    PROVE  ServedView = v
<1>1. PICK s \in Syncs : rows[live] = Build(v) \X {s}
  BY DEF Serves
<1>2. PICK p \in Parts : TRUE
  OBVIOUS
<1>3. <<<<p, v>>, s>> \in rows[live]
  BY <1>1 DEF Build
<1>4. ASSUME NEW w \in 1..version, Serves(w) PROVE w = v
  <2>1. PICK u \in Syncs : rows[live] = Build(w) \X {u}
    BY <1>4 DEF Serves
  <2>2. <<p, v>> \in Build(w)
    BY <1>3, <2>1
  <2>3. QED BY <2>2 DEF Build
<1>5. (CHOOSE w \in 1..version : Serves(w)) = v
  BY <1>4
<1>6. QED BY <1>3, <1>5 DEF ServedView

\* A directory that holds a whole build holds one of those that exist.
LEMMA WholeIsBuilt ==
    ASSUME TypeOK, MartWhole
    PROVE  version \in 1..MaxVersion
<1>1. PICK p \in Parts : TRUE
  OBVIOUS
<1>2. <<p, version>> \in Files
  BY <1>1 DEF TypeOK, MartWhole, Build
<1>3. QED BY <1>2 DEF Files

\* An active sync is alone, until syncs clash; so is its progress.
LEMMA CleanProgress ==
    ASSUME SoloInv, CleanInv, ~clashed, NEW s \in Syncs, Active(s)
    PROVE  /\ MartWhole /\ ~writing /\ solo[s]
           /\ SoloProgress(s)
           /\ \A u \in Syncs \ {s} : ~Active(u)
BY DEF SoloInv, CleanInv

\* A step that leaves the readers' table alone does so in CleanInv, too.
LEMMA SameTable ==
    ASSUME TypeOK, rows[live] = {} \/ \E v \in 1..version : Serves(v),
           version' \in {version, version + 1}, rows'[live'] = rows[live]
    PROVE  rows'[live'] = {} \/ \E v \in 1..version' : Serves(v)'
<1>1. ASSUME NEW v \in 1..version, Serves(v)
      PROVE  v \in 1..version' /\ Serves(v)'
  BY <1>1 DEF TypeOK, Serves
<1>2. QED BY <1>1

\* The invariant is preserved, one case per action.
LEMMA CleanStep ==
    TypeInv /\ SoloInv /\ CleanInv /\ [Next]_vars => CleanInv'
<1> SUFFICES ASSUME TypeInv, SoloInv, CleanInv, [Next]_vars, ~clashed'
             PROVE  /\ \A s \in Syncs :
                          Active(s)' => solo'[s] /\ MartWhole' /\ ~writing'
                    /\ rows'[live'] = {} \/ \E v \in 1..version' : Serves(v)'
  BY DEF CleanInv
<1> USE DEF martVars, taskVars, syncVars
<1>t. TypeOK
  BY DEF TypeInv
<1>0. Staging \in Tables /\ Staging # live /\ live \in Tables
  BY <1>t DEF Staging, Tables, TypeOK
<1>1. CASE DeleteMart
  <2>1. ~clashed /\ ~AnyActive /\ pc' = pc
    BY <1>1 DEF DeleteMart
  <2>2. \A s \in Syncs : ~Active(s)'
    BY <2>1 DEF AnyActive, Active
  <2>3. rows'[live'] = rows[live] /\ version' = version + 1
    BY <1>1 DEF DeleteMart
  <2>4. QED BY <1>t, <2>1, <2>2, <2>3, SameTable DEF CleanInv
<1>2. CASE CommitFile
  <2>1. ~clashed /\ writing /\ pc' = pc
        /\ rows'[live'] = rows[live] /\ version' = version
    BY <1>2 DEF CommitFile
  <2>2. \A s \in Syncs : ~Active(s)'
    BY <2>1 DEF CleanInv, Active
  <2>3. QED BY <1>t, <2>1, <2>2, SameTable DEF CleanInv
<1>3. CASE FinishMart \/ FailMart
  <2>1. ~clashed /\ writing /\ pc' = pc
        /\ rows'[live'] = rows[live] /\ version' = version
    BY <1>3 DEF FinishMart, FailMart
  <2>2. \A s \in Syncs : ~Active(s)'
    BY <2>1 DEF CleanInv, Active
  <2>3. QED BY <1>t, <2>1, <2>2, SameTable DEF CleanInv
<1>4. ASSUME NEW s \in Syncs, Begin(s)
      PROVE  /\ \A u \in Syncs :
                   Active(u)' => solo'[u] /\ MartWhole' /\ ~writing'
             /\ rows'[live'] = {} \/ \E v \in 1..version' : Serves(v)'
  <2>1. /\ ~clashed /\ ~AnyActive /\ ~writing /\ MartWhole
        /\ UNCHANGED <<version, dir, writing, live>>
        /\ rows' = [rows EXCEPT ![Staging] = {}]
        /\ pc' = [pc EXCEPT ![s] = "truncated"]
        /\ solo' = [u \in Syncs |-> u = s /\ ~AnyActive]
    BY <1>4 DEF Begin, Truncated
  <2>2. \A u \in Syncs : Active(u)' => u = s
    BY <2>1, <1>t DEF AnyActive, Active, TypeOK
  <2>3. rows'[live'] = rows[live]
    BY <1>0, <2>1, <1>t DEF TypeOK
  <2>4. MartWhole' /\ ~writing' /\ solo'[s]
    BY <2>1 DEF MartWhole, Build
  <2>5. QED BY <1>t, <2>1, <2>2, <2>3, <2>4, SameTable DEF CleanInv
<1>5. ASSUME NEW s \in Syncs, ListFiles(s) \/ EndInsert(s) \/ CountRows(s)
      PROVE  /\ \A u \in Syncs :
                   Active(u)' => solo'[u] /\ MartWhole' /\ ~writing'
             /\ rows'[live'] = {} \/ \E v \in 1..version' : Serves(v)'
  <2>1. /\ Active(s) /\ ~clashed
        /\ UNCHANGED <<version, dir, writing, live, rows, solo>>
        /\ \A u \in Syncs \ {s} : pc'[u] = pc[u]
    BY <1>5, <1>t DEF ListFiles, EndInsert, CountRows, Active, TypeOK
  <2>2. \A u \in Syncs : Active(u)' => u = s
    BY <2>1, CleanProgress DEF Active
  <2>3. MartWhole' /\ ~writing' /\ solo'[s]
    BY <2>1, CleanProgress DEF MartWhole, Build
  <2>4. QED BY <1>t, <2>1, <2>2, <2>3, SameTable DEF CleanInv
<1>6. ASSUME NEW s \in Syncs, InsertFile(s)
      PROVE  /\ \A u \in Syncs :
                   Active(u)' => solo'[u] /\ MartWhole' /\ ~writing'
             /\ rows'[live'] = {} \/ \E v \in 1..version' : Serves(v)'
  <2>1. /\ Active(s) /\ pc[s] = "inserting" /\ ~clashed
        /\ UNCHANGED <<version, dir, writing, live, solo, pc>>
    BY <1>6 DEF InsertFile, Active
  <2>2. target[s] = Staging
    BY <2>1, CleanProgress DEF SoloProgress
  <2>3. rows'[live'] = rows[live]
    BY <1>0, <1>6, <1>t, <2>1, <2>2 DEF InsertFile, TypeOK
  <2>4. \A u \in Syncs : Active(u)' => u = s
    BY <2>1, CleanProgress DEF Active
  <2>5. MartWhole' /\ ~writing' /\ solo'[s]
    BY <2>1, CleanProgress DEF MartWhole, Build
  <2>6. QED BY <1>t, <2>1, <2>3, <2>4, <2>5, SameTable DEF CleanInv
<1>7. ASSUME NEW s \in Syncs, Exchange(s)
      PROVE  /\ \A u \in Syncs :
                   Active(u)' => solo'[u] /\ MartWhole' /\ ~writing'
             /\ rows'[live'] = {} \/ \E v \in 1..version' : Serves(v)'
  <2>1. /\ Active(s) /\ pc[s] = "counted" /\ ~clashed /\ live' = Staging
        /\ UNCHANGED <<version, dir, writing, rows, solo>>
        /\ \A u \in Syncs \ {s} : pc'[u] = pc[u]
    BY <1>7, <1>t DEF Exchange, Active, TypeOK
  <2>2. rows'[live'] = Build(version) \X {s}
    BY <2>1, CleanProgress DEF SoloProgress, MartWhole
  <2>3. version' \in 1..version' /\ Serves(version)'
    BY <1>t, <2>1, <2>2, CleanProgress, WholeIsBuilt DEF Serves, Build
  <2>4. \A u \in Syncs : Active(u)' => u = s
    BY <2>1, CleanProgress DEF Active
  <2>5. MartWhole' /\ ~writing' /\ solo'[s]
    BY <2>1, CleanProgress DEF MartWhole, Build
  <2>6. QED BY <2>3, <2>4, <2>5
<1>8. ASSUME NEW s \in Syncs, Finish(s) \/ Refuse(s) \/ Fail(s)
      PROVE  /\ \A u \in Syncs :
                   Active(u)' => solo'[u] /\ MartWhole' /\ ~writing'
             /\ rows'[live'] = {} \/ \E v \in 1..version' : Serves(v)'
  <2>1. /\ Active(s) /\ ~clashed /\ pc' = [pc EXCEPT ![s] = "idle"]
        /\ UNCHANGED <<version, dir, writing, live, rows, solo>>
    BY <1>8 DEF Finish, Refuse, Fail, Active
  <2>2. \A u \in Syncs : ~Active(u)'
    BY <1>t, <2>1, CleanProgress DEF Active, TypeOK
  <2>3. QED BY <1>t, <2>1, <2>2, SameTable DEF CleanInv
<1>9. CASE UNCHANGED vars
  <2>1. /\ UNCHANGED <<version, dir, writing, live, rows, solo, pc, clashed>>
    BY <1>9 DEF vars
  <2>2. MartWhole' = MartWhole /\ \A s \in Syncs : Active(s)' = Active(s)
    BY <2>1 DEF MartWhole, Build, Active
  <2>3. QED BY <1>t, <2>1, <2>2, SameTable DEF CleanInv
<1>10. QED
  BY <1>1, <1>2, <1>3, <1>4, <1>5, <1>6, <1>7, <1>8, <1>9
     DEF Next, BuildMart, Work

\* The invariants together.
LEMMA CleanInvariant == Spec => [](TypeInv /\ SoloInv /\ CleanInv)
<1>1. Init => SoloInv /\ CleanInv
  BY DEF Init, SoloInv, CleanInv, Active, Tables
<1>2. TypeInv => TypeOK
  BY DEF TypeInv
<1>3. TypeInv /\ SoloInv /\ CleanInv /\ [Next]_vars
        => (TypeInv /\ SoloInv /\ CleanInv)'
  BY <1>2, SyncTypeStep, SoloStep, CleanStep
<1>4. QED BY <1>1, <1>3, SyncTypeInit, PTL DEF Spec

\* What readers see is a version that exists, or nothing.
LEMMA ViewRange ==
    ASSUME TypeOK, CleanInv
    PROVE  /\ ServedView \in 0..version
           /\ ~clashed /\ rows[live] # {} =>
                 \E v \in 1..version : Serves(v) /\ ServedView = v
<1>1. CASE clashed \/ rows[live] = {}
  BY <1>1 DEF ServedView, TypeOK
<1>2. CASE ~clashed /\ rows[live] # {}
  <2>1. PICK v \in 1..version : Serves(v)
    BY <1>2 DEF CleanInv
  <2>2. ServedView = v
    BY <1>2, <2>1, ViewIs
  <2>3. QED BY <2>1, <2>2 DEF TypeOK
<1>3. QED BY <1>1, <1>2

\* Readers see the same after a step that leaves their table alone.
LEMMA SameView ==
    ASSUME TypeOK, CleanInv, ~clashed, ~clashed',
           version' \in {version, version + 1}, rows'[live'] = rows[live]
    PROVE  ServedView' = ServedView
<1>1. CASE rows[live] = {}
  BY <1>1 DEF ServedView
<1>2. CASE rows[live] # {}
  <2>1. PICK v \in 1..version : Serves(v) /\ ServedView = v
    BY <1>2, ViewRange
  <2>2. v \in 1..version' /\ Serves(v)'
    BY <2>1 DEF TypeOK, Serves
  <2>3. PICK s \in Syncs : rows'[live'] = Build(v) \X {s}
    BY <2>2 DEF Serves, Build
  <2>4. PICK p \in Parts : TRUE
    OBVIOUS
  <2>5. <<<<p, v>>, s>> \in rows'[live']
    BY <2>3 DEF Build
  <2>6. ASSUME NEW w \in 1..version', Serves(w)' PROVE w = v
    <3>1. PICK u \in Syncs : rows'[live'] = Build(w) \X {u}
      BY <2>6 DEF Serves, Build
    <3>2. <<p, v>> \in Build(w)
      BY <2>5, <3>1
    <3>3. QED BY <3>2 DEF Build
  <2>7. (CHOOSE w \in 1..version' : Serves(w)') = v
    BY <2>2, <2>6
  <2>8. ServedView' = v
    BY <2>2, <2>5, <2>7 DEF ServedView
  <2>9. QED BY <2>1, <2>8
<1>3. QED BY <1>1, <1>2

\* Every step is one of AtomicPublish, or a stutter.
LEMMA PublishStep ==
    ASSUME TypeInv, TypeInv', SoloInv, CleanInv, CleanInv', [Next]_vars
    PROVE  [Readers!Next]_(Readers!vars)
<1> USE DEF martVars, taskVars, syncVars
<1>t. TypeOK /\ TypeOK'
  BY DEF TypeInv
<1>m. FinishedMart' \in 0..MaxVersion
  BY <1>t DEF FinishedMart, TypeOK
<1>1. CASE clashed'
  <2>1. ServedView' = 0
    BY <1>1 DEF ServedView
  <2>2. clashed' = TRUE
    BY <1>1, <1>t DEF TypeOK
  <2>3. QED BY <1>m, <2>1, <2>2 DEF Readers!Next, Readers!Break
<1>2. CASE ~clashed'
  <2>1. ~clashed
    BY <1>2 DEF Next, BuildMart, Work, DeleteMart, CommitFile, FinishMart,
                FailMart, Begin, ListFiles, InsertFile, EndInsert, CountRows,
                Exchange, Finish, Refuse, Fail, vars
  <2>2. ASSUME ServedView' = ServedView
        PROVE  [Readers!Next]_(Readers!vars)
    <3>1. clashed' = clashed
      BY <1>2, <1>t, <2>1 DEF TypeOK
    <3>2. QED BY <1>m, <2>2, <3>1 DEF Readers!Next, Readers!Rebuild
  <2>3. ASSUME NEW s \in Syncs, Exchange(s)
        PROVE  [Readers!Next]_(Readers!vars)
    <3>1. /\ Active(s) /\ pc[s] = "counted" /\ live' = Staging
          /\ UNCHANGED <<version, dir, writing, rows>>
          /\ clashed' = clashed
      BY <2>3 DEF Exchange, Active
    <3>2. MartWhole /\ ~writing /\ SoloProgress(s)
      BY <2>1, <3>1, CleanProgress
    <3>3. version \in 1..MaxVersion
      BY <1>t, <3>2, WholeIsBuilt
    <3>4. FinishedMart = version /\ FinishedMart' = version
      BY <3>1, <3>2 DEF FinishedMart, MartWhole, Build
    <3>5. rows'[live'] = Build(version) \X {s}
      BY <3>1, <3>2 DEF SoloProgress, MartWhole
    <3>6. ServedView' = version
      <4>1. PICK v : v = version
        OBVIOUS
      <4>2. PICK p \in Parts : TRUE
        OBVIOUS
      <4>3. <<<<p, v>>, s>> \in rows'[live']
        BY <3>5, <4>1 DEF Build
      <4>4. v \in 1..version' /\ Serves(v)'
        <5>1. rows'[live'] = Build(v) \X {s}
          BY <3>5, <4>1
        <5>2. Serves(v)'
          BY <5>1 DEF Serves, Build
        <5>3. v \in 1..version'
          BY <3>1, <3>3, <4>1, <1>t DEF TypeOK
        <5>4. QED BY <5>2, <5>3
      <4>5. ASSUME NEW w \in 1..version', Serves(w)' PROVE w = v
        <5>1. PICK u \in Syncs : rows'[live'] = Build(w) \X {u}
          BY <4>5 DEF Serves, Build
        <5>2. <<p, v>> \in Build(w)
          BY <4>3, <5>1
        <5>3. QED BY <5>2 DEF Build
      <4>6. (CHOOSE w \in 1..version' : Serves(w)') = v
        BY <4>4, <4>5
      <4>7. ServedView' = v
        BY <1>2, <4>3, <4>4, <4>6 DEF ServedView
      <4>8. QED BY <4>1, <4>7
    <3>7. ServedView \in 0..version
      BY <1>t, ViewRange
    <3>8. Readers!Publish
      BY <2>1, <3>1, <3>3, <3>4, <3>6, <3>7 DEF Readers!Publish
    <3>9. QED BY <3>8 DEF Readers!Next
  <2>4. ASSUME NEW s \in Syncs, Begin(s)
        PROVE  rows'[live'] = rows[live] /\ version' = version
    BY <1>t, <2>4 DEF Begin, Truncated, Staging, Tables, TypeOK
  <2>5. ASSUME NEW s \in Syncs, InsertFile(s)
        PROVE  rows'[live'] = rows[live] /\ version' = version
    <3>1. Active(s) /\ pc[s] = "inserting"
      BY <2>5 DEF InsertFile, Active
    <3>2. target[s] = Staging
      BY <2>1, <3>1, CleanProgress DEF SoloProgress
    <3>3. QED BY <1>t, <2>5, <3>2 DEF InsertFile, Staging, Tables, TypeOK
  <2>6. ASSUME NEW s \in Syncs,
               ListFiles(s) \/ EndInsert(s) \/ CountRows(s) \/ Finish(s)
                 \/ Refuse(s) \/ Fail(s)
        PROVE  rows'[live'] = rows[live] /\ version' = version
    BY <2>6 DEF ListFiles, EndInsert, CountRows, Finish, Refuse, Fail
  <2>7. CASE BuildMart \/ FailMart \/ UNCHANGED vars
    <3>1. rows'[live'] = rows[live] /\ version' \in {version, version + 1}
      BY <2>7 DEF BuildMart, DeleteMart, CommitFile, FinishMart, FailMart,
                  vars
    <3>2. QED BY <1>2, <1>t, <2>1, <2>2, <3>1, SameView
  <2>8. ASSUME rows'[live'] = rows[live] /\ version' = version
        PROVE  [Readers!Next]_(Readers!vars)
    BY <1>2, <1>t, <2>1, <2>2, <2>8, SameView
  <2>9. QED
    BY <2>3, <2>4, <2>5, <2>6, <2>7, <2>8 DEF Next, Work
<1>3. QED BY <1>1, <1>2

\* Until two syncs clash, the readers see nothing, then one whole finished
\* build after the other, each replaced by a newer one in a single step.
THEOREM SyncImplementsPublish == Spec => PublishesAtomically
<1>1. Init => Readers!Init
  <2> SUFFICES ASSUME Init PROVE Readers!Init
    OBVIOUS
  <2>1. dir = {} /\ version = 0 /\ rows[live] = {} /\ clashed = FALSE
    BY DEF Init, Tables
  <2>2. FinishedMart = 0
    BY <2>1 DEF FinishedMart
  <2>3. ServedView = 0
    BY <2>1 DEF ServedView
  <2>4. QED BY <2>1, <2>2, <2>3 DEF Readers!Init
<1>2. TypeInv /\ SoloInv /\ CleanInv /\ TypeInv' /\ CleanInv' /\ [Next]_vars
        => [Readers!Next]_(Readers!vars)
  BY PublishStep
<1>3. QED
  BY <1>1, <1>2, CleanInvariant, PTL DEF Spec, PublishesAtomically, Readers!Spec

=============================================================================
