------------------------ MODULE CustomerHistoryProofs ------------------------
(***************************************************************************)
(* Proofs about CustomerHistory, for any customers, values, runs, retries  *)
(* and failures: types, that nothing becomes current unrecorded, that the  *)
(* history ends in the current value while no run is given up, and that    *)
(* every repeated version is accounted for by a failure.                   *)
(***************************************************************************)
EXTENDS CustomerHistory, FiniteSetTheorems, TLAPS

USE AbsentAssumption, BoundsAssumption

\* An append keeps what is recorded and puts the incoming value of each of its
\* customers at the end.
LEMMA AppendedRows ==
    ASSUME TypeOK, NEW rows \in SUBSET Customers,
           \A c \in rows : incoming[c] # Absent,
           history' = Appended(rows), incoming' = incoming
    PROVE  /\ history' \in [Customers -> Seq(Values)]
           /\ \A c \in Customers : \A v : Recorded(c, v) => Recorded(c, v)'
           /\ \A c \in rows : /\ Recorded(c, incoming[c])'
                              /\ Newest(c, incoming[c])'
           /\ \A c \in Customers \ rows : history'[c] = history[c]
<1>1. ASSUME NEW c \in rows
      PROVE  /\ history'[c] \in Seq(Values)
             /\ Len(history'[c]) = Len(history[c]) + 1
             /\ \A i \in 1..Len(history[c]) : history'[c][i] = history[c][i]
             /\ history'[c][Len(history[c]) + 1] = incoming[c]
             /\ Len(history[c]) \in Nat
  <2>1. history[c] \in Seq(Values) /\ incoming[c] \in Values
    BY DEF TypeOK, Snapshots
  <2>2. history'[c] = Append(history[c], incoming[c])
    BY DEF Appended
  <2>3. QED BY <2>1, <2>2
<1>2. \A c \in Customers \ rows : history'[c] = history[c]
  BY DEF Appended
<1>3. history' \in [Customers -> Seq(Values)]
  <2>1. \A c \in Customers : history'[c] \in Seq(Values)
    BY <1>1, <1>2 DEF TypeOK
  <2>2. history' = [c \in Customers |-> history'[c]]
    BY DEF Appended
  <2>3. QED BY <2>1, <2>2
<1>4. ASSUME NEW c \in Customers, NEW v, Recorded(c, v)
      PROVE  Recorded(c, v)'
  <2>1. CASE c \in rows
    BY <1>1, <1>4, <2>1 DEF Recorded
  <2>2. CASE c \notin rows
    BY <1>2, <1>4, <2>2 DEF Recorded
  <2>3. QED BY <2>1, <2>2
<1>5. ASSUME NEW c \in rows
      PROVE  Recorded(c, incoming[c])' /\ Newest(c, incoming[c])'
  BY <1>1 DEF Recorded, Newest
<1>6. QED BY <1>2, <1>3, <1>4, <1>5

\* What a failed attempt has appended is part of what has changed.
LEMMA LeftByHistory ==
    ASSUME TypeOK, LeftBy, incoming' = incoming
    PROVE  \/ history' = history
           \/ /\ pc = "append"
              /\ \E rows \in SUBSET Changed : history' = Appended(rows)
BY DEF LeftBy

-----------------------------------------------------------------------------
(* Types.                                                                  *)

\* Every step keeps the types, one case per action.
LEMMA HistoryTypeStep == TypeOK /\ [Next]_vars => TypeOK'
<1> SUFFICES ASSUME TypeOK, [Next]_vars PROVE TypeOK'
  OBVIOUS
<1> USE DEF TypeOK, Points, Snapshots
<1>0. Changed \in SUBSET Customers /\ \A c \in Changed : incoming[c] # Absent
  BY DEF Changed
<1>1. CASE StartRun
  <2>1. left' \in SUBSET Customers
    BY <1>1 DEF StartRun
  <2>2. QED BY <1>1, <2>1 DEF StartRun
<1>2. CASE ReadCurrent
  <2>1. baseline' \in BOOLEAN
    BY <1>2 DEF ReadCurrent
  <2>2. QED BY <1>2, <2>1 DEF ReadCurrent
<1>3. CASE AppendHistory
  <2>1. history' \in [Customers -> Seq(Values)]
    BY <1>0, <1>3, AppendedRows DEF AppendHistory
  <2>2. QED BY <1>3, <2>1 DEF AppendHistory
<1>4. CASE DeleteCurrent
  <2>1. current' \in Snapshots /\ readable' \in BOOLEAN
    BY <1>4 DEF DeleteCurrent, Nobody
  <2>2. QED BY <1>4, <2>1 DEF DeleteCurrent
<1>5. CASE WriteCurrent
  <2>1. readable' \in BOOLEAN
    BY <1>5 DEF WriteCurrent
  <2>2. QED BY <1>5, <2>1 DEF WriteCurrent
<1>6. CASE Finish
  BY <1>6 DEF Finish
<1>7. CASE Fail
  <2>1. history' \in [Customers -> Seq(Values)]
    <3>1. LeftBy /\ incoming' = incoming
      BY <1>7 DEF Fail
    <3>2. CASE history' = history
      BY <3>2
    <3>3. ASSUME NEW rows \in SUBSET Changed, history' = Appended(rows)
          PROVE  history' \in [Customers -> Seq(Values)]
      BY <1>0, <3>1, <3>3, AppendedRows
    <3>4. QED BY <3>1, <3>2, <3>3, LeftByHistory
  <2>2. current' \in Snapshots
    BY <1>7 DEF Fail, LeftBy
  <2>3. readable' \in BOOLEAN
    BY <1>7 DEF Fail, LeftBy
  <2>4. gaveUp' \in BOOLEAN
    BY <1>7 DEF Fail, Settle
  <2>5. pc' \in Points /\ attempt' \in 0..Retries
    BY <1>7 DEF Fail, Settle
  <2>6. failures' \in 0..MaxFailures
    BY <1>7 DEF Fail
  <2>7. QED BY <1>7, <2>1, <2>2, <2>3, <2>4, <2>5, <2>6 DEF Fail
<1>8. CASE MisreadCurrent
  <2>1. misreads' \in 0..MaxMisreads
    BY <1>8 DEF MisreadCurrent
  <2>2. QED BY <1>8, <2>1 DEF MisreadCurrent
<1>9. CASE UNCHANGED vars
  BY <1>9 DEF vars
<1>10. QED
  BY <1>1, <1>2, <1>3, <1>4, <1>5, <1>6, <1>7, <1>8, <1>9 DEF Next, Work

\* Every variable keeps its type.
THEOREM HistoryTypeCorrect == Spec => []TypeOK
<1>1. Init => TypeOK
  <2> SUFFICES ASSUME Init PROVE TypeOK
    OBVIOUS
  <2>1. readable \in BOOLEAN /\ baseline \in BOOLEAN /\ gaveUp \in BOOLEAN
    BY DEF Init
  <2>2. incoming \in Snapshots /\ current \in Snapshots
    BY DEF Init, Nobody, Snapshots
  <2>3. history \in [Customers -> Seq(Values)]
    BY DEF Init
  <2>4. QED BY <2>1, <2>2, <2>3 DEF Init, TypeOK, Points
<1>2. QED BY <1>1, HistoryTypeStep, PTL DEF Spec

-----------------------------------------------------------------------------
(* Nothing becomes current unrecorded.                                     *)

\* The points at which the append of the running attempt is complete.
AfterAppend == {"delete", "write", "register"}

RecordInv ==
    /\ CurrentInHistory
    /\ pc \in AfterAppend =>
          \A c \in Customers : incoming[c] # Absent => Recorded(c, incoming[c])

\* The invariant is preserved.
LEMMA RecordStep == TypeOK /\ RecordInv /\ [Next]_vars => RecordInv'
<1> SUFFICES ASSUME TypeOK, RecordInv, [Next]_vars PROVE RecordInv'
  OBVIOUS
<1> USE DEF AfterAppend
<1>0. Changed \in SUBSET Customers /\ \A c \in Changed : incoming[c] # Absent
  BY DEF Changed
<1>1. CASE StartRun \/ ReadCurrent \/ MisreadCurrent \/ Finish
  BY <1>1 DEF StartRun, ReadCurrent, MisreadCurrent, Finish, RecordInv,
              CurrentInHistory, Recorded
<1>2. CASE AppendHistory
  <2>1. UNCHANGED <<incoming, current>> /\ history' = Appended(Changed)
    BY <1>2 DEF AppendHistory
  <2>2. /\ \A c \in Customers : \A v : Recorded(c, v) => Recorded(c, v)'
        /\ \A c \in Changed : Recorded(c, incoming[c])'
    BY <1>0, <2>1, AppendedRows
  <2>3. \A c \in Customers \ Changed :
           incoming[c] # Absent => current[c] = incoming[c]
    BY DEF Changed
  <2>4. ASSUME NEW c \in Customers, current[c] # Absent
        PROVE  Recorded(c, current[c])'
    <3>1. PICK v : v = current[c]
      OBVIOUS
    <3>2. Recorded(c, v)'
      BY <2>2, <2>4, <3>1 DEF RecordInv, CurrentInHistory
    <3>3. QED BY <2>1, <3>1, <3>2 DEF Recorded
  <2>5. ASSUME NEW c \in Customers, incoming[c] # Absent
        PROVE  Recorded(c, incoming[c])'
    <3>1. CASE c \in Changed
      BY <2>2, <3>1
    <3>2. CASE c \notin Changed
      <4>1. current[c] = incoming[c] /\ current'[c] = incoming'[c]
        BY <2>1, <2>3, <2>5, <3>2
      <4>2. Recorded(c, current[c])'
        BY <2>4, <2>5, <4>1
      <4>3. QED BY <4>1, <4>2 DEF Recorded
    <3>3. QED BY <3>1, <3>2
  <2>6. QED BY <2>1, <2>4, <2>5 DEF RecordInv, CurrentInHistory, Recorded
<1>3. CASE DeleteCurrent
  BY <1>3 DEF DeleteCurrent, Nobody, RecordInv, CurrentInHistory, Recorded
<1>4. CASE WriteCurrent
  BY <1>4 DEF WriteCurrent, RecordInv, CurrentInHistory, Recorded
<1>5. CASE Fail
  <2>1. LeftBy /\ incoming' = incoming /\ pc' \notin AfterAppend
    BY <1>5 DEF Fail, Settle
  <2>2. \A c \in Customers : \A v : Recorded(c, v) => Recorded(c, v)'
    <3>1. CASE history' = history
      BY <3>1 DEF Recorded
    <3>2. ASSUME NEW rows \in SUBSET Changed, history' = Appended(rows)
          PROVE  \A c \in Customers : \A v : Recorded(c, v) => Recorded(c, v)'
      BY <1>0, <2>1, <3>2, AppendedRows
    <3>3. QED BY <2>1, <3>1, <3>2, LeftByHistory
  <2>3. \A c \in Customers : \/ current'[c] = current[c]
                             \/ current'[c] = Absent
                             \/ current'[c] = incoming[c] /\ pc = "write"
    BY <2>1 DEF LeftBy
  <2>4. \A c \in Customers : current'[c] # Absent => Recorded(c, current'[c])
    BY <2>3 DEF RecordInv, CurrentInHistory
  <2>5. \A c \in Customers : current'[c] # Absent => Recorded(c, current[c])'
    BY <2>2, <2>4 DEF Recorded
  <2>6. QED BY <2>1, <2>5 DEF RecordInv, CurrentInHistory
<1>6. CASE UNCHANGED vars
  BY <1>6 DEF vars, RecordInv, CurrentInHistory, Recorded
<1>7. QED BY <1>1, <1>2, <1>3, <1>4, <1>5, <1>6 DEF Next, Work

\* Whatever fails, and however often, dim_customer never shows a value that
\* its history lacks.
THEOREM NothingUnrecorded == Spec => []CurrentInHistory
<1>1. Init => RecordInv
  BY DEF Init, RecordInv, CurrentInHistory, Nobody, AfterAppend
<1>2. RecordInv => CurrentInHistory
  BY DEF RecordInv
<1>3. QED BY <1>1, <1>2, RecordStep, HistoryTypeCorrect, PTL DEF Spec

-----------------------------------------------------------------------------
(* The history ends in the current value.                                  *)

EndInv ==
    ~gaveUp => \A c \in Customers :
        /\ pc \in {"idle", "register"} /\ current[c] # Absent =>
              Newest(c, current[c])
        /\ pc \in {"queued", "append"} /\ current[c] # Absent
              /\ current[c] = incoming[c] => Newest(c, current[c])
        /\ pc \in AfterAppend /\ incoming[c] # Absent =>
              Newest(c, incoming[c])

\* The invariant is preserved.
LEMMA EndStep == TypeOK /\ EndInv /\ [Next]_vars => EndInv'
<1> SUFFICES ASSUME TypeOK, EndInv, [Next]_vars, ~gaveUp', NEW c \in Customers
             PROVE  /\ pc' \in {"idle", "register"} /\ current'[c] # Absent =>
                         Newest(c, current[c])'
                    /\ pc' \in {"queued", "append"} /\ current'[c] # Absent
                         /\ current'[c] = incoming'[c] => Newest(c, current[c])'
                    /\ pc' \in AfterAppend /\ incoming'[c] # Absent =>
                         Newest(c, incoming[c])'
  BY DEF EndInv
<1> USE DEF AfterAppend
<1>0. Changed \in SUBSET Customers /\ \A d \in Changed : incoming[d] # Absent
  BY DEF Changed
<1>g. ~gaveUp
  BY DEF Next, Work, StartRun, ReadCurrent, MisreadCurrent, AppendHistory,
         DeleteCurrent, WriteCurrent, Finish, Fail, Settle, vars, TypeOK
<1>1. CASE StartRun \/ ReadCurrent \/ MisreadCurrent \/ Finish
  BY <1>g, <1>1 DEF StartRun, ReadCurrent, MisreadCurrent, Finish, EndInv,
                    Newest
<1>2. CASE AppendHistory
  <2>1. /\ UNCHANGED <<incoming, current>> /\ history' = Appended(Changed)
        /\ pc = "append" /\ pc' = "delete"
    BY <1>2 DEF AppendHistory
  <2>2. CASE c \in Changed
    <3>1. Newest(c, incoming[c])'
      BY <1>0, <2>1, <2>2, AppendedRows
    <3>2. QED BY <2>1, <3>1
  <2>3. CASE c \notin Changed
    <3>1. history'[c] = history[c]
      BY <2>1, <2>3 DEF Appended
    <3>2. incoming[c] # Absent => current[c] = incoming[c]
      BY <2>3 DEF Changed
    <3>3. QED BY <1>g, <2>1, <3>1, <3>2 DEF EndInv, Newest
  <2>4. QED BY <2>2, <2>3
<1>3. CASE DeleteCurrent
  BY <1>g, <1>3 DEF DeleteCurrent, Nobody, EndInv, Newest
<1>4. CASE WriteCurrent
  BY <1>g, <1>4 DEF WriteCurrent, EndInv, Newest
<1>5. CASE Fail
  <2>1. LeftBy /\ incoming' = incoming /\ pc' = "queued" /\ pc # "idle"
    BY <1>5 DEF Fail, Settle
  <2>2. CASE pc = "append"
    <3>1. UNCHANGED current
      BY <2>1, <2>2 DEF LeftBy
    <3>2. CASE history' = history
      BY <1>g, <2>1, <2>2, <3>1, <3>2 DEF EndInv, Newest
    <3>3. ASSUME NEW rows \in SUBSET Changed, history' = Appended(rows)
          PROVE  current'[c] # Absent /\ current'[c] = incoming'[c]
                    => Newest(c, current[c])'
      <4>1. CASE c \in rows
        <5>1. Newest(c, incoming[c])'
          BY <1>0, <2>1, <3>3, <4>1, AppendedRows
        <5>2. QED BY <2>1, <5>1 DEF Newest
      <4>2. CASE c \notin rows
        <5>1. history'[c] = history[c]
          BY <3>3, <4>2 DEF Appended
        <5>2. QED BY <1>g, <2>1, <2>2, <3>1, <5>1 DEF EndInv, Newest
      <4>3. QED BY <4>1, <4>2
    <3>4. QED BY <2>1, <3>2, <3>3, LeftByHistory
  <2>3. CASE pc # "append"
    <3>1. history' = history
      BY <2>1, <2>3 DEF LeftBy
    <3>2. current'[c] # Absent /\ pc # "write" => current'[c] = current[c]
      BY <2>1 DEF LeftBy
    <3>3. pc \in {"queued"} \cup AfterAppend
      BY <2>1, <2>3 DEF TypeOK, Points
    <3>4. QED BY <1>g, <2>1, <3>1, <3>2, <3>3 DEF EndInv, Newest
  <2>4. QED BY <2>2, <2>3
<1>6. CASE UNCHANGED vars
  BY <1>g, <1>6 DEF vars, EndInv, Newest
<1>7. QED BY <1>1, <1>2, <1>3, <1>4, <1>5, <1>6 DEF Next, Work

\* While every run gets through, if need be with retries, the newest row of a
\* customer's history is its current one whenever the task has ended.
THEOREM HistoryKeepsUp == Spec => []HistoryEndsInCurrent
<1>1. Init => EndInv
  BY DEF Init, EndInv, Nobody, AfterAppend
<1>2. EndInv => HistoryEndsInCurrent
  BY DEF EndInv, HistoryEndsInCurrent
<1>3. QED BY <1>1, <1>2, EndStep, HistoryTypeCorrect, PTL DEF Spec

-----------------------------------------------------------------------------
(* Repeated versions.                                                      *)

\* The value the history of a customer ends in, between two appends.
Compared(c) == IF pc \in AfterAppend THEN incoming[c] ELSE current[c]

\* The running attempt, or the next one, may repeat the newest version of c:
\* it is not what that attempt compares with.
Due(c) ==
    /\ Len(history[c]) > 0
    /\ \/ ~Newest(c, Compared(c))
       \/ pc = "append" /\ baseline

Debt(c) == IF Due(c) THEN 1 ELSE 0

Faults == (MaxFailures - failures) + (MaxMisreads - misreads)

\* What is repeated, and what may still be, has been paid for by a failed
\* attempt or a failed read; an unreadable table is empty, and a customer with
\* a history that has never disappeared is in every snapshot.
AccountInv ==
    /\ ~readable => current = Nobody
    /\ pc = "register" => readable /\ current = incoming
    /\ \A c \in Customers \ left :
          /\ Cardinality(Repeats(c)) + Debt(c) <= Faults
          /\ Len(history[c]) > 0 => incoming[c] # Absent

\* There are finitely many repetitions.
LEMMA RepeatsFinite ==
    ASSUME TypeOK, NEW c \in Customers
    PROVE  IsFiniteSet(Repeats(c)) /\ Cardinality(Repeats(c)) \in Nat
<1>1. Len(history[c]) \in Nat
  BY DEF TypeOK
<1>2. IsFiniteSet(1..Len(history[c]) - 1)
  BY <1>1, FS_Interval
<1>3. Repeats(c) \subseteq 1..Len(history[c]) - 1
  BY DEF Repeats
<1>4. IsFiniteSet(Repeats(c))
  BY <1>2, <1>3, FS_Subset
<1>5. QED BY <1>4, FS_CardinalityType

\* An append to a history repeats its newest version, if it is that one, and
\* nothing else.
LEMMA AppendedRepeats ==
    ASSUME TypeOK, NEW c \in Customers, incoming[c] # Absent,
           history'[c] = Append(history[c], incoming[c])
    PROVE  /\ Cardinality(Repeats(c)') \in Nat
           /\ Cardinality(Repeats(c)') <= Cardinality(Repeats(c)) + 1
           /\ ~Newest(c, incoming[c]) => Repeats(c)' = Repeats(c)
<1> DEFINE n == Len(history[c])
<1>1. history[c] \in Seq(Values) /\ incoming[c] \in Values
  BY DEF TypeOK, Snapshots
<1>2. /\ n \in Nat /\ Len(history'[c]) = n + 1
      /\ \A i \in 1..n : history'[c][i] = history[c][i]
      /\ history'[c][n + 1] = incoming[c]
  BY <1>1
<1>3. \A i \in 1..n - 1 : /\ history'[c][i] = history[c][i]
                          /\ history'[c][i + 1] = history[c][i + 1]
  BY <1>2
<1>4. Repeats(c)' = {i \in 1..n : history'[c][i] = history'[c][i + 1]}
  BY <1>2 DEF Repeats
<1>5. Repeats(c)' \ {n} = Repeats(c)
  <2>1. \A i : i \in 1..n /\ i # n <=> i \in 1..n - 1
    BY <1>2
  <2>2. QED BY <1>3, <1>4, <2>1 DEF Repeats
<1>6. n \in Repeats(c)' => Newest(c, incoming[c])
  BY <1>2, <1>4 DEF Newest
<1>7. ~Newest(c, incoming[c]) => Repeats(c)' = Repeats(c)
  BY <1>5, <1>6
<1>8. CASE n \in Repeats(c)'
  <2>1. Repeats(c)' = Repeats(c) \cup {n} /\ n \notin Repeats(c)
    BY <1>5, <1>8
  <2>2. Cardinality(Repeats(c) \cup {n}) = Cardinality(Repeats(c)) + 1
    BY <2>1, RepeatsFinite, FS_AddElement
  <2>3. Cardinality(Repeats(c)') = Cardinality(Repeats(c) \cup {n})
    BY <2>1, Zenon
  <2>4. QED BY <1>7, <2>2, <2>3, RepeatsFinite
<1>9. CASE n \notin Repeats(c)'
  <2>1. Repeats(c)' = Repeats(c)
    BY <1>5, <1>9
  <2>2. Cardinality(Repeats(c)') = Cardinality(Repeats(c))
    BY <2>1, Zenon
  <2>3. QED BY <2>1, <2>2, RepeatsFinite
<1>10. QED BY <1>8, <1>9

\* Nothing is repeated in a history that stays as it is.
LEMMA SameRepeats ==
    ASSUME NEW c \in Customers, history'[c] = history[c]
    PROVE  Repeats(c)' = Repeats(c)
BY DEF Repeats

\* An append of some of what has changed repeats a version only where one was
\* due.
LEMMA ChangedRepeats ==
    ASSUME TypeOK, NEW rows \in SUBSET Changed, history' = Appended(rows),
           pc = "append", NEW c \in Customers
    PROVE  /\ Cardinality(Repeats(c)') \in Nat
           /\ Cardinality(Repeats(c)') <= Cardinality(Repeats(c)) + Debt(c)
<1>1. CASE c \notin rows
  <2>1. history'[c] = history[c]
    BY <1>1 DEF Appended
  <2>2. Cardinality(Repeats(c)') = Cardinality(Repeats(c))
    BY <2>1, SameRepeats, Zenon
  <2>3. QED BY <2>2, RepeatsFinite DEF Debt
<1>2. CASE c \in rows
  <2>1. history'[c] = Append(history[c], incoming[c])
    BY <1>2 DEF Appended
  <2>2. incoming[c] # Absent /\ (baseline \/ current[c] # incoming[c])
    BY <1>2 DEF Changed
  <2>3. Newest(c, incoming[c]) => Due(c)
    BY <2>2 DEF Due, Newest, Compared, AfterAppend
  <2>4. CASE Newest(c, incoming[c])
    BY <2>1, <2>2, <2>3, <2>4, AppendedRepeats, RepeatsFinite DEF Debt
  <2>5. CASE ~Newest(c, incoming[c])
    <3>1. Repeats(c)' = Repeats(c)
      BY <2>1, <2>2, <2>5, AppendedRepeats
    <3>2. Cardinality(Repeats(c)') = Cardinality(Repeats(c))
      BY <3>1, Zenon
    <3>3. QED BY <3>2, RepeatsFinite DEF Debt
  <2>6. QED BY <2>4, <2>5
<1>3. QED BY <1>1, <1>2
\* Without a change of the history, an account stays in order that gets no
\* more to pay, or one fault more to pay it from.
LEMMA SameAccount ==
    ASSUME TypeOK, NEW c \in Customers, history'[c] = history[c],
           Cardinality(Repeats(c)) + Debt(c) <= Faults,
           \/ Faults' = Faults /\ (Due(c)' => Due(c))
           \/ Faults' = Faults + 1
    PROVE  Cardinality(Repeats(c)') + Debt(c)' <= Faults'
<1>1. Cardinality(Repeats(c)') = Cardinality(Repeats(c))
  BY SameRepeats, Zenon
<1>2. Faults \in Int
  BY DEF Faults, TypeOK
<1>3. QED BY <1>1, <1>2, RepeatsFinite DEF Debt

\* The invariant is preserved.
LEMMA AccountStep == TypeOK /\ AccountInv /\ [Next]_vars => AccountInv'
<1> SUFFICES ASSUME TypeOK, AccountInv, [Next]_vars PROVE AccountInv'
  OBVIOUS
<1>r. /\ ~readable => current = Nobody
      /\ pc = "register" => readable /\ current = incoming
  BY DEF AccountInv
<1>c. \A c \in Customers \ left :
         /\ Cardinality(Repeats(c)) + Debt(c) <= Faults
         /\ Len(history[c]) > 0 => incoming[c] # Absent
  BY DEF AccountInv
<1>l. ASSUME NEW c \in Customers, Len(history[c]) > 0
      PROVE  ~Newest(c, Absent)
  BY <1>l DEF TypeOK, Newest
<1> DEFINE Settled(c) ==
             /\ Cardinality(Repeats(c)') + Debt(c)' <= Faults'
             /\ Len(history'[c]) > 0 => incoming'[c] # Absent
           ReadInv == /\ ~readable => current = Nobody
                      /\ pc = "register" => readable /\ current = incoming
<1>q. ASSUME ReadInv', \A c \in Customers \ left' : Settled(c)
      PROVE  AccountInv'
  BY <1>q DEF AccountInv
<1> HIDE DEF Settled, ReadInv
<1>s. ASSUME NEW c \in Customers \ left, history'[c] = history[c],
             incoming' = incoming,
             \/ Faults' = Faults /\ (Due(c)' => Due(c))
             \/ Faults' = Faults + 1
      PROVE  Settled(c)
  <2>1. Cardinality(Repeats(c)') + Debt(c)' <= Faults'
    BY <1>c, <1>s, SameAccount
  <2>2. QED BY <1>c, <1>s, <2>1 DEF Settled
<1>1. CASE StartRun
  <2>1. /\ UNCHANGED <<history, current, readable, baseline, failures, misreads>>
        /\ pc = "idle" /\ pc' = "queued"
    BY <1>1 DEF StartRun
  <2>2. ASSUME NEW c \in Customers \ left'
        PROVE  c \notin left /\ (incoming[c] # Absent => incoming'[c] # Absent)
    BY <1>1, <2>2 DEF StartRun
  <2>3. ASSUME NEW c \in Customers \ left' PROVE Settled(c)
    <3>1. Due(c)' => Due(c)
      BY <2>1 DEF Due, Newest, Compared, AfterAppend
    <3>2. Faults' = Faults
      BY <2>1 DEF Faults
    <3>3. Cardinality(Repeats(c)') + Debt(c)' <= Faults'
      BY <1>c, <2>1, <2>2, <3>1, <3>2, SameAccount
    <3>4. QED BY <1>c, <2>1, <2>2, <3>3 DEF Settled
  <2>4. ReadInv'
    BY <1>r, <2>1 DEF ReadInv
  <2>5. QED BY <1>q, <2>3, <2>4
<1>2. CASE ReadCurrent
  <2>1. /\ UNCHANGED <<history, current, readable, incoming, left, failures,
                       misreads>>
        /\ pc = "queued" /\ pc' = "append" /\ baseline' = ~readable
    BY <1>2 DEF ReadCurrent
  <2>2. ASSUME NEW c \in Customers \ left' PROVE Settled(c)
    <3>1. ASSUME Due(c)' PROVE Due(c)
      <4>1. Len(history[c]) > 0
        BY <2>1, <3>1 DEF Due
      <4>2. CASE readable
        BY <2>1, <3>1, <4>2 DEF Due, Newest, Compared, AfterAppend
      <4>3. CASE ~readable
        <5>1. current[c] = Absent
          BY <1>r, <4>3 DEF Nobody
        <5>2. ~Newest(c, current[c])
          BY <1>l, <4>1, <5>1
        <5>3. QED BY <2>1, <4>1, <5>2 DEF Due, Compared, AfterAppend
      <4>4. QED BY <4>2, <4>3
    <3>2. Faults' = Faults
      BY <2>1 DEF Faults
    <3>3. QED BY <1>s, <2>1, <3>1, <3>2
  <2>3. ReadInv'
    BY <1>r, <2>1 DEF ReadInv
  <2>4. QED BY <1>q, <2>2, <2>3
<1>3. CASE MisreadCurrent
  <2>1. /\ UNCHANGED <<history, current, readable, incoming, left, failures>>
        /\ pc' = "append" /\ misreads' = misreads - 1
    BY <1>3 DEF MisreadCurrent
  <2>2. Faults' = Faults + 1
    BY <2>1 DEF Faults, TypeOK
  <2>3. ASSUME NEW c \in Customers \ left' PROVE Settled(c)
    BY <1>s, <2>1, <2>2
  <2>4. ReadInv'
    BY <1>r, <2>1 DEF ReadInv
  <2>5. QED BY <1>q, <2>3, <2>4
<1>4. CASE AppendHistory
  <2>1. /\ UNCHANGED <<incoming, current, readable, left, failures, misreads>>
        /\ history' = Appended(Changed)
        /\ pc = "append" /\ pc' = "delete"
    BY <1>4 DEF AppendHistory
  <2>2. Faults' = Faults /\ Faults \in Int
    BY <2>1 DEF Faults, TypeOK
  <2>3. ASSUME NEW c \in Customers \ left' PROVE Settled(c)
    <3>1. CASE c \in Changed
      <4>1. incoming[c] # Absent
        BY <3>1 DEF Changed
      <4>2. Newest(c, incoming[c])'
        <5>1. /\ Changed \in SUBSET Customers
              /\ \A d \in Changed : incoming[d] # Absent
          BY DEF Changed
        <5>2. QED BY <2>1, <3>1, <5>1, AppendedRows
      <4>3. ~Due(c)'
        BY <2>1, <4>2 DEF Due, Compared, AfterAppend, Newest
      <4>4. /\ Cardinality(Repeats(c)') \in Nat
            /\ Cardinality(Repeats(c)') <= Cardinality(Repeats(c)) + Debt(c)
        BY <2>1, ChangedRepeats
      <4>5. Debt(c)' = 0 /\ Debt(c) \in Nat
        BY <4>3 DEF Debt
      <4>6. Cardinality(Repeats(c)') + Debt(c)' <= Faults'
        BY <1>c, <2>1, <2>2, <4>4, <4>5, RepeatsFinite
      <4>7. QED BY <2>1, <4>1, <4>6 DEF Settled
    <3>2. CASE c \notin Changed
      <4>1. history'[c] = history[c]
        BY <2>1, <3>2 DEF Appended
      <4>2. /\ Len(history[c]) > 0 => incoming[c] # Absent
            /\ incoming[c] # Absent => current[c] = incoming[c]
        BY <1>c, <2>1, <3>2 DEF Changed
      <4>3. Due(c)' => Due(c)
        BY <2>1, <4>1, <4>2 DEF Due, Newest, Compared, AfterAppend
      <4>4. QED BY <1>s, <2>1, <2>2, <4>1, <4>3
    <3>3. QED BY <3>1, <3>2
  <2>4. ReadInv'
    BY <1>r, <2>1 DEF ReadInv
  <2>5. QED BY <1>q, <2>3, <2>4
<1>5. CASE DeleteCurrent \/ WriteCurrent \/ Finish
  <2>1. /\ UNCHANGED <<history, incoming, left, failures, misreads>>
        /\ pc \in AfterAppend
        /\ \/ pc' \in AfterAppend
           \/ pc' = "idle" /\ current' = incoming
    BY <1>r, <1>5 DEF DeleteCurrent, WriteCurrent, Finish, AfterAppend
  <2>2. ASSUME NEW c \in Customers \ left' PROVE Settled(c)
    <3>1. Due(c)' => Due(c)
      BY <2>1 DEF Due, Newest, Compared, AfterAppend
    <3>2. Faults' = Faults
      BY <2>1 DEF Faults
    <3>3. QED BY <1>s, <2>1, <3>1, <3>2
  <2>3. ReadInv'
    BY <1>r, <1>5 DEF DeleteCurrent, WriteCurrent, Finish, ReadInv
  <2>4. QED BY <1>q, <2>2, <2>3
<1>6. CASE Fail
  <2>1. /\ LeftBy /\ UNCHANGED <<incoming, left, misreads>>
        /\ failures' = failures - 1
        /\ pc' \in {"queued", "idle"}
    BY <1>6 DEF Fail, Settle
  <2>2. Faults' = Faults + 1 /\ Faults \in Int
    BY <2>1 DEF Faults, TypeOK
  <2>3. ASSUME NEW c \in Customers \ left' PROVE Settled(c)
    <3>1. CASE history' = history
      BY <1>s, <2>1, <2>2, <3>1
    <3>2. ASSUME NEW rows \in SUBSET Changed, history' = Appended(rows),
                 pc = "append"
          PROVE  Settled(c)
      <4>1. /\ Cardinality(Repeats(c)') \in Nat
            /\ Cardinality(Repeats(c)') <= Cardinality(Repeats(c)) + Debt(c)
        BY <3>2, ChangedRepeats
      <4>2. Debt(c)' \in 0..1 /\ Debt(c) \in Nat
        BY DEF Debt
      <4>3. Cardinality(Repeats(c)') + Debt(c)' <= Faults'
        BY <1>c, <2>1, <2>2, <4>1, <4>2, RepeatsFinite
      <4>4. Len(history'[c]) > 0 => incoming'[c] # Absent
        <5>1. CASE c \in rows
          BY <2>1, <3>2, <5>1 DEF Changed
        <5>2. CASE c \notin rows
          <6>1. history'[c] = history[c]
            BY <3>2, <5>2 DEF Appended
          <6>2. QED BY <1>c, <2>1, <6>1
        <5>3. QED BY <5>1, <5>2
      <4>5. QED BY <4>3, <4>4 DEF Settled
    <3>3. QED BY <2>1, <3>1, <3>2, LeftByHistory
  <2>4. ReadInv'
    BY <1>r, <2>1 DEF LeftBy, ReadInv
  <2>5. QED BY <1>q, <2>3, <2>4
<1>7. CASE UNCHANGED vars
  <2>1. ASSUME NEW c \in Customers \ left' PROVE Settled(c)
    BY <1>s, <1>7, <2>1 DEF vars, Faults, Due, Newest, Compared
  <2>2. ReadInv'
    BY <1>r, <1>7 DEF vars, ReadInv
  <2>3. QED BY <1>q, <2>1, <2>2
<1>8. QED
  BY <1>1, <1>2, <1>3, <1>4, <1>5, <1>6, <1>7 DEF Next, Work

\* In any number of runs the history of a customer that has never disappeared
\* repeats a version at most as often as an attempt has failed or a read of
\* dim_customer has failed unnoticed; without faults only changes are appended.
THEOREM RepeatsBounded ==
    Spec => [](/\ RepeatsAccounted
               /\ failures = MaxFailures /\ misreads = MaxMisreads =>
                     \A c \in Customers \ left : Repeats(c) = {})
<1>1. Init => AccountInv
  <2> SUFFICES ASSUME Init PROVE AccountInv
    OBVIOUS
  <2>1. pc = "idle" /\ \A c \in Customers : history[c] = <<>>
    BY DEF Init
  <2>2. ASSUME NEW c \in Customers
        PROVE  /\ Cardinality(Repeats(c)) + Debt(c) <= Faults
               /\ ~(Len(history[c]) > 0)
    <3>1. history[c] = <<>>
      BY <2>1
    <3>2. Len(<<>>) = 0
      OBVIOUS
    <3>3. Len(history[c]) = 0
      BY <3>1, <3>2
    <3>4. 1..Len(history[c]) - 1 = {}
      BY <3>3
    <3>5. Repeats(c) = {}
      BY <3>4 DEF Repeats
    <3>6. Cardinality(Repeats(c)) = 0
      BY <3>5, FS_EmptySet
    <3>7. Debt(c) = 0 /\ Faults = 0
      BY <3>3 DEF Debt, Due, Faults, Init
    <3>8. QED BY <3>3, <3>6, <3>7
  <2>3. QED BY <2>1, <2>2 DEF AccountInv, Init
<1>2. TypeOK /\ AccountInv =>
         /\ RepeatsAccounted
         /\ failures = MaxFailures /\ misreads = MaxMisreads =>
               \A c \in Customers \ left : Repeats(c) = {}
  <2> SUFFICES ASSUME TypeOK, AccountInv, NEW c \in Customers \ left
               PROVE  /\ Cardinality(Repeats(c)) <= Faults
                      /\ Faults = 0 => Repeats(c) = {}
    BY DEF RepeatsAccounted, Faults
  <2>1. Cardinality(Repeats(c)) <= Faults
    BY RepeatsFinite DEF AccountInv, Debt, Faults, TypeOK
  <2>2. Faults = 0 => Cardinality(Repeats(c)) = 0
    BY <2>1, RepeatsFinite
  <2>3. QED BY <2>1, <2>2, RepeatsFinite, FS_EmptySet
<1>3. QED BY <1>1, <1>2, AccountStep, HistoryTypeCorrect, PTL DEF Spec

=============================================================================
