----------------------------- MODULE SafeCursor -----------------------------
(***************************************************************************)
(* What incremental ingestion promises, whatever the jobs do: a lake that  *)
(* fills from a source whose row versions carry increasing timestamps, and *)
(* a cursor that says how far the lake is complete.  The cursor never goes *)
(* back, never passes a version that the lake lacks, and the lake is       *)
(* emptied only while there is no cursor.                                  *)
(***************************************************************************)
EXTENDS Naturals

CONSTANTS Keys, MaxClock

VARIABLES src,    \* timestamp of the current version of each key, 0: no row
          lake,   \* versions that have been copied
          cursor  \* every version older than this is in the lake, 0: no cursor

vars == <<src, lake, cursor>>

Current == {v \in Keys \X (1..MaxClock) : src[v[1]] = v[2]}

CompleteBelow(c) == \A v \in Current : v[2] < c => v \in lake

Init == /\ src = [k \in Keys |-> 0]
        /\ lake = {}
        /\ cursor = 0

\* The source commits a version that no cursor has passed.
Publish == \E k \in Keys, t \in 1..MaxClock :
    /\ t > src[k] /\ t >= cursor
    /\ src' = [src EXCEPT ![k] = t]
    /\ UNCHANGED <<lake, cursor>>

\* Any set of current versions is copied.
Copy == /\ \E rows \in SUBSET Current : lake' = lake \cup rows
        /\ UNCHANGED <<src, cursor>>

\* The lake is rebuilt from nothing.
Reset == /\ cursor = 0
         /\ lake' = {}
         /\ UNCHANGED <<src, cursor>>

Advance == /\ cursor' \in cursor..MaxClock
           /\ CompleteBelow(cursor')
           /\ UNCHANGED <<src, lake>>

Next == Publish \/ Copy \/ Reset \/ Advance

Spec == Init /\ [][Next]_vars

=============================================================================
