---------------------------- MODULE AtomicPublish ----------------------------
(***************************************************************************)
(* What the serving layer promises its readers: the table they query holds *)
(* one whole version of the mart at every instant; it goes from one to a   *)
(* newer one in a single step, and to none but the finished one.  Once     *)
(* somebody breaks the rule that one writer works at a time the promise is *)
(* void, and stays so.                                                     *)
(***************************************************************************)
EXTENDS Naturals

CONSTANT MaxVersion

VARIABLES mart,  \* version of the finished mart, 0 while it is being rebuilt
          view,  \* version the readers see, 0: none
          void   \* has the promise been voided?

vars == <<mart, view, void>>

Init == mart = 0 /\ view = 0 /\ void = FALSE

Rebuild == /\ mart' \in 0..MaxVersion
           /\ UNCHANGED <<view, void>>

Publish == /\ ~void
           /\ mart # 0 /\ mart >= view
           /\ view' = mart
           /\ UNCHANGED <<mart, void>>

Break == /\ void' = TRUE /\ view' = 0
         /\ mart' \in 0..MaxVersion

Next == Rebuild \/ Publish \/ Break

Spec == Init /\ [][Next]_vars

=============================================================================
