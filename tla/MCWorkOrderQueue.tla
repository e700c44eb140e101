-------------------------- MODULE MCWorkOrderQueue --------------------------
(* The instances of WorkOrderQueue that TLC checks: two workers and two    *)
(* orders of one twin.                                                     *)
EXTENDS WorkOrderFifo, TLC

CONSTANTS w1, w2, t1, o1, o2

TwoOrders == {o1, o2}
OneTwin == [o \in TwoOrders |-> t1]

(* One trouble of any kind.                                                *)
Interrupted == [trouble \in Troubles |-> 1]

(* A crash and a re-injection, or two re-injections.                       *)
CrashAndReinjection == [trouble \in Troubles |->
  IF trouble \in {"any", "reinject"} THEN 2 ELSE IF trouble = "crash" THEN 1 ELSE 0]

(* The workers differ in name only.                                        *)
Interchangeable == Permutations({w1, w2})
=============================================================================
