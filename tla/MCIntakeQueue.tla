--------------------------- MODULE MCIntakeQueue ---------------------------
(* The instances of IntakeQueue that TLC checks.                           *)
EXTENDS IntakeQueue, TLC

(* Up to n troubles, each of the kinds given at most once.                 *)
UpTo(n, kinds) == [trouble \in Troubles |-> IF trouble = "any" THEN n
                                            ELSE IF trouble \in kinds THEN 1 ELSE 0]

(* A stall, and what other queues do, come alone.                          *)
Heavy == [trouble \in Troubles |-> IF trouble \in {"stall", "park", "backfill"} THEN 2 ELSE 1]
Interrupted == UpTo(2, Troubles)
(* Up to two of the kinds, and a failing record twice.                     *)
Overtaken == [UpTo(2, {"crash", "stall", "record", "backfill", "park"}) EXCEPT !["record"] = 2]
Each == [trouble \in Troubles |-> 1]

(* Calls, and records, differ in name only.                                *)
Interchangeable == Permutations(Pollers) \cup Permutations(Records)
OneReinjection == UpTo(2, {"record", "reinject"})
=============================================================================
