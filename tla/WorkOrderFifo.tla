---------------------------- MODULE WorkOrderFifo ----------------------------
(***************************************************************************)
(* The work-order queue implements the abstract per-twin queue: the        *)
(* unfinished rows of a twin, sorted by queue_position, are its queue.     *)
(***************************************************************************)
EXTENDS WorkOrderQueue

(* The members of a finite set in the order of the numbers they are at.    *)
Ahead(at, S, o) == {p \in S : at[p] < at[o]}
TheOne(S) == CHOOSE o \in S : TRUE
Sorted(at, S) ==
  [i \in 1 .. Cardinality(S) |-> TheOne({o \in S : Cardinality(Ahead(at, S, o)) = i - 1})]

Unfinished(t) == {o \in Orders : TwinOf[o] = t /\ order[o].status \notin Concluded \cup {"none"}}
Position == [o \in Orders |-> order[o].pos]

(* The queue of every twin, and the orders that have left theirs.          *)
Queues == [t \in Twins |-> Sorted(Position, Unfinished(t))]
Done == {o \in Orders : order[o].status \in Concluded}

Fifo == INSTANCE TwinFifo WITH queue <- Queues, finished <- Done, written <- last

(* A queue without edits keeps the promise: only the head of a twin's      *)
(* queue is written, and orders leave it from the front                    *)
(* (connector.service.ts:1608-1627).                                       *)
ImplementsFifo == Fifo!Spec
=============================================================================
