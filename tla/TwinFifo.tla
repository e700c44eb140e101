------------------------------ MODULE TwinFifo ------------------------------
(***************************************************************************)
(* What Cadena promises about writes to a provider: per twin a queue of    *)
(* orders; only its head is ever written, perhaps more than once, and it   *)
(* leaves the queue only from the front.                                   *)
(***************************************************************************)
EXTENDS Naturals, Sequences

CONSTANTS Orders, Twins, TwinOf, NoOrder

VARIABLES queue,    \* unfinished orders of each twin, oldest first
          finished, \* orders that have left their queue
          written   \* the order last written to each twin

Queued(o) == \E i \in 1 .. Len(queue[TwinOf[o]]) : queue[TwinOf[o]][i] = o

Init == /\ queue = [t \in Twins |-> << >>]
        /\ finished = {}
        /\ written = [t \in Twins |-> NoOrder]

Enqueue(o) == /\ ~Queued(o)
              /\ o \notin finished
              /\ queue' = [queue EXCEPT ![TwinOf[o]] = Append(@, o)]
              /\ UNCHANGED <<finished, written>>

Write(t) == /\ queue[t] # << >>
            /\ written' = [written EXCEPT ![t] = Head(queue[t])]
            /\ UNCHANGED <<queue, finished>>

Finish(t) == /\ queue[t] # << >>
             /\ finished' = finished \cup {Head(queue[t])}
             /\ queue' = [queue EXCEPT ![t] = Tail(@)]
             /\ UNCHANGED written

Next == \/ \E o \in Orders : Enqueue(o)
        \/ \E t \in Twins : Write(t) \/ Finish(t)

Spec == Init /\ [][Next]_<<queue, finished, written>>
=============================================================================
