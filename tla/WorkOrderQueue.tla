---------------------------- MODULE WorkOrderQueue ----------------------------
(***************************************************************************)
(* The outbound queue of Cadena's connectors (connector.service.ts): every *)
(* change to write to a provider is a durable work order; the orders of    *)
(* one canonical twin are executed one at a time in queue_position order,  *)
(* with an expiring claim, bounded retries, holds, load shedding and a     *)
(* dead-letter queue from which operators re-inject.                       *)
(*                                                                         *)
(* A worker is one drain (processDueWorkOrders) or one operator's edit     *)
(* (routeTwinEdit) of some process; each awaited query or provider call is *)
(* a step of its own.  Time is abstracted: a backoff may end, and a sync   *)
(* may drain the queue, at any moment.                                     *)
(***************************************************************************)
EXTENDS Naturals, FiniteSets

CONSTANTS Workers,       \* concurrent drains and edits, over all processes
          Orders,        \* work orders that may be prepared
          Twins,         \* target twins
          TwinOf,        \* the target twin of each order
          Edits,         \* orders of origin 'operator_edit'; the others are
                         \* of origin 'state_propagation'
          MaxAttempts,   \* MAX_WORK_ORDER_ATTEMPTS
          Budget         \* bound: how often each kind of trouble happens,
                         \* and how much of "any" kind

Troubles == {"any", "crash", "stall", "fault", "shed", "pause", "reinject"}

ASSUME WorkerAssumption == "nobody" \notin Workers
ASSUME TwinAssumption == TwinOf \in [Orders -> Twins]
ASSUME EditAssumption == Edits \subseteq Orders
ASSUME AttemptAssumption == MaxAttempts \in Nat \ {0}
ASSUME BudgetAssumption == Budget \in [Troubles -> Nat]

VARIABLES order,    \* rows of integration_connector_work_orders
          nextPos,  \* integration_twin_queue_position_seq
          sync,     \* integration_canonical_twins.sync_state
          worker,   \* where each worker is, its order, the attempts it saw
          leaked,   \* claims renewed by a heartbeat whose worker has gone
          paused,   \* integration_connectors.status = 'paused'
          opened,   \* dead-letter entries operators have open, per order
          last,     \* history: the order last applied to each twin
          refused,  \* history: orders the provider refused for good
          tries,    \* history: claims since the last (re-)injection that
                    \* were not shed
          budget    \* trouble still to come

vars == <<order, nextPos, sync, worker, leaked, paused, opened, last, refused, tries, budget>>
history == <<last, refused, tries>>

NoOrder == "none"
NoOwner == "nobody"
Absent == [status |-> "none", pos |-> 0, attempts |-> 0, owner |-> NoOwner,
           expired |-> FALSE, translated |-> FALSE]
Idle == [stage |-> "idle", order |-> NoOrder, seen |-> 0]

(* Statuses that block younger orders of the twin, and those that end one. *)
BlockingMutant == {"pending", "processing", "failed"}
Blocking == {"pending", "processing", "failed", "dead", "held"}
Parked == {"dead", "held"}

Older(o) == {p \in Orders : /\ TwinOf[p] = TwinOf[o]
                            /\ order[p].pos < order[o].pos
                            /\ order[p].status \in Blocking}
ClaimableMutant(r) == r.status \in {"pending", "failed", "processing"}
ClaimableMutantLost(r) == r.status \in {"pending", "failed"}
Claimable(r) == \/ r.status \in {"pending", "failed"}
                \/ r.status = "processing" /\ r.expired

(* Stages of a worker whose claim was won and whose heartbeat runs.        *)
Holding == {"setup", "translate", "hold", "noop", "save", "push", "record",
            "complete", "retry", "die", "shed"}
Holds(w, o) == worker[w].stage \in Holding /\ worker[w].order = o

(* The fence of every UPDATE after the claim: AND claimed_by = claimId.    *)
FencedMutant(w) == TRUE
Fenced(w) == order[worker[w].order].owner = w

Spend(trouble) == /\ budget[trouble] > 0
                  /\ budget["any"] > 0
                  /\ budget' = [budget EXCEPT ![trouble] = @ - 1, !["any"] = @ - 1]
Goto(w, stage) == worker' = [worker EXCEPT ![w].stage = stage]
Leave(w) == worker' = [worker EXCEPT ![w] = Idle]

-----------------------------------------------------------------------------
Init == /\ order = [o \in Orders |-> Absent]
        /\ nextPos = 1
        /\ sync = [t \in Twins |-> "synced"]
        /\ worker = [w \in Workers |-> Idle]
        /\ leaked = {}
        /\ paused = FALSE
        /\ opened = [o \in Orders |-> 0]
        /\ last = [t \in Twins |-> NoOrder]
        /\ refused = {}
        /\ tries = [o \in Orders |-> 0]
        /\ budget = Budget

(***************************************************************************)
(* Preparing orders.                                                       *)
(***************************************************************************)

(* acceptPropagationEvent inserts one order per counterpart, at most once  *)
(* per event and twin.                                                     *)
Propagate(o) ==
  /\ o \notin Edits
  /\ order[o].status = "none"
  /\ order' = [order EXCEPT ![o].status = "pending", ![o].pos = nextPos]
  /\ nextPos' = nextPos + 1
  /\ UNCHANGED <<opened, sync, worker, leaked, paused, history, budget>>

(* routeTwinEdit inserts its order in a transaction with its event: the    *)
(* position is drawn now, the row is visible after the commit.             *)
BeginEdit(w, o) ==
  /\ o \in Edits
  /\ worker[w].stage = "idle"
  /\ order[o].status = "none"
  /\ order[o].pos = 0
  /\ order' = [order EXCEPT ![o].pos = nextPos]
  /\ nextPos' = nextPos + 1
  /\ worker' = [worker EXCEPT ![w] = [stage |-> "insert", order |-> o, seen |-> 0]]
  /\ UNCHANGED <<opened, sync, leaked, paused, history, budget>>

(* After the commit routeTwinEdit executes its own order at once.          *)
CommitEdit(w) ==
  /\ worker[w].stage = "insert"
  /\ order' = [order EXCEPT ![worker[w].order].status = "pending"]
  /\ Goto(w, "load")
  /\ UNCHANGED <<opened, nextPos, sync, leaked, paused, history, budget>>

(***************************************************************************)
(* Executing one order.                                                    *)
(***************************************************************************)

(* processDueWorkOrders selects a due order that heads its twin's queue.   *)
Drain(w, o) ==
  /\ worker[w].stage = "idle"
  /\ Claimable(order[o])
  /\ Older(o) = {}
  /\ worker' = [worker EXCEPT ![w] = [stage |-> "load", order |-> o, seen |-> 0]]
  /\ UNCHANGED <<opened, order, nextPos, sync, leaked, paused, history, budget>>

(* executeWorkOrder loads the row; a paused connector keeps it queued.     *)
Load(w) ==
  LET r == order[worker[w].order]
  IN  /\ worker[w].stage = "load"
      /\ IF Claimable(r) /\ ~paused
           THEN worker' = [worker EXCEPT ![w].stage = "check", ![w].seen = r.attempts]
           ELSE Leave(w)
      /\ UNCHANGED <<opened, order, nextPos, sync, leaked, paused, history, budget>>

(* It looks for an older order of the twin that is still unfinished.       *)
Check(w) ==
  /\ worker[w].stage = "check"
  /\ IF Older(worker[w].order) # {} THEN Leave(w) ELSE Goto(w, "claim")
  /\ UNCHANGED <<opened, order, nextPos, sync, leaked, paused, history, budget>>

(* The claim: one UPDATE, won if nobody counted an attempt since the load. *)
Wins(w) == /\ Claimable(order[worker[w].order])
           /\ order[worker[w].order].attempts = worker[w].seen

Claim(w) ==
  LET o == worker[w].order
  IN  /\ worker[w].stage = "claim"
      /\ IF Wins(w)
           THEN /\ order' = [order EXCEPT ![o].status = "processing", ![o].attempts = @ + 1,
                                          ![o].owner = w, ![o].expired = FALSE]
                /\ tries' = [tries EXCEPT ![o] = @ + 1]
                /\ leaked' = {l \in leaked : l[2] # o}
                /\ worker' = [worker EXCEPT ![w].stage = "setup", ![w].seen = @ + 1]
           ELSE /\ Leave(w)
                /\ UNCHANGED <<order, tries, leaked>>
      /\ UNCHANGED <<opened, nextPos, sync, paused, last, refused, budget>>

(* The heartbeat starts, then the target connector is read.  A propagated  *)
(* order is translated unless a translation is recorded.                   *)
Setup(w) ==
  LET o == worker[w].order
  IN  /\ worker[w].stage = "setup"
      /\ Goto(w, IF o \notin Edits /\ ~order[o].translated THEN "translate" ELSE "push")
      /\ UNCHANGED <<opened, order, nextPos, sync, leaked, paused, history, budget>>

(* The catch of executeWorkOrder: retry later, or the dead-letter queue.   *)
Failed(w, retryable) ==
  Goto(w, IF retryable /\ worker[w].seen < MaxAttempts THEN "retry" ELSE "die")

(* State and field mappings decide what, if anything, will be written.     *)
Translate(w) ==
  /\ worker[w].stage = "translate"
  /\ \/ \E stage \in {"hold", "noop", "save"} : Goto(w, stage)
     \/ Failed(w, TRUE)
  /\ UNCHANGED <<opened, order, nextPos, sync, leaked, paused, history, budget>>

(* A decision that needs review: the order is held and its twin paused.    *)
Hold(w) ==
  LET o == worker[w].order
  IN  /\ worker[w].stage = "hold"
      /\ order' = IF Fenced(w)
                    THEN [order EXCEPT ![o].status = "held", ![o].owner = NoOwner]
                    ELSE order
      /\ sync' = [sync EXCEPT ![TwinOf[o]] = "paused"]
      /\ Leave(w)
      /\ UNCHANGED <<opened, nextPos, leaked, paused, history, budget>>

NoopMutant(w) ==
  LET o == worker[w].order
  IN  /\ worker[w].stage = "noop"
      /\ order' = IF Fenced(w)
                    THEN [order EXCEPT ![o].status = "skipped", ![o].owner = NoOwner]
                    ELSE order
      /\ Leave(w)
      /\ UNCHANGED <<opened, nextPos, sync, leaked, paused, history, budget>>

Noop(w) ==
  LET o == worker[w].order
  IN  /\ worker[w].stage = "noop"
      /\ order' = IF Fenced(w)
                    THEN [order EXCEPT ![o].status = "noop", ![o].owner = NoOwner]
                    ELSE order
      /\ Leave(w)
      /\ UNCHANGED <<opened, nextPos, sync, leaked, paused, history, budget>>

(* The translation is recorded; a fields-only one leaves no transaction    *)
(* and would be translated again.                                          *)
Save(w) ==
  /\ worker[w].stage = "save"
  /\ \E b \in BOOLEAN :
       order' = IF Fenced(w) THEN [order EXCEPT ![worker[w].order].translated = b] ELSE order
  /\ Goto(w, "push")
  /\ UNCHANGED <<opened, nextPos, sync, leaked, paused, history, budget>>

(* adapter.pushUpdate, one write of the provider: applied, refused for     *)
(* good, failed with or without having been applied, or shed unsent.       *)
Push(w) ==
  LET o == worker[w].order
  IN  /\ worker[w].stage = "push"
      /\ \/ /\ last' = [last EXCEPT ![TwinOf[o]] = o]
            /\ Goto(w, "record") \/ Failed(w, TRUE)
            /\ UNCHANGED <<refused, tries, budget>>
         \/ /\ Failed(w, TRUE)
            /\ UNCHANGED <<history, budget>>
         \/ /\ refused' = refused \cup {o}
            /\ Failed(w, FALSE)
            /\ UNCHANGED <<last, tries, budget>>
         \/ /\ Spend("shed")
            /\ Goto(w, "shed")
            /\ tries' = [tries EXCEPT ![o] = IF @ > 0 THEN @ - 1 ELSE 0]
            /\ UNCHANGED <<last, refused>>
      /\ UNCHANGED <<opened, order, nextPos, sync, leaked, paused>>

(* recordIntegrationWrite lets the sync guard recognise the echo.          *)
Record(w) ==
  /\ worker[w].stage = "record"
  /\ Goto(w, "complete")
  /\ UNCHANGED <<opened, order, nextPos, sync, leaked, paused, history, budget>>

(* One transaction: the order is executed, and its twin is in sync unless  *)
(* another order of it is dead or held.                                    *)
Complete(w) ==
  LET o == worker[w].order
      t == TwinOf[o]
  IN  /\ worker[w].stage = "complete"
      /\ order' = IF Fenced(w)
                    THEN [order EXCEPT ![o].status = "executed", ![o].owner = NoOwner]
                    ELSE order
      /\ sync' = IF \E p \in Orders \ {o} : TwinOf[p] = t /\ order[p].status \in Parked
                   THEN sync
                   ELSE [sync EXCEPT ![t] = "synced"]
      /\ Leave(w)
      /\ UNCHANGED <<opened, nextPos, leaked, paused, history, budget>>

Retry(w) ==
  /\ worker[w].stage = "retry"
  /\ order' = IF Fenced(w)
                THEN [order EXCEPT ![worker[w].order].status = "failed",
                                   ![worker[w].order].owner = NoOwner]
                ELSE order
  /\ Leave(w)
  /\ UNCHANGED <<opened, nextPos, sync, leaked, paused, history, budget>>

Die(w) ==
  LET o == worker[w].order
  IN  /\ worker[w].stage = "die"
      /\ order' = IF Fenced(w)
                    THEN [order EXCEPT ![o].status = "dead", ![o].owner = NoOwner]
                    ELSE order
      /\ sync' = [sync EXCEPT ![TwinOf[o]] = "paused"]
      /\ Leave(w)
      /\ UNCHANGED <<opened, nextPos, leaked, paused, history, budget>>

(* deferShedWork: back to the queue, the attempt is given back.            *)
GivenBackMutant(n) == n
GivenBack(n) == IF n > 0 THEN n - 1 ELSE 0

Shed(w) ==
  LET o == worker[w].order
  IN  /\ worker[w].stage = "shed"
      /\ order' = IF Fenced(w)
                    THEN [order EXCEPT ![o].status = "pending", ![o].owner = NoOwner,
                                       ![o].attempts = GivenBack(@)]
                    ELSE order
      /\ Leave(w)
      /\ UNCHANGED <<opened, nextPos, sync, leaked, paused, history, budget>>

(***************************************************************************)
(* Claims and trouble.                                                     *)
(***************************************************************************)

Beating(o) == \/ \E w \in Workers : Holds(w, o) /\ order[o].owner = w
              \/ <<order[o].owner, o>> \in leaked

(* Two minutes without a heartbeat: its worker is gone, or its process is  *)
(* stalled or cut off from the database.                                   *)
ClaimExpires(o) ==
  /\ order[o].status = "processing"
  /\ ~order[o].expired
  /\ IF Beating(o) THEN Spend("stall") ELSE UNCHANGED budget
  /\ order' = [order EXCEPT ![o].expired = TRUE]
  /\ UNCHANGED <<opened, nextPos, sync, worker, leaked, paused, history>>

(* renewWorkOrderClaim extends the claim, even when it had run out.        *)
Heartbeat(o) ==
  /\ order[o].status = "processing"
  /\ order[o].expired
  /\ Beating(o)
  /\ order' = [order EXCEPT ![o].expired = FALSE]
  /\ UNCHANGED <<opened, nextPos, sync, worker, leaked, paused, history, budget>>

(* A query of the worker fails.  Before the claim, and in the catch, the   *)
(* error leaves executeWorkOrder.  So it does at "setup", but there the    *)
(* heartbeat has started and the finally that stops it is not yet reached. *)
(* Elsewhere the catch decides, and only a translation is retryable.  An   *)
(* error after the completion has been committed (its answer is lost) is   *)
(* left out: the catch would find no claim, and pause the twin all the     *)
(* same (1927).                                                            *)
QueryFails(w) ==
  LET stage == worker[w].stage
  IN  /\ Spend("fault")
      /\ \/ /\ stage \in {"insert", "load", "check", "claim", "retry", "die", "shed"}
            /\ Leave(w)
            /\ UNCHANGED leaked
         \/ /\ stage = "setup"
            /\ leaked' = leaked \cup {<<w, worker[w].order>>}
            /\ Leave(w)
         \/ /\ stage \in {"translate", "hold", "noop", "save"}
            /\ Failed(w, TRUE)
            /\ UNCHANGED leaked
         \/ /\ stage \in {"push", "record", "complete"}
            /\ Failed(w, FALSE)
            /\ UNCHANGED leaked
      /\ UNCHANGED <<opened, order, nextPos, sync, paused, history>>

(* The worker's process stops, its heartbeats too; a request it has sent   *)
(* may still have been applied.                                            *)
Crash(w) ==
  /\ worker[w].stage # "idle" \/ \E o \in Orders : <<w, o>> \in leaked
  /\ Spend("crash")
  /\ Leave(w)
  /\ leaked' = {l \in leaked : l[1] # w}
  /\ \/ UNCHANGED last
     \/ /\ worker[w].stage = "push"
        /\ last' = [last EXCEPT ![TwinOf[worker[w].order]] = worker[w].order]
  /\ UNCHANGED <<opened, order, nextPos, sync, paused, refused, tries>>

(* A starting process re-opens the claims that have expired.               *)
Bootstrap ==
  /\ \E o \in Orders : order[o].status = "processing" /\ order[o].expired
  /\ order' = [o \in Orders |->
       IF order[o].status = "processing" /\ order[o].expired
         THEN [order[o] EXCEPT !.status = "failed", !.owner = NoOwner, !.expired = FALSE]
         ELSE order[o]]
  /\ UNCHANGED <<opened, nextPos, sync, worker, leaked, paused, history, budget>>

(* An operator opens an entry of the twin dead-letter queue ...            *)
OpenEntry(o) ==
  /\ order[o].status \in Parked
  /\ Spend("reinject")
  /\ opened' = [opened EXCEPT ![o] = @ + 1]
  /\ UNCHANGED <<order, nextPos, sync, worker, leaked, paused, history>>

(* ... and reinjectTwinDeadLetter returns the order to its position, if it *)
(* is still parked, and un-pauses the twin, whatever has happened since.   *)
ReinjectMutant(o) ==
  /\ opened[o] > 0
  /\ opened' = [opened EXCEPT ![o] = @ - 1]
  /\ order' = IF order[o].status \in Parked
                THEN [order EXCEPT ![o].status = "pending", ![o].attempts = 0]
                ELSE order
  /\ UNCHANGED <<nextPos, sync, worker, leaked, paused, history, budget>>

Reinject(o) ==
  /\ opened[o] > 0
  /\ opened' = [opened EXCEPT ![o] = @ - 1]
  /\ IF order[o].status \in Parked
       THEN /\ order' = [order EXCEPT
                 ![o].status = "pending", ![o].attempts = 0, ![o].owner = NoOwner,
                 ![o].expired = FALSE, ![o].translated = IF o \in Edits THEN @ ELSE FALSE]
            /\ refused' = refused \ {o}
            /\ tries' = [tries EXCEPT ![o] = 0]
       ELSE UNCHANGED <<order, refused, tries>>
  /\ sync' = [sync EXCEPT ![TwinOf[o]] = "synced"]
  /\ UNCHANGED <<nextPos, worker, leaked, paused, last, budget>>

PauseConnector == /\ ~paused
                  /\ Spend("pause")
                  /\ paused' = TRUE
                  /\ UNCHANGED <<opened, order, nextPos, sync, worker, leaked, history>>

ActivateConnector == /\ paused
                     /\ paused' = FALSE
                     /\ UNCHANGED <<opened, order, nextPos, sync, worker, leaked, history, budget>>

-----------------------------------------------------------------------------
WorkerStep(w) == \/ CommitEdit(w)
                 \/ Load(w)
                 \/ Check(w)
                 \/ Claim(w)
                 \/ Setup(w)
                 \/ Translate(w)
                 \/ Hold(w)
                 \/ Noop(w)
                 \/ Save(w)
                 \/ Push(w)
                 \/ Record(w)
                 \/ Complete(w)
                 \/ Retry(w)
                 \/ Die(w)
                 \/ Shed(w)

Next == \/ \E w \in Workers : \/ WorkerStep(w)
                              \/ QueryFails(w)
                              \/ Crash(w)
                              \/ \E o \in Orders : BeginEdit(w, o) \/ Drain(w, o)
        \/ \E o \in Orders : \/ Propagate(o)
                             \/ ClaimExpires(o)
                             \/ Heartbeat(o)
                             \/ OpenEntry(o)
                             \/ Reinject(o)
        \/ Bootstrap
        \/ PauseConnector
        \/ ActivateConnector

Spec == Init /\ [][Next]_vars

(* A worker gets its turn, time passes, a paused connector is activated    *)
(* again, and syncs of the connector keep being requested: a due order at  *)
(* the head of its queue is in the end drained.                            *)
Fairness == /\ \A w \in Workers : WF_vars(WorkerStep(w))
            /\ \A o \in Orders : /\ WF_vars(ClaimExpires(o) /\ ~Beating(o))
                                 /\ SF_vars(\E w \in Workers : Drain(w, o))
            /\ WF_vars(ActivateConnector)
FairSpec == Spec /\ Fairness

-----------------------------------------------------------------------------
(***************************************************************************)
(* Properties.                                                             *)
(***************************************************************************)

Concluded == {"executed", "noop"}
OrderType == [status : {"none", "pending", "processing", "failed"} \cup Parked \cup Concluded,
              pos : Nat, attempts : Nat, owner : Workers \cup {NoOwner},
              expired : BOOLEAN, translated : BOOLEAN]
WorkerType == [stage : Holding \cup {"idle", "insert", "load", "check", "claim"},
               order : Orders \cup {NoOrder}, seen : Nat]

(* Rows hold statuses of the schema, workers stand at await points of      *)
(* executeWorkOrder, and only a claimed order has an owner.                *)
TypeOK == /\ order \in [Orders -> OrderType]
          /\ nextPos \in Nat \ {0}
          /\ sync \in [Twins -> {"synced", "paused"}]
          /\ worker \in [Workers -> WorkerType]
          /\ leaked \subseteq Workers \X Orders
          /\ paused \in BOOLEAN
          /\ opened \in [Orders -> Nat]
          /\ last \in [Twins -> Orders \cup {NoOrder}]
          /\ refused \subseteq Orders
          /\ tries \in [Orders -> Nat]
          /\ budget \in [Troubles -> Nat]

(* Unrelated twins proceed at the same time, but a twin has one writer:    *)
(* two drains, or a drain and a restarted process, never write it at once, *)
(* unless a worker stalls past its claim, or the older of the two orders   *)
(* is an operator's edit: its position is drawn before its row is there.   *)
Unstalled == budget["stall"] = Budget["stall"]
OneWriterPerTwin ==
  Unstalled => \A v, w \in Workers :
    LET o == worker[v].order
        p == worker[w].order
    IN  v # w /\ worker[v].stage \in Holding /\ worker[w].stage \in Holding
        /\ TwinOf[o] = TwinOf[p]
        => \/ order[o].pos < order[p].pos /\ o \in Edits
           \/ order[p].pos < order[o].pos /\ p \in Edits

(* A paused twin can be un-paused: an order of it waits in the dead-letter *)
(* queue, whatever its writers, operators, restarts and failures have done.*)
PausedIsParked ==
  Unstalled => \A t \in Twins :
    sync[t] = "paused" => \E o \in Orders : TwinOf[o] = t /\ order[o].status \in Parked

(* connector.service.ts:1640-1700 and 1791, 1929.                          *)
TwinIsGuarded == OneWriterPerTwin /\ PausedIsParked

(* A worker that stalled, lost its claim and wakes up cannot re-open a     *)
(* finished order, nor one an operator has still to look at.               *)
ConcludedIsFinal ==
  [][\A o \in Orders :
       /\ order[o].status \in Concluded => order'[o].status = order[o].status
       /\ order[o].status \in Parked =>
            \/ order'[o].status = order[o].status
            \/ order'[o].status = "pending" /\ order'[o].attempts = 0]_vars

(* README.md:487: "Shedding can delay work but can never dead-letter it":  *)
(* as long as no process stops or stalls and no query fails, a dead order  *)
(* was refused for good, or all its attempts, none of them shed, are spent.*)
Smooth == \A trouble \in {"crash", "stall", "fault"} : budget[trouble] = Budget[trouble]
DeadIsEarned ==
  Smooth => \A o \in Orders :
    order[o].status = "dead" => o \in refused \/ tries[o] >= MaxAttempts

(* A prepared order is in the end executed, found to be a no-op, or waits  *)
(* for an operator, unless an older order of its twin does; or a claim of  *)
(* the twin is renewed for ever by the heartbeat of a call that has failed *)
(* (connector.service.ts:1687-1696).                                       *)
EveryOrderConcludes ==
  \A o \in Orders :
    order[o].status = "pending" ~>
      \/ order[o].status \in Concluded \cup Parked
      \/ \E p \in Older(o) : order[p].status \in Parked
      \/ leaked # {}
=============================================================================
