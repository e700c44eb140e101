------------------------ MODULE WorkOrderQueueProofs -------------------------
(***************************************************************************)
(* Machine-checked theorems about WorkOrderQueue, for every set of         *)
(* workers, orders, twins and edits and every budget of troubles.          *)
(*                                                                         *)
(* The argument.  Every step is of one of ten kinds, as far as the rows    *)
(* and the places of the workers are concerned (StepKinds), and each kind  *)
(* keeps QueueInv: positions are drawn once and never given away           *)
(* (Positions); an owner is written into claimed rows only (Owned); while  *)
(* a worker is at an order, the only unfinished older orders are edits,    *)
(* whose rows may appear after younger ones (Heads); and until a worker    *)
(* has stalled past its claim, whoever executes an order owns it (Grip).   *)
(* From Grip, Heads and Positions follows that a twin has one writer; from *)
(* Grip, that the update that parks an order goes with the one that pauses *)
(* its twin; and with Accounts, the bookkeeping of attempts, that a dead   *)
(* order has earned it.                                                    *)
(*                                                                         *)
(* The refinement.  Until a worker stalls past its claim, and without      *)
(* operator edits, the queue implements TwinFifo, for any number of other  *)
(* troubles.  A sorted queue grows at its end when an order is drawn       *)
(* behind all others (Grows), and loses its first element when that is     *)
(* taken away (Shrinks).  Of the kinds of steps, Appears draws an order,   *)
(* and Concludes ends the order of its worker, which by Grip is unfinished *)
(* and by Heads and Positions the first of its twin's queue; the others    *)
(* change neither the unfinished orders of a twin nor their positions      *)
(* (Keeps).  A write, too, is of such an order.                            *)
(***************************************************************************)
EXTENDS WorkOrderFifo, TLAPS, FiniteSetTheorems, SequenceTheorems

(* A worker at an order is at one that was prepared; an edit is inserted by*)
(* the one request that drew its position.                                 *)
Placed(w) ==
  /\ worker[w].stage # "idle" => worker[w].order \in Orders
  /\ worker[w].stage = "insert" => /\ worker[w].order \in Edits
                                   /\ order[worker[w].order].status = "none"
                                   /\ order[worker[w].order].pos > 0
  /\ worker[w].stage \notin {"idle", "insert"} => order[worker[w].order].status # "none"

Placement == /\ \A w \in Workers : Placed(w)
             /\ \A v, w \in Workers : worker[v].stage = "insert" /\ worker[w].stage = "insert"
                                      /\ worker[v].order = worker[w].order => v = w

(* Positions are drawn from a sequence: each is given once.                *)
Positions == /\ \A o \in Orders : /\ order[o].pos < nextPos
                                  /\ order[o].status # "none" => order[o].pos > 0
             /\ \A o, p \in Orders : order[o].pos = order[p].pos /\ order[o].pos > 0 => o = p

(* Only a claimed row names an owner.                                      *)
Owned == \A o \in Orders : order[o].owner # NoOwner => order[o].status = "processing"

(* Who has found an order to head its twin's queue may from then on be     *)
(* overtaken by edits only.                                                *)
Heads == \A w \in Workers : worker[w].stage \in Holding \cup {"claim"} =>
           Older(worker[w].order) \subseteq Edits

(* Troubles only get fewer.                                                *)
BudgetInv == \A trouble \in Troubles : budget[trouble] <= Budget[trouble]

(* Until a worker stalls, the fence of its updates never fails.            *)
Grip == Unstalled => \A w \in Workers : worker[w].stage \in Holding =>
          LET r == order[worker[w].order]
          IN  r.owner = w /\ r.status = "processing" /\ ~r.expired
              /\ r.attempts = worker[w].seen /\ r.attempts > 0

-----------------------------------------------------------------------------
(* Nobody is no worker.                                                    *)
LEMMA Nobody == NoOwner \notin Workers
  BY WorkerAssumption DEF NoOwner

LEMMA TwinOfType == \A o \in Orders : TwinOf[o] \in Twins
  BY TwinAssumption

LEMMA IdleType == Idle \in WorkerType
  BY DEF Idle, WorkerType

(* Types of what single updates write.                                     *)
LEMMA RowType ==
  ASSUME TypeOK, NEW o \in Orders
  PROVE  order[o] \in OrderType
  BY DEF TypeOK

LEMMA GotoType ==
  ASSUME TypeOK, NEW w \in Workers,
         NEW s \in Holding \cup {"idle", "insert", "load", "check", "claim"}, Goto(w, s)
  PROVE  worker' \in [Workers -> WorkerType]
<1>1. worker[w] \in WorkerType
  BY DEF TypeOK
<1>2. [worker[w] EXCEPT !.stage = s] \in WorkerType
  BY <1>1 DEF WorkerType
<1> QED
  BY <1>2 DEF TypeOK, Goto

LEMMA LeaveType ==
  ASSUME TypeOK, NEW w \in Workers, Leave(w)
  PROVE  worker' \in [Workers -> WorkerType]
  BY IdleType DEF TypeOK, Leave

LEMMA FailedType ==
  ASSUME TypeOK, NEW w \in Workers, NEW b \in BOOLEAN, Failed(w, b)
  PROVE  worker' \in [Workers -> WorkerType]
  BY GotoType DEF Failed, Holding

LEMMA SpendType ==
  ASSUME TypeOK, NEW trouble \in Troubles, Spend(trouble)
  PROVE  budget' \in [Troubles -> Nat]
  BY DEF TypeOK, Spend, Troubles

(* What the outcome of an execution writes into its row.                   *)
LEMMA OutcomeType ==
  ASSUME TypeOK, NEW o \in Orders, NEW s \in {"held", "noop", "executed", "failed", "dead", "pending"}
  PROVE  /\ [order EXCEPT ![o].status = s, ![o].owner = NoOwner] \in [Orders -> OrderType]
         /\ [order EXCEPT ![o].status = s, ![o].owner = NoOwner, ![o].attempts = GivenBack(@)]
              \in [Orders -> OrderType]
<1>1. order[o] \in OrderType
  BY RowType
<1>2. s \in {"none", "pending", "processing", "failed"} \cup Parked \cup Concluded
  BY DEF Parked, Concluded
<1>3. [order[o] EXCEPT !.status = s, !.owner = NoOwner] \in OrderType
  BY <1>1, <1>2 DEF OrderType
<1>4. GivenBack(order[o].attempts) \in Nat
  BY <1>1 DEF OrderType, GivenBack
<1>5. [order[o] EXCEPT !.status = s, !.owner = NoOwner, !.attempts = GivenBack(order[o].attempts)] \in OrderType
  BY <1>1, <1>2, <1>4 DEF OrderType
<1> QED
  BY <1>3, <1>5 DEF TypeOK

(* The initial tables are typed.                                           *)
LEMMA TypeInit == Init => TypeOK
<1> SUFFICES ASSUME Init PROVE TypeOK
  OBVIOUS
<1>1. Absent \in OrderType
  BY DEF Absent, OrderType
<1>2. order \in [Orders -> OrderType] /\ worker \in [Workers -> WorkerType]
  BY <1>1, IdleType DEF Init
<1>3. budget \in [Troubles -> Nat]
  BY BudgetAssumption DEF Init
<1>4. nextPos \in Nat \ {0} /\ 0 \in Nat
  BY DEF Init
<1> QED
  BY <1>2, <1>3, <1>4 DEF Init, TypeOK

(* What all steps of a worker but these leave alone.                       *)
Bookkeeping == <<nextPos, leaked, paused, opened, last, refused, tries, budget>>

(* A worker that writes an outcome and leaves keeps the types.             *)
LEMMA OutcomeStepType ==
  ASSUME TypeOK, NEW w \in Workers, worker[w].order \in Orders, Leave(w),
         NEW s \in {"held", "noop", "executed", "failed", "dead", "pending"},
         \/ order' = order
         \/ order' = [order EXCEPT ![worker[w].order].status = s, ![worker[w].order].owner = NoOwner]
         \/ order' = [order EXCEPT ![worker[w].order].status = s, ![worker[w].order].owner = NoOwner,
                                   ![worker[w].order].attempts = GivenBack(@)],
         \/ sync' = sync
         \/ \E a \in {"synced", "paused"} : sync' = [sync EXCEPT ![TwinOf[worker[w].order]] = a],
         UNCHANGED Bookkeeping
  PROVE  TypeOK'
<1>1. order' \in [Orders -> OrderType]
  <2> DEFINE o == worker[w].order
  <2>1. CASE order' = order
    BY <2>1 DEF TypeOK
  <2>2. CASE order' = [order EXCEPT ![o].status = s, ![o].owner = NoOwner]
    BY <2>2, OutcomeType
  <2>3. CASE order' = [order EXCEPT ![o].status = s, ![o].owner = NoOwner, ![o].attempts = GivenBack(@)]
    BY <2>3, OutcomeType
  <2> QED
    BY <2>1, <2>2, <2>3
<1>2. worker' \in [Workers -> WorkerType]
  BY LeaveType
<1>3. sync' \in [Twins -> {"synced", "paused"}]
  BY DEF TypeOK
<1> QED
  BY <1>1, <1>2, <1>3 DEF TypeOK, Bookkeeping

(* Every step keeps the types.                                             *)
LEMMA TypeNext == TypeOK /\ Placement /\ [Next]_vars => TypeOK'
<1> SUFFICES ASSUME TypeOK, Placement, [Next]_vars PROVE TypeOK'
  OBVIOUS
<1> USE DEF history
<1>1. ASSUME NEW w \in Workers, WorkerStep(w) PROVE TypeOK'
  <2> DEFINE o == worker[w].order
  <2>1. o \in Orders
    BY <1>1 DEF Placement, Placed, WorkerStep, CommitEdit, Load, Check, Claim, Setup, Translate, Hold,
                Noop, Save, Push, Record, Complete, Retry, Die, Shed
  <2>2. order[o] \in OrderType /\ worker[w] \in WorkerType
    BY <2>1 DEF TypeOK
  <2>3. CASE CommitEdit(w)
    <3>1. [order[o] EXCEPT !.status = "pending"] \in OrderType
      BY <2>2 DEF OrderType
    <3>2. order' \in [Orders -> OrderType]
      BY <2>3, <3>1 DEF CommitEdit, TypeOK
    <3>3. worker' \in [Workers -> WorkerType]
      BY <2>3, GotoType DEF CommitEdit
    <3> QED
      BY <2>3, <3>2, <3>3 DEF CommitEdit, TypeOK
  <2>4. CASE Load(w)
    <3>1. [worker[w] EXCEPT !.stage = "check", !.seen = order[o].attempts] \in WorkerType
      BY <2>2 DEF WorkerType, OrderType
    <3>2. worker' \in [Workers -> WorkerType]
      BY <2>4, <3>1, LeaveType DEF Load, TypeOK
    <3> QED
      BY <2>4, <3>2 DEF Load, TypeOK
  <2>5. CASE Check(w)
    <3>1. worker' \in [Workers -> WorkerType]
      BY <2>5, GotoType, LeaveType DEF Check
    <3> QED
      BY <2>5, <3>1 DEF Check, TypeOK
  <2>6. CASE Claim(w)
    <3>1. CASE Wins(w)
      <4>1. [order[o] EXCEPT !.status = "processing", !.attempts = order[o].attempts + 1,
                             !.owner = w, !.expired = FALSE] \in OrderType
        <5>1. order[o].attempts + 1 \in Nat
          BY <2>2 DEF OrderType
        <5> QED
          BY <2>2, <5>1 DEF OrderType
      <4>2. order' \in [Orders -> OrderType]
        BY <2>6, <3>1, <4>1 DEF Claim, TypeOK
      <4>3. [worker[w] EXCEPT !.stage = "setup", !.seen = worker[w].seen + 1] \in WorkerType
        <5>1. worker[w].seen + 1 \in Nat
          BY <2>2 DEF WorkerType
        <5> QED
          BY <2>2, <5>1 DEF WorkerType, Holding
      <4>4. worker' \in [Workers -> WorkerType]
        BY <2>6, <3>1, <4>3 DEF Claim, TypeOK
      <4>5. tries' \in [Orders -> Nat]
        BY <2>6, <3>1 DEF Claim, TypeOK
      <4>6. leaked' \subseteq Workers \X Orders
        BY <2>6, <3>1 DEF Claim, TypeOK
      <4> QED
        BY <2>6, <4>2, <4>4, <4>5, <4>6 DEF Claim, TypeOK
    <3>2. CASE ~Wins(w)
      <4>1. worker' \in [Workers -> WorkerType]
        BY <2>6, <3>2, LeaveType DEF Claim
      <4> QED
        BY <2>6, <3>2, <4>1 DEF Claim, TypeOK
    <3> QED
      BY <3>1, <3>2
  <2>7. CASE Setup(w)
    <3>1. worker' \in [Workers -> WorkerType]
      BY <2>7, GotoType DEF Setup, Holding
    <3> QED
      BY <2>7, <3>1 DEF Setup, TypeOK
  <2>8. CASE Translate(w)
    <3>1. worker' \in [Workers -> WorkerType]
      BY <2>8, GotoType, FailedType DEF Translate, Holding
    <3> QED
      BY <2>8, <3>1 DEF Translate, TypeOK
  <2>9. CASE Hold(w)
    BY <2>1, <2>9, OutcomeStepType DEF Hold, Bookkeeping
  <2>10. CASE Noop(w)
    BY <2>1, <2>10, OutcomeStepType DEF Noop, Bookkeeping
  <2>11. CASE Save(w)
    <3>1. \A b \in BOOLEAN : [order[o] EXCEPT !.translated = b] \in OrderType
      BY <2>2 DEF OrderType
    <3>2. order' \in [Orders -> OrderType]
      BY <2>11, <3>1 DEF Save, TypeOK
    <3>3. worker' \in [Workers -> WorkerType]
      BY <2>11, GotoType DEF Save, Holding
    <3> QED
      BY <2>11, <3>2, <3>3 DEF Save, TypeOK
  <2>12. CASE Push(w)
    <3>1. worker' \in [Workers -> WorkerType]
      BY <2>12, GotoType, FailedType DEF Push, Holding
    <3>2. last' \in [Twins -> Orders \cup {NoOrder}]
      BY <2>1, <2>12 DEF Push, TypeOK
    <3>3. refused' \subseteq Orders
      BY <2>1, <2>12 DEF Push, TypeOK
    <3>4. tries' \in [Orders -> Nat]
      <4>1. \A n \in Nat : (IF n > 0 THEN n - 1 ELSE 0) \in Nat
        OBVIOUS
      <4> QED
        BY <2>1, <2>12, <4>1 DEF Push, TypeOK
    <3>5. budget' \in [Troubles -> Nat]
      BY <2>12, SpendType DEF Push, Troubles, TypeOK
    <3> QED
      BY <2>12, <3>1, <3>2, <3>3, <3>4, <3>5 DEF Push, TypeOK
  <2>13. CASE Record(w)
    <3>1. worker' \in [Workers -> WorkerType]
      BY <2>13, GotoType DEF Record, Holding
    <3> QED
      BY <2>13, <3>1 DEF Record, TypeOK
  <2>14. CASE Complete(w)
    BY <2>1, <2>14, OutcomeStepType DEF Complete, Bookkeeping
  <2>15. CASE Retry(w)
    BY <2>1, <2>15, OutcomeStepType DEF Retry, Bookkeeping
  <2>16. CASE Die(w)
    BY <2>1, <2>16, OutcomeStepType DEF Die, Bookkeeping
  <2>17. CASE Shed(w)
    BY <2>1, <2>17, OutcomeStepType DEF Shed, Bookkeeping
  <2> QED
    BY <1>1, <2>3, <2>4, <2>5, <2>6, <2>7, <2>8, <2>9, <2>10, <2>11, <2>12, <2>13, <2>14, <2>15,
       <2>16, <2>17 DEF WorkerStep
<1>2. ASSUME NEW w \in Workers, QueryFails(w) PROVE TypeOK'
  <2>1. worker' \in [Workers -> WorkerType]
    BY <1>2, LeaveType, FailedType DEF QueryFails
  <2>2. leaked' \subseteq Workers \X Orders
    <3>1. worker[w].stage = "setup" => <<w, worker[w].order>> \in Workers \X Orders
      BY DEF Placement, Placed
    <3>2. leaked' = leaked \/ (worker[w].stage = "setup" /\ leaked' = leaked \cup {<<w, worker[w].order>>})
      BY <1>2 DEF QueryFails
    <3> QED
      BY <3>1, <3>2 DEF TypeOK
  <2>3. budget' \in [Troubles -> Nat]
    BY <1>2, SpendType DEF QueryFails, Troubles
  <2> QED
    BY <1>2, <2>1, <2>2, <2>3 DEF QueryFails, TypeOK
<1>3. ASSUME NEW w \in Workers, Crash(w) PROVE TypeOK'
  <2>1. worker' \in [Workers -> WorkerType]
    BY <1>3, LeaveType DEF Crash
  <2>2. last' \in [Twins -> Orders \cup {NoOrder}]
    BY <1>3 DEF Crash, TypeOK, Placement, Placed
  <2>3. budget' \in [Troubles -> Nat]
    BY <1>3, SpendType DEF Crash, Troubles
  <2>4. leaked' \subseteq Workers \X Orders
    BY <1>3 DEF Crash, TypeOK
  <2> QED
    BY <1>3, <2>1, <2>2, <2>3, <2>4 DEF Crash, TypeOK
<1>4. ASSUME NEW w \in Workers, NEW o \in Orders, BeginEdit(w, o) PROVE TypeOK'
  <2>1. [order[o] EXCEPT !.pos = nextPos] \in OrderType
    BY RowType DEF OrderType, TypeOK
  <2>2. order' \in [Orders -> OrderType]
    BY <1>4, <2>1 DEF BeginEdit, TypeOK
  <2>3. [stage |-> "insert", order |-> o, seen |-> 0] \in WorkerType
    BY DEF WorkerType
  <2>4. worker' \in [Workers -> WorkerType]
    BY <1>4, <2>3 DEF BeginEdit, TypeOK
  <2> QED
    BY <1>4, <2>2, <2>4 DEF BeginEdit, TypeOK
<1>5. ASSUME NEW w \in Workers, NEW o \in Orders, Drain(w, o) PROVE TypeOK'
  <2>1. [stage |-> "load", order |-> o, seen |-> 0] \in WorkerType
    BY DEF WorkerType
  <2>2. worker' \in [Workers -> WorkerType]
    BY <1>5, <2>1 DEF Drain, TypeOK
  <2> QED
    BY <1>5, <2>2 DEF Drain, TypeOK
<1>6. ASSUME NEW o \in Orders, Propagate(o) PROVE TypeOK'
  <2>1. [order[o] EXCEPT !.status = "pending", !.pos = nextPos] \in OrderType
    BY RowType DEF OrderType, TypeOK
  <2>2. order' \in [Orders -> OrderType]
    BY <1>6, <2>1 DEF Propagate, TypeOK
  <2> QED
    BY <1>6, <2>2 DEF Propagate, TypeOK
<1>7. ASSUME NEW o \in Orders, ClaimExpires(o) \/ Heartbeat(o) PROVE TypeOK'
  <2>1. \A b \in BOOLEAN : [order[o] EXCEPT !.expired = b] \in OrderType
    BY RowType DEF OrderType
  <2>2. order' \in [Orders -> OrderType]
    BY <1>7, <2>1 DEF ClaimExpires, Heartbeat, TypeOK
  <2>3. budget' \in [Troubles -> Nat]
    BY <1>7, SpendType DEF ClaimExpires, Heartbeat, TypeOK, Troubles
  <2> QED
    BY <1>7, <2>2, <2>3 DEF ClaimExpires, Heartbeat, TypeOK
<1>8. ASSUME NEW o \in Orders, OpenEntry(o) PROVE TypeOK'
  <2>1. budget' \in [Troubles -> Nat]
    BY <1>8, SpendType DEF OpenEntry, Troubles
  <2> QED
    BY <1>8, <2>1 DEF OpenEntry, TypeOK
<1>9. ASSUME NEW o \in Orders, Reinject(o) PROVE TypeOK'
  <2>1. [order[o] EXCEPT !.status = "pending", !.attempts = 0, !.owner = NoOwner, !.expired = FALSE,
                         !.translated = IF o \in Edits THEN order[o].translated ELSE FALSE] \in OrderType
    BY RowType DEF OrderType
  <2>2. order' \in [Orders -> OrderType]
    <3> DEFINE r == [order[o] EXCEPT !.status = "pending", !.attempts = 0, !.owner = NoOwner,
                       !.expired = FALSE, !.translated = IF o \in Edits THEN order[o].translated ELSE FALSE]
    <3>1. CASE order[o].status \in Parked
      <4>1. order' = [order EXCEPT ![o] = r]
        BY <1>9, <3>1 DEF Reinject
      <4>2. r \in OrderType
        BY <2>1
      <4> HIDE DEF r
      <4> QED
        BY <4>1, <4>2 DEF TypeOK
    <3>2. CASE order[o].status \notin Parked
      BY <1>9, <3>2 DEF Reinject, TypeOK
    <3> QED
      BY <3>1, <3>2
  <2>3. opened' \in [Orders -> Nat]
    BY <1>9 DEF Reinject, TypeOK
  <2>4. refused' \subseteq Orders /\ tries' \in [Orders -> Nat]
    <3>1. refused' \in {refused, refused \ {o}} /\ tries' \in {tries, [tries EXCEPT ![o] = 0]}
      BY <1>9 DEF Reinject
    <3> QED
      BY <3>1 DEF TypeOK
  <2>5. sync' \in [Twins -> {"synced", "paused"}]
    BY <1>9 DEF Reinject, TypeOK
  <2> QED
    BY <1>9, <2>2, <2>3, <2>4, <2>5 DEF Reinject, TypeOK
<1>10. CASE Bootstrap
  <2>1. \A o \in Orders : [order[o] EXCEPT !.status = "failed", !.owner = NoOwner, !.expired = FALSE]
                            \in OrderType
    BY RowType DEF OrderType
  <2>2. order' \in [Orders -> OrderType]
    BY <1>10, <2>1 DEF Bootstrap, TypeOK
  <2> QED
    BY <1>10, <2>2 DEF Bootstrap, TypeOK
<1>11. CASE PauseConnector
  BY <1>11, SpendType DEF PauseConnector, TypeOK, Troubles
<1>12. CASE ActivateConnector
  BY <1>12 DEF ActivateConnector, TypeOK
<1>13. CASE UNCHANGED vars
  BY <1>13 DEF vars, TypeOK
<1> QED
  BY <1>1, <1>2, <1>3, <1>4, <1>5, <1>6, <1>7, <1>8, <1>9, <1>10, <1>11, <1>12, <1>13 DEF Next

-----------------------------------------------------------------------------
(* The kinds of steps, as far as rows and workers are concerned.           *)
OtherWorkers(w) == \A v \in Workers : v # w => worker'[v] = worker[v]
OtherRows(o) == \A p \in Orders : p # o => order'[p] = order[p]
Same(o) == /\ order'[o].status = order[o].status
           /\ order'[o].pos = order[o].pos
           /\ order'[o].attempts = order[o].attempts
           /\ order'[o].owner = order[o].owner

Rests == /\ worker' = worker /\ nextPos' = nextPos
         /\ \A o \in Orders :
              /\ Same(o)
              /\ order'[o].expired =>
                   order[o].expired \/ ~Beating(o) \/ budget'["stall"] < budget["stall"]

Walks(w) ==
  /\ OtherWorkers(w) /\ nextPos' = nextPos
  /\ \A o \in Orders : Same(o) /\ order'[o].expired = order[o].expired
  /\ \/ worker'[w].stage = "idle"
     \/ /\ worker[w].stage = "idle" /\ worker'[w].stage = "load"
        /\ worker'[w].order \in Orders /\ order[worker'[w].order].status # "none"
     \/ /\ worker'[w].order = worker[w].order
        /\ \/ worker[w].stage = "load" /\ worker'[w].stage = "check"
           \/ worker[w].stage = "check" /\ worker'[w].stage = "claim" /\ Older(worker[w].order) = {}
           \/ /\ worker[w].stage \in Holding /\ worker'[w].stage \in Holding
              /\ worker'[w].seen = worker[w].seen

Draws(w, o) ==
  /\ OtherWorkers(w) /\ OtherRows(o) /\ nextPos' = nextPos + 1
  /\ o \in Edits /\ order[o].status = "none" /\ order[o].pos = 0
  /\ order'[o] = [order[o] EXCEPT !.pos = nextPos]
  /\ worker'[w].stage = "insert" /\ worker'[w].order = o

Appears(o) ==
  /\ worker' = worker /\ OtherRows(o) /\ nextPos' = nextPos + 1
  /\ o \notin Edits /\ order[o].status = "none"
  /\ order'[o] = [order[o] EXCEPT !.status = "pending", !.pos = nextPos]

Commits(w, o) ==
  /\ worker[w].stage = "insert" /\ worker[w].order = o
  /\ OtherWorkers(w) /\ OtherRows(o) /\ nextPos' = nextPos
  /\ order'[o] = [order[o] EXCEPT !.status = "pending"]
  /\ worker'[w].stage = "load" /\ worker'[w].order = o

Takes(w, o) ==
  /\ worker[w].stage = "claim" /\ worker[w].order = o /\ Claimable(order[o])
  /\ OtherWorkers(w) /\ OtherRows(o) /\ nextPos' = nextPos
  /\ order'[o] = [order[o] EXCEPT !.status = "processing", !.attempts = order[o].attempts + 1,
                                  !.owner = w, !.expired = FALSE]
  /\ worker'[w].stage = "setup" /\ worker'[w].order = o
  /\ worker'[w].seen = order[o].attempts + 1

Concludes(w, o) ==
  /\ worker[w].stage \in Holding /\ worker[w].order = o
  /\ OtherWorkers(w) /\ OtherRows(o) /\ nextPos' = nextPos
  /\ order[o].owner = w
  /\ order'[o].status \in {"held", "noop", "executed", "failed", "dead", "pending"}
  /\ order'[o].pos = order[o].pos
  /\ order'[o].owner = NoOwner
  /\ worker'[w].stage = "idle"

Reopens ==
  /\ worker' = worker /\ nextPos' = nextPos
  /\ \A o \in Orders :
       \/ order'[o] = order[o]
       \/ /\ order[o].status = "processing" /\ order[o].expired
          /\ order'[o] = [order[o] EXCEPT !.status = "failed", !.owner = NoOwner, !.expired = FALSE]

Returns(o) ==
  /\ worker' = worker /\ OtherRows(o) /\ nextPos' = nextPos
  /\ order[o].status \in Parked
  /\ order'[o].status = "pending" /\ order'[o].attempts = 0
  /\ order'[o].pos = order[o].pos /\ order'[o].owner = NoOwner
  /\ sync' = [sync EXCEPT ![TwinOf[o]] = "synced"]

Kinds == \/ Rests
         \/ Reopens
         \/ \E w \in Workers : Walks(w)
         \/ \E o \in Orders : Appears(o) \/ Returns(o)
         \/ \E w \in Workers, o \in Orders : Draws(w, o) \/ Commits(w, o) \/ Takes(w, o) \/ Concludes(w, o)

(* Where a worker goes; the others stay.                                   *)
LEMMA GotoPlace ==
  ASSUME TypeOK, NEW w \in Workers, NEW s, Goto(w, s)
  PROVE  OtherWorkers(w) /\ worker'[w] = [worker[w] EXCEPT !.stage = s]
  BY DEF TypeOK, Goto, OtherWorkers

LEMMA LeavePlace ==
  ASSUME TypeOK, NEW w \in Workers, Leave(w)
  PROVE  OtherWorkers(w) /\ worker'[w].stage = "idle"
  BY DEF TypeOK, Leave, Idle, OtherWorkers

(* A worker that holds on goes to another stage of its execution.          *)
LEMMA StaysHolding ==
  ASSUME TypeOK, NEW w \in Workers, worker[w].stage \in Holding,
         NEW s \in Holding, Goto(w, s), nextPos' = nextPos,
         \A o \in Orders : Same(o) /\ order'[o].expired = order[o].expired
  PROVE  Walks(w)
<1>1. worker[w] \in WorkerType
  BY DEF TypeOK
<1>2. OtherWorkers(w) /\ worker'[w] = [worker[w] EXCEPT !.stage = s]
  BY GotoPlace
<1> QED
  BY <1>1, <1>2 DEF Walks, WorkerType

(* A worker that leaves its order as it is.                                *)
LEMMA GivesUp ==
  ASSUME TypeOK, NEW w \in Workers, Leave(w), UNCHANGED <<order, nextPos>>
  PROVE  Walks(w)
  BY LeavePlace DEF Walks, Same

(* A worker that has finished writes the outcome, if the claim is its own. *)
LEMMA WritesOutcome ==
  ASSUME TypeOK, NEW w \in Workers, NEW o \in Orders,
         worker[w].stage \in Holding, worker[w].order = o, Leave(w), nextPos' = nextPos,
         NEW s \in {"held", "noop", "executed", "failed", "dead", "pending"},
         order' = IF Fenced(w) THEN [order EXCEPT ![o].status = s, ![o].owner = NoOwner] ELSE order
  PROVE  Walks(w) \/ Concludes(w, o)
<1>1. CASE ~Fenced(w)
  BY <1>1, GivesUp
<1>2. CASE Fenced(w)
  <2>1. order' = [order EXCEPT ![o] = [order[o] EXCEPT !.status = s, !.owner = NoOwner]]
    BY <1>2
  <2>2. OtherRows(o) /\ order'[o] = [order[o] EXCEPT !.status = s, !.owner = NoOwner]
    BY <2>1 DEF OtherRows, TypeOK
  <2>3. /\ order'[o].status = s
        /\ order'[o].owner = NoOwner
        /\ order'[o].pos = order[o].pos
    <3> DEFINE r == order[o]
               q == [r EXCEPT !.status = s, !.owner = NoOwner]
    <3>1. r \in OrderType
      BY RowType
    <3>2. q.status = s /\ q.owner = NoOwner /\ q.pos = r.pos
      <4> HIDE DEF r
      <4> QED
        BY <3>1 DEF OrderType
    <3> QED
      BY <2>2, <3>2
  <2>4. order[o].owner = w
    BY <1>2 DEF Fenced
  <2> QED
    BY <2>2, <2>3, <2>4, LeavePlace DEF Concludes
<1> QED
  BY <1>1, <1>2

(* The catch of executeWorkOrder leads to the retry or to the dead letters. *)
LEMMA FailedGoes ==
  ASSUME NEW w \in Workers, NEW b \in BOOLEAN, Failed(w, b)
  PROVE  \E s \in {"retry", "die"} : Goto(w, s)
  BY DEF Failed

(* Every action is a step of one of the kinds.                             *)
LEMMA StepKinds ==
  ASSUME TypeOK, Placement, Next
  PROVE  Kinds
<1> USE DEF history
<1>1. ASSUME NEW w \in Workers, WorkerStep(w) PROVE Kinds
  <2> DEFINE o == worker[w].order
  <2>1. o \in Orders
    BY <1>1 DEF Placement, Placed, WorkerStep, CommitEdit, Load, Check, Claim, Setup, Translate, Hold,
                Noop, Save, Push, Record, Complete, Retry, Die, Shed
  <2>2. order[o] \in OrderType /\ worker[w] \in WorkerType
    BY <2>1 DEF TypeOK
  <2>3. ASSUME NEW s \in Holding, Goto(w, s), worker[w].stage \in Holding, UNCHANGED <<order, nextPos>>
        PROVE  Walks(w)
    BY <2>3, StaysHolding DEF Same
  <2>4. ASSUME NEW b \in BOOLEAN, Failed(w, b), worker[w].stage \in Holding, UNCHANGED <<order, nextPos>>
        PROVE  Walks(w)
    BY <2>3, <2>4, FailedGoes DEF Holding
  <2>5. CASE CommitEdit(w)
    <3>1. OtherRows(o) /\ order'[o] = [order[o] EXCEPT !.status = "pending"]
      BY <2>1, <2>5 DEF CommitEdit, OtherRows, TypeOK
    <3>2. OtherWorkers(w) /\ worker'[w].stage = "load" /\ worker'[w].order = o
      <4>1. OtherWorkers(w) /\ worker'[w] = [worker[w] EXCEPT !.stage = "load"]
        BY <2>5 DEF CommitEdit, Goto, OtherWorkers, TypeOK
      <4> QED
        BY <2>2, <4>1 DEF WorkerType
    <3> QED
      BY <2>1, <2>5, <3>1, <3>2 DEF CommitEdit, Kinds, Commits
  <2>6. CASE Load(w)
    <3>1. CASE worker' = [worker EXCEPT ![w].stage = "check", ![w].seen = order[o].attempts]
      <4>1. OtherWorkers(w) /\ worker'[w] = [worker[w] EXCEPT !.stage = "check", !.seen = order[o].attempts]
        BY <3>1 DEF OtherWorkers, TypeOK
      <4>2. worker'[w].stage = "check" /\ worker'[w].order = o
        BY <2>2, <4>1 DEF WorkerType
      <4> QED
        BY <2>6, <4>1, <4>2 DEF Load, Kinds, Walks, Same
    <3> QED
      BY <2>6, <3>1, GivesUp DEF Load, Kinds
  <2>7. CASE Check(w)
    <3>1. CASE Older(o) = {}
      <4>1. OtherWorkers(w) /\ worker'[w].stage = "claim" /\ worker'[w].order = o
        <5>1. OtherWorkers(w) /\ worker'[w] = [worker[w] EXCEPT !.stage = "claim"]
          BY <2>7, <3>1 DEF Check, Goto, OtherWorkers, TypeOK
        <5> QED
          BY <2>2, <5>1 DEF WorkerType
      <4> QED
        BY <2>7, <3>1, <4>1 DEF Check, Kinds, Walks, Same
    <3>2. CASE Older(o) # {}
      BY <2>7, <3>2, GivesUp DEF Check, Kinds
    <3> QED
      BY <3>1, <3>2
  <2>8. CASE Claim(w)
    <3>1. CASE Wins(w)
      <4>1. /\ OtherRows(o)
            /\ order'[o] = [order[o] EXCEPT !.status = "processing", !.attempts = order[o].attempts + 1,
                                            !.owner = w, !.expired = FALSE]
        BY <2>1, <2>8, <3>1 DEF Claim, OtherRows, TypeOK
      <4>2. /\ OtherWorkers(w)
            /\ worker'[w] = [worker[w] EXCEPT !.stage = "setup", !.seen = worker[w].seen + 1]
        BY <2>8, <3>1 DEF Claim, OtherWorkers, TypeOK
      <4>3. /\ worker'[w].stage = "setup" /\ worker'[w].order = o
            /\ worker'[w].seen = order[o].attempts + 1
        BY <2>2, <3>1, <4>2 DEF WorkerType, Wins
      <4>4. Takes(w, o)
        BY <2>8, <3>1, <4>1, <4>2, <4>3 DEF Claim, Wins, Takes
      <4> QED
        BY <2>1, <4>4 DEF Kinds
    <3>2. CASE ~Wins(w)
      BY <2>8, <3>2, GivesUp DEF Claim, Kinds
    <3> QED
      BY <3>1, <3>2
  <2>9. CASE Setup(w)
    BY <2>9, <2>3 DEF Setup, Kinds, Holding
  <2>10. CASE Translate(w)
    <3>1. worker[w].stage \in Holding /\ UNCHANGED <<order, nextPos>>
      BY <2>10 DEF Translate, Holding
    <3> QED
      BY <2>10, <3>1, <2>3, <2>4 DEF Translate, Kinds, Holding
  <2>11. CASE Hold(w)
    BY <2>1, <2>11, WritesOutcome DEF Hold, Kinds, Holding
  <2>12. CASE Noop(w)
    BY <2>1, <2>12, WritesOutcome DEF Noop, Kinds, Holding
  <2>13. CASE Save(w)
    <3>1. PICK b \in BOOLEAN :
            order' = IF Fenced(w) THEN [order EXCEPT ![o].translated = b] ELSE order
      BY <2>13 DEF Save
    <3>2. \A p \in Orders : Same(p) /\ order'[p].expired = order[p].expired
      <4>1. CASE order' = order
        BY <4>1 DEF Same
      <4>2. CASE order' = [order EXCEPT ![o].translated = b]
        <5>1. OtherRows(o) /\ order'[o] = [order[o] EXCEPT !.translated = b]
          BY <2>1, <4>2 DEF OtherRows, TypeOK
        <5> QED
          BY <2>2, <5>1 DEF Same, OtherRows, OrderType
      <4> QED
        BY <3>1, <4>1, <4>2
    <3>3. worker[w].stage \in Holding /\ "push" \in Holding
      BY <2>13 DEF Save, Holding
    <3> QED
      BY <2>13, <3>2, <3>3, StaysHolding DEF Save, Kinds
  <2>14. CASE Push(w)
    <3>1. worker[w].stage \in Holding /\ UNCHANGED <<order, nextPos>>
      BY <2>14 DEF Push, Holding
    <3>2. \/ Goto(w, "record") \/ Goto(w, "shed") \/ Failed(w, TRUE) \/ Failed(w, FALSE)
      BY <2>14 DEF Push
    <3> QED
      BY <3>1, <3>2, <2>3, <2>4 DEF Kinds, Holding
  <2>15. CASE Record(w)
    BY <2>15, <2>3 DEF Record, Kinds, Holding
  <2>16. CASE Complete(w)
    BY <2>1, <2>16, WritesOutcome DEF Complete, Kinds, Holding
  <2>17. CASE Retry(w)
    BY <2>1, <2>17, WritesOutcome DEF Retry, Kinds, Holding
  <2>18. CASE Die(w)
    BY <2>1, <2>18, WritesOutcome DEF Die, Kinds, Holding
  <2>19. CASE Shed(w)
    <3>1. CASE ~Fenced(w)
      BY <2>19, <3>1, GivesUp DEF Shed, Kinds
    <3>2. CASE Fenced(w)
      <4>1. /\ OtherRows(o)
            /\ order'[o] = [order[o] EXCEPT !.status = "pending", !.owner = NoOwner,
                                            !.attempts = GivenBack(order[o].attempts)]
        BY <2>1, <2>19, <3>2 DEF Shed, OtherRows, TypeOK
      <4>2. order'[o].status = "pending" /\ order'[o].owner = NoOwner /\ order'[o].pos = order[o].pos
        BY <2>2, <4>1 DEF OrderType
      <4>3. OtherWorkers(w) /\ worker'[w].stage = "idle"
        BY <2>19, LeavePlace DEF Shed
      <4>4. Concludes(w, o)
        BY <2>19, <3>2, <4>1, <4>2, <4>3 DEF Shed, Concludes, Fenced, Holding
      <4> QED
        BY <2>1, <4>4 DEF Kinds
    <3> QED
      BY <3>1, <3>2
  <2> QED
    BY <1>1, <2>5, <2>6, <2>7, <2>8, <2>9, <2>10, <2>11, <2>12, <2>13, <2>14, <2>15, <2>16, <2>17,
       <2>18, <2>19 DEF WorkerStep
<1>2. ASSUME NEW w \in Workers, QueryFails(w) PROVE Kinds
  <2>1. UNCHANGED <<order, nextPos>>
    BY <1>2 DEF QueryFails
  <2>2. CASE Leave(w)
    BY <2>1, <2>2, GivesUp DEF Kinds
  <2>3. ASSUME NEW b \in BOOLEAN, Failed(w, b), worker[w].stage \in Holding PROVE Kinds
    <3>1. PICK s \in Holding : Goto(w, s)
      BY <2>3, FailedGoes DEF Holding
    <3> QED
      BY <2>1, <2>3, <3>1, StaysHolding DEF Same, Kinds
  <2> QED
    BY <1>2, <2>2, <2>3 DEF QueryFails, Holding
<1>3. ASSUME NEW w \in Workers, Crash(w) PROVE Kinds
  BY <1>3, GivesUp DEF Crash, Kinds
<1>4. ASSUME NEW w \in Workers, NEW o \in Orders, BeginEdit(w, o) PROVE Kinds
  <2>1. OtherRows(o) /\ order'[o] = [order[o] EXCEPT !.pos = nextPos]
    BY <1>4 DEF BeginEdit, OtherRows, TypeOK
  <2>2. OtherWorkers(w) /\ worker'[w].stage = "insert" /\ worker'[w].order = o
    BY <1>4 DEF BeginEdit, OtherWorkers, TypeOK
  <2>3. Draws(w, o)
    BY <1>4, <2>1, <2>2 DEF BeginEdit, Draws
  <2> QED
    BY <2>3 DEF Kinds
<1>5. ASSUME NEW w \in Workers, NEW o \in Orders, Drain(w, o) PROVE Kinds
  <2>1. OtherWorkers(w) /\ worker'[w].stage = "load" /\ worker'[w].order = o
    BY <1>5 DEF Drain, OtherWorkers, TypeOK
  <2>2. worker[w].stage = "idle" /\ order[o].status # "none" /\ UNCHANGED <<order, nextPos>>
    BY <1>5 DEF Drain, Claimable
  <2>3. Walks(w)
    BY <2>1, <2>2 DEF Walks, Same
  <2> QED
    BY <2>3 DEF Kinds
<1>6. ASSUME NEW o \in Orders, Propagate(o) PROVE Kinds
  <2>1. OtherRows(o) /\ order'[o] = [order[o] EXCEPT !.status = "pending", !.pos = nextPos]
    BY <1>6 DEF Propagate, OtherRows, TypeOK
  <2>2. Appears(o)
    BY <1>6, <2>1 DEF Propagate, Appears
  <2> QED
    BY <2>2 DEF Kinds
<1>7. ASSUME NEW o \in Orders, NEW b \in BOOLEAN, order' = [order EXCEPT ![o].expired = b],
             UNCHANGED <<worker, nextPos>>,
             b => ~Beating(o) \/ budget'["stall"] < budget["stall"]
      PROVE  Kinds
  <2>1. OtherRows(o) /\ order'[o] = [order[o] EXCEPT !.expired = b]
    BY <1>7 DEF OtherRows, TypeOK
  <2>2. Same(o) /\ order'[o].expired = b
    BY <2>1, RowType DEF Same, OrderType
  <2>3. \A p \in Orders : p # o => order'[p] = order[p]
    BY <2>1 DEF OtherRows
  <2>4. Rests
    BY <1>7, <2>2, <2>3 DEF Rests, Same
  <2> QED
    BY <2>4 DEF Kinds
<1>8. ASSUME NEW o \in Orders, ClaimExpires(o) PROVE Kinds
  <2>1. ~Beating(o) \/ budget'["stall"] < budget["stall"]
    BY <1>8 DEF ClaimExpires, Spend, TypeOK, Troubles
  <2> QED
    BY <1>7, <1>8, <2>1 DEF ClaimExpires
<1>9. ASSUME NEW o \in Orders, Heartbeat(o) PROVE Kinds
  BY <1>7, <1>9 DEF Heartbeat
<1>10. CASE UNCHANGED <<order, worker, nextPos>>
  BY <1>10 DEF Kinds, Rests, Same
<1>11. ASSUME NEW o \in Orders, OpenEntry(o) PROVE Kinds
  BY <1>10, <1>11 DEF OpenEntry
<1>12. ASSUME NEW o \in Orders, Reinject(o) PROVE Kinds
  <2>1. CASE order[o].status \in Parked
    <3>1. OtherRows(o) /\ order'[o] = [order[o] EXCEPT !.status = "pending", !.attempts = 0,
                  !.owner = NoOwner, !.expired = FALSE,
                  !.translated = IF o \in Edits THEN order[o].translated ELSE FALSE]
      BY <1>12, <2>1 DEF Reinject, OtherRows, TypeOK
    <3>2. /\ order'[o].status = "pending" /\ order'[o].attempts = 0
          /\ order'[o].pos = order[o].pos /\ order'[o].owner = NoOwner
      BY <3>1, RowType DEF OrderType
    <3>3. Returns(o)
      BY <1>12, <2>1, <3>1, <3>2 DEF Reinject, Returns
    <3> QED
      BY <3>3 DEF Kinds
  <2>2. CASE order[o].status \notin Parked
    BY <1>10, <1>12, <2>2 DEF Reinject
  <2> QED
    BY <2>1, <2>2
<1>13. CASE Bootstrap
  <2>1. Reopens
    BY <1>13 DEF Bootstrap, Reopens
  <2> QED
    BY <2>1 DEF Kinds
<1>14. CASE PauseConnector \/ ActivateConnector
  BY <1>10, <1>14 DEF PauseConnector, ActivateConnector
<1> QED
  BY <1>1, <1>2, <1>3, <1>4, <1>5, <1>6, <1>8, <1>9, <1>11, <1>12, <1>13, <1>14 DEF Next

-----------------------------------------------------------------------------
(***************************************************************************)
(* What no step does, whatever its kind.                                   *)
(***************************************************************************)

(* Trouble that has happened is not taken back.                            *)
LEMMA BudgetShrinks ==
  ASSUME TypeOK, [Next]_vars
  PROVE  \A trouble \in Troubles : budget'[trouble] <= budget[trouble]
<1>1. \A trouble \in Troubles : budget[trouble] \in Nat
  BY DEF TypeOK
<1>2. CASE budget' = budget
  BY <1>1, <1>2
<1>3. ASSUME NEW t \in Troubles, Spend(t)
      PROVE  \A trouble \in Troubles : budget'[trouble] <= budget[trouble]
  BY <1>1, <1>3 DEF Spend, TypeOK
<1>4. ASSUME NEW w \in Workers, WorkerStep(w)
      PROVE  budget' = budget \/ Spend("shed")
  BY <1>4 DEF WorkerStep, CommitEdit, Load, Check, Claim, Setup, Translate, Hold, Noop, Save, Push,
              Record, Complete, Retry, Die, Shed
<1>5. budget' = budget \/ \E t \in Troubles : Spend(t)
  BY <1>4 DEF Next, vars, QueryFails, Crash, BeginEdit, Drain, Propagate, ClaimExpires, Heartbeat, OpenEntry,
              Reinject, Bootstrap, PauseConnector, ActivateConnector, Troubles
<1> QED
  BY <1>2, <1>3, <1>5

(* A run that is free of stalls, or smooth, was so before.                 *)
LEMMA BudgetNext ==
  ASSUME TypeOK, TypeOK', BudgetInv, [Next]_vars
  PROVE  /\ BudgetInv'
         /\ Unstalled' => Unstalled /\ budget' ["stall"] = budget["stall"]
         /\ Smooth' => Smooth
<1>1. \A trouble \in Troubles : /\ budget'[trouble] <= budget[trouble]
                                /\ budget[trouble] <= Budget[trouble]
  BY BudgetShrinks DEF BudgetInv
<1>2. \A trouble \in Troubles : /\ budget[trouble] \in Nat
                                /\ budget'[trouble] \in Nat
                                /\ Budget[trouble] \in Nat
  BY BudgetAssumption DEF TypeOK
<1>3. "stall" \in Troubles /\ {"crash", "stall", "fault"} \subseteq Troubles
  BY DEF Troubles
<1> QED
  BY <1>1, <1>2, <1>3 DEF BudgetInv, Unstalled, Smooth

(* The row of an order that is not claimed or claimable rests: only an     *)
(* edit's commit, a preparation or a re-injection gives it another status. *)
LEMMA RowStays ==
  ASSUME TypeOK, Placement, Owned, Kinds, NEW o \in Orders, order[o].status \in Parked \cup Concluded
  PROVE  order'[o].status = order[o].status \/ Returns(o)
<1>1. order[o].status \notin {"none", "pending", "failed", "processing"}
  BY DEF Parked, Concluded
<1>2. CASE Rests
  BY <1>2 DEF Rests, Same
<1>3. CASE Reopens
  BY <1>1, <1>3 DEF Reopens
<1>4. ASSUME NEW w \in Workers, Walks(w) PROVE order'[o].status = order[o].status
  BY <1>4 DEF Walks, Same
<1>5. ASSUME NEW p \in Orders, Appears(p) PROVE order'[o].status = order[o].status
  BY <1>1, <1>5 DEF Appears, OtherRows
<1>6. ASSUME NEW p \in Orders, Returns(p) PROVE order'[o].status = order[o].status \/ Returns(o)
  BY <1>6 DEF Returns, OtherRows
<1>7. ASSUME NEW w \in Workers, NEW p \in Orders, Draws(w, p) PROVE order'[o].status = order[o].status
  BY <1>1, <1>7 DEF Draws, OtherRows
<1>8. ASSUME NEW w \in Workers, NEW p \in Orders, Commits(w, p) PROVE order'[o].status = order[o].status
  BY <1>1, <1>8 DEF Commits, OtherRows, Placement, Placed
<1>9. ASSUME NEW w \in Workers, NEW p \in Orders, Takes(w, p) PROVE order'[o].status = order[o].status
  BY <1>1, <1>9 DEF Takes, OtherRows, Claimable
<1>10. ASSUME NEW w \in Workers, NEW p \in Orders, Concludes(w, p) PROVE order'[o].status = order[o].status
  BY <1>1, <1>10, Nobody DEF Concludes, OtherRows, Owned
<1> QED
  BY <1>2, <1>3, <1>4, <1>5, <1>6, <1>7, <1>8, <1>9, <1>10 DEF Kinds

(* Every row a step touches, and how.                                      *)
LEMMA RowSteps ==
  ASSUME TypeOK, TypeOK', Placement, Owned, Kinds, NEW o \in Orders
  PROVE  \/ order'[o].pos = order[o].pos /\ order'[o].status = order[o].status
         \/ order'[o].pos = order[o].pos /\ order[o].status \in Blocking /\ order'[o].status # "none"
         \/ /\ order'[o].pos = order[o].pos /\ order[o].pos > 0 /\ o \in Edits
            /\ order[o].status = "none" /\ order'[o].status = "pending"
         \/ order'[o].pos = nextPos /\ order[o].status = "none" /\ nextPos' = nextPos + 1
<1>1. order[o] \in OrderType
  BY RowType
<1>2. CASE Rests
  BY <1>2 DEF Rests, Same
<1>3. CASE Reopens
  BY <1>1, <1>3 DEF Reopens, OrderType, Blocking
<1>4. ASSUME NEW w \in Workers, Walks(w)
      PROVE  order'[o].pos = order[o].pos /\ order'[o].status = order[o].status
  BY <1>4 DEF Walks, Same
<1>5. ASSUME NEW p \in Orders, Appears(p)
      PROVE  \/ order'[o].pos = order[o].pos /\ order'[o].status = order[o].status
             \/ order'[o].pos = nextPos /\ order[o].status = "none" /\ nextPos' = nextPos + 1
  BY <1>1, <1>5 DEF Appears, OtherRows, OrderType
<1>6. ASSUME NEW p \in Orders, Returns(p)
      PROVE  \/ order'[o].pos = order[o].pos /\ order'[o].status = order[o].status
             \/ order'[o].pos = order[o].pos /\ order[o].status \in Blocking /\ order'[o].status # "none"
  BY <1>6 DEF Returns, OtherRows, Blocking, Parked
<1>7. ASSUME NEW w \in Workers, NEW p \in Orders, Draws(w, p)
      PROVE  \/ order'[o].pos = order[o].pos /\ order'[o].status = order[o].status
             \/ order'[o].pos = nextPos /\ order[o].status = "none" /\ nextPos' = nextPos + 1
  BY <1>1, <1>7 DEF Draws, OtherRows, OrderType
<1>8. ASSUME NEW w \in Workers, NEW p \in Orders, Commits(w, p)
      PROVE  \/ order'[o].pos = order[o].pos /\ order'[o].status = order[o].status
             \/ /\ order'[o].pos = order[o].pos /\ order[o].pos > 0 /\ o \in Edits
                /\ order[o].status = "none" /\ order'[o].status = "pending"
  BY <1>1, <1>8 DEF Commits, OtherRows, Placement, Placed, OrderType
<1>9. ASSUME NEW w \in Workers, NEW p \in Orders, Takes(w, p)
      PROVE  \/ order'[o].pos = order[o].pos /\ order'[o].status = order[o].status
             \/ order'[o].pos = order[o].pos /\ order[o].status \in Blocking /\ order'[o].status # "none"
  <2>1. CASE o # p
    BY <1>9, <2>1 DEF Takes, OtherRows
  <2>2. CASE o = p
    <3>1. order'[o] = [order[o] EXCEPT !.status = "processing", !.attempts = order[o].attempts + 1,
                                       !.owner = w, !.expired = FALSE]
      BY <1>9, <2>2 DEF Takes
    <3>2. order'[o].pos = order[o].pos /\ order'[o].status = "processing"
      BY <1>1, <3>1 DEF OrderType
    <3>3. order[o].status \in Blocking
      BY <1>9, <2>2 DEF Takes, Claimable, Blocking
    <3> QED
      BY <3>2, <3>3
  <2> QED
    BY <2>1, <2>2
<1>10. ASSUME NEW w \in Workers, NEW p \in Orders, Concludes(w, p)
       PROVE  \/ order'[o].pos = order[o].pos /\ order'[o].status = order[o].status
              \/ order'[o].pos = order[o].pos /\ order[o].status \in Blocking /\ order'[o].status # "none"
  BY <1>10, Nobody DEF Concludes, OtherRows, Owned, Blocking
<1> QED
  BY <1>2, <1>3, <1>4, <1>5, <1>6, <1>7, <1>8, <1>9, <1>10 DEF Kinds

(* No two orders draw one position.                                        *)
LEMMA PositionsNext ==
  ASSUME TypeOK, TypeOK', Placement, Positions, Owned, Kinds
  PROVE  Positions'
<1>1. \A o \in Orders : order[o].pos \in Nat /\ order'[o].pos \in Nat
  <2>1. \A o \in Orders : order[o] \in OrderType /\ order'[o] \in OrderType
    BY DEF TypeOK
  <2> QED
    BY <2>1 DEF OrderType
<1>2. nextPos \in Nat \ {0} /\ nextPos' \in Nat \ {0}
  BY DEF TypeOK
<1>3. \/ nextPos' = nextPos
      \/ nextPos' = nextPos + 1 /\ \E q \in Orders : OtherRows(q)
  <2>1. ASSUME NEW q \in Orders, Appears(q) \/ Returns(q)
        PROVE  nextPos' = nextPos \/ (nextPos' = nextPos + 1 /\ OtherRows(q))
    BY <2>1 DEF Appears, Returns
  <2>2. ASSUME NEW w \in Workers, NEW q \in Orders,
               Draws(w, q) \/ Commits(w, q) \/ Takes(w, q) \/ Concludes(w, q)
        PROVE  nextPos' = nextPos \/ (nextPos' = nextPos + 1 /\ OtherRows(q))
    BY <2>2 DEF Draws, Commits, Takes, Concludes
  <2>3. Rests \/ Reopens \/ (\E w \in Workers : Walks(w)) => nextPos' = nextPos
    BY DEF Rests, Reopens, Walks
  <2> QED
    BY <2>1, <2>2, <2>3 DEF Kinds
<1>4. \A o \in Orders : \/ order'[o].pos = order[o].pos
                        \/ order'[o].pos = nextPos /\ nextPos' = nextPos + 1
  BY RowSteps
<1>5. ASSUME NEW o \in Orders
      PROVE  order'[o].pos < nextPos' /\ (order'[o].status # "none" => order'[o].pos > 0)
  <2>1. order[o].pos < nextPos /\ (order[o].status # "none" => order[o].pos > 0)
    BY DEF Positions
  <2>2. order'[o].status # "none" => order'[o].pos > 0
    BY <1>1, <1>2, <2>1, RowSteps DEF Blocking
  <2>3. order'[o].pos < nextPos'
    BY <1>1, <1>2, <1>3, <1>4, <2>1
  <2> QED
    BY <2>2, <2>3
<1>6. ASSUME NEW o \in Orders, NEW p \in Orders, order'[o].pos = order'[p].pos, order'[o].pos > 0
      PROVE  o = p
  <2>1. order[o].pos < nextPos /\ order[p].pos < nextPos
    BY DEF Positions
  <2>2. CASE order'[o].pos = order[o].pos /\ order'[p].pos = order[p].pos
    BY <1>6, <2>2 DEF Positions
  <2>3. CASE order'[o].pos = nextPos /\ order'[p].pos = nextPos
    <3>1. nextPos' = nextPos + 1 /\ order[o].pos # order'[o].pos /\ order[p].pos # order'[p].pos
      BY <1>1, <1>2, <1>4, <2>1, <2>3
    <3>2. \E q \in Orders : OtherRows(q)
      BY <1>2, <1>3, <3>1
    <3> QED
      BY <3>1, <3>2 DEF OtherRows
  <2> QED
    BY <1>1, <1>2, <1>4, <1>6, <2>1, <2>2, <2>3
<1> QED
  BY <1>5, <1>6 DEF Positions

(* Whatever ends a claim clears its owner.                                 *)
LEMMA OwnedNext ==
  ASSUME TypeOK, Placement, Owned, Kinds
  PROVE  Owned'
<1> SUFFICES ASSUME NEW o \in Orders, order'[o].owner # NoOwner
             PROVE  order'[o].status = "processing"
  BY DEF Owned
<1>1. order[o] \in OrderType /\ (order[o].owner # NoOwner => order[o].status = "processing")
  BY RowType DEF Owned
<1>2. CASE order'[o] = order[o]
  BY <1>1, <1>2
<1>3. CASE Rests
  BY <1>1, <1>3 DEF Rests, Same
<1>4. CASE Reopens
  <2>1. \/ order'[o] = order[o]
        \/ order'[o] = [order[o] EXCEPT !.status = "failed", !.owner = NoOwner, !.expired = FALSE]
    BY <1>4 DEF Reopens
  <2>2. [order[o] EXCEPT !.status = "failed", !.owner = NoOwner, !.expired = FALSE].owner = NoOwner
    BY <1>1 DEF OrderType
  <2> QED
    BY <1>1, <2>1, <2>2
<1>5. ASSUME NEW w \in Workers, Walks(w) PROVE order'[o].status = "processing"
  BY <1>1, <1>5 DEF Walks, Same
<1>6. ASSUME NEW p \in Orders, Appears(p) PROVE order'[o].status = "processing"
  <2>1. CASE o # p
    BY <1>2, <1>6, <2>1 DEF Appears, OtherRows
  <2>2. CASE o = p
    <3>1. order'[o] = [order[o] EXCEPT !.status = "pending", !.pos = nextPos] /\ order[o].status = "none"
      BY <1>6, <2>2 DEF Appears
    <3>2. order'[o].owner = order[o].owner
      BY <1>1, <3>1 DEF OrderType
    <3> QED
      BY <1>1, <3>1, <3>2
  <2> QED
    BY <2>1, <2>2
<1>7. ASSUME NEW p \in Orders, Returns(p) PROVE order'[o].status = "processing"
  BY <1>1, <1>2, <1>7 DEF Returns, OtherRows
<1>8. ASSUME NEW w \in Workers, NEW p \in Orders, Draws(w, p) PROVE order'[o].status = "processing"
  BY <1>1, <1>2, <1>8 DEF Draws, OtherRows, OrderType
<1>9. ASSUME NEW w \in Workers, NEW p \in Orders, Commits(w, p)
      PROVE  order'[o].status = "processing"
  BY <1>1, <1>2, <1>9 DEF Commits, OtherRows, OrderType, Placement, Placed
<1>10. ASSUME NEW w \in Workers, NEW p \in Orders, Takes(w, p) PROVE order'[o].status = "processing"
  <2>1. CASE o # p
    BY <1>2, <1>10, <2>1 DEF Takes, OtherRows
  <2>2. CASE o = p
    <3>1. order'[o] = [order[o] EXCEPT !.status = "processing", !.attempts = order[o].attempts + 1,
                                       !.owner = w, !.expired = FALSE]
      BY <1>10, <2>2 DEF Takes
    <3> QED
      BY <1>1, <3>1 DEF OrderType
  <2> QED
    BY <2>1, <2>2
<1>11. ASSUME NEW w \in Workers, NEW p \in Orders, Concludes(w, p) PROVE order'[o].status = "processing"
  BY <1>1, <1>2, <1>11 DEF Concludes, OtherRows
<1> QED
  BY <1>3, <1>4, <1>5, <1>6, <1>7, <1>8, <1>9, <1>10, <1>11 DEF Kinds

(* No step leaves a worker at an order that is not there.                  *)
LEMMA PlacementNext ==
  ASSUME TypeOK, TypeOK', Placement, Positions, Owned, Kinds
  PROVE  Placement'
<1>1. \A o \in Orders : order[o].pos \in Nat
  BY RowType DEF OrderType
<1>2. nextPos \in Nat \ {0}
  BY DEF TypeOK
<1>3. \A o \in Orders : order[o].status # "none" => order'[o].status # "none"
  BY RowSteps DEF Blocking
<1>4. ASSUME NEW o \in Edits, order[o].status = "none", order[o].pos > 0,
             ~ \E w \in Workers : Commits(w, o)
      PROVE  order'[o].status = "none" /\ order'[o].pos > 0
  <2>1. o \in Orders
    BY EditAssumption
  <2>2. order[o].owner = NoOwner
    BY <1>4, <2>1 DEF Owned
  <2>3. CASE order'[o] = order[o]
    BY <1>4, <2>3
  <2>4. CASE Rests \/ \E w \in Workers : Walks(w)
    BY <1>4, <2>1, <2>4 DEF Rests, Walks, Same
  <2>5. CASE Reopens
    BY <1>4, <2>1, <2>3, <2>5 DEF Reopens
  <2>6. ASSUME NEW p \in Orders, Appears(p) \/ Returns(p) PROVE order'[o] = order[o]
    BY <1>4, <2>1, <2>6 DEF Appears, Returns, OtherRows, Parked
  <2>7. ASSUME NEW w \in Workers, NEW p \in Orders,
               Draws(w, p) \/ Commits(w, p) \/ Takes(w, p) \/ Concludes(w, p)
        PROVE  order'[o] = order[o]
    <3>1. p # o
      BY <1>1, <1>4, <2>1, <2>2, <2>7, Nobody DEF Draws, Takes, Concludes, Claimable
    <3> QED
      BY <2>1, <2>7, <3>1 DEF Draws, Commits, Takes, Concludes, OtherRows
  <2> QED
    BY <2>3, <2>4, <2>5, <2>6, <2>7 DEF Kinds
(* A worker that stands where it stood.                                    *)
<1>5. ASSUME NEW v \in Workers, worker'[v] = worker[v],
             \A w \in Workers, o \in Orders : Commits(w, o) => v # w
      PROVE  Placed(v)'
  <2>1. CASE worker[v].stage = "insert"
    <3> DEFINE o == worker[v].order
    <3>1. o \in Orders /\ o \in Edits /\ order[o].status = "none" /\ order[o].pos > 0
      BY <2>1 DEF Placement, Placed
    <3>2. ~ \E w \in Workers : Commits(w, o)
      BY <1>5, <2>1, <3>1 DEF Commits, Placement
    <3>3. order'[o].status = "none" /\ order'[o].pos > 0
      BY <1>4, <3>1, <3>2
    <3> QED
      BY <1>5, <2>1, <3>1, <3>3 DEF Placed
  <2>2. CASE worker[v].stage # "insert"
    BY <1>3, <1>5, <2>2 DEF Placement, Placed
  <2> QED
    BY <2>1, <2>2
<1>6. CASE Rests \/ Reopens \/ \E o \in Orders : Appears(o) \/ Returns(o)
  <2>1. worker' = worker
    BY <1>6 DEF Rests, Reopens, Appears, Returns
  <2>2. \A w \in Workers, o \in Orders : ~ Commits(w, o)
    BY <2>1 DEF Commits
  <2> QED
    BY <1>5, <2>1, <2>2 DEF Placement
<1>7. ASSUME NEW w \in Workers, Walks(w) PROVE Placement'
  <2>1. \A v \in Workers : v # w => worker'[v] = worker[v]
    BY <1>7 DEF Walks, OtherWorkers
  <2>2. worker'[w].stage # "insert" /\ \A o \in Orders : order'[o].status = order[o].status
    BY <1>7 DEF Walks, Same, Holding
  <2>3. Placed(w)'
    <3>1. CASE worker'[w].stage = "idle"
      BY <3>1 DEF Placed
    <3>2. CASE worker'[w].order \in Orders /\ order[worker'[w].order].status # "none"
      BY <2>2, <3>2 DEF Placed
    <3>3. CASE worker'[w].order = worker[w].order /\ worker[w].stage \in Holding \cup {"load", "check"}
      BY <2>2, <3>3 DEF Placed, Placement, Holding
    <3> QED
      BY <1>7, <3>1, <3>2, <3>3 DEF Walks
  <2>4. \A v \in Workers, u \in Workers, o \in Orders : Commits(u, o) => v = w \/ v # u
    BY <1>7, <2>2 DEF Commits, Walks, Same, Placement, Placed, OtherWorkers
  <2>5. \A v \in Workers : Placed(v)'
    BY <1>5, <2>1, <2>3, <2>4
  <2> QED
    BY <2>1, <2>2, <2>5 DEF Placement
<1>8. ASSUME NEW w \in Workers, NEW o \in Orders, Draws(w, o) PROVE Placement'
  <2>1. \A v \in Workers : v # w => worker'[v] = worker[v]
    BY <1>8 DEF Draws, OtherWorkers
  <2>2. /\ worker'[w].stage = "insert" /\ worker'[w].order = o /\ o \in Edits
        /\ order'[o].status = "none" /\ order'[o].pos > 0
    BY <1>2, <1>8, RowType DEF Draws, OrderType
  <2>3. \A v \in Workers, u \in Workers, p \in Orders : v # w /\ Commits(u, p) => v # u
    BY <2>1 DEF Commits
  <2>4. \A v \in Workers : v # w /\ worker[v].stage = "insert" => worker[v].order # o
    BY <1>1, <1>8 DEF Draws, Placement, Placed
  <2>5. \A v \in Workers : v # w => Placed(v)'
    BY <1>5, <2>1, <2>3
  <2>6. Placed(w)'
    BY <2>2 DEF Placed
  <2> QED
    BY <2>1, <2>2, <2>4, <2>5, <2>6 DEF Placement
<1>9. ASSUME NEW w \in Workers, NEW o \in Orders, Commits(w, o) \/ Takes(w, o) \/ Concludes(w, o)
      PROVE  Placement'
  <2>1. \A v \in Workers : v # w => worker'[v] = worker[v]
    BY <1>9 DEF Commits, Takes, Concludes, OtherWorkers
  <2>2. /\ worker'[w].stage \in {"load", "setup", "idle"}
        /\ worker'[w].stage # "idle" => worker'[w].order = o /\ order'[o].status # "none"
    <3>1. [order[o] EXCEPT !.status = "pending"].status # "none"
      BY RowType DEF OrderType
    <3>2. [order[o] EXCEPT !.status = "processing", !.attempts = order[o].attempts + 1,
                           !.owner = w, !.expired = FALSE].status # "none"
      BY RowType DEF OrderType
    <3> QED
      BY <1>9, <3>1, <3>2 DEF Commits, Takes, Concludes
  <2>3. \A v \in Workers, u \in Workers, p \in Orders : v # w /\ Commits(u, p) => v # u
    BY <2>1 DEF Commits
  <2>4. \A v \in Workers : v # w => Placed(v)'
    BY <1>5, <2>1, <2>3
  <2>5. Placed(w)'
    BY <2>2 DEF Placed
  <2> QED
    BY <2>1, <2>2, <2>4, <2>5 DEF Placement
<1> QED
  BY <1>6, <1>7, <1>8, <1>9 DEF Kinds

(* Nothing gets in front of a prepared order but an edit whose row appears *)
(* with the position it drew before.                                       *)
LEMMA OlderGrows ==
  ASSUME TypeOK, TypeOK', Placement, Positions, Owned, Kinds, NEW o \in Orders, order[o].status # "none"
  PROVE  Older(o)' \subseteq Older(o) \cup Edits
<1>1. \A p \in Orders : order[p].pos \in Nat /\ order[p].pos < nextPos
  BY RowType DEF Positions, OrderType
<1>2. nextPos \in Nat
  BY DEF TypeOK
<1>3. order'[o].pos = order[o].pos
  BY RowSteps
<1> SUFFICES ASSUME NEW p \in Orders, TwinOf[p] = TwinOf[o], order'[p].pos < order'[o].pos,
                    order'[p].status \in Blocking, p \notin Edits
             PROVE  p \in Older(o)
  BY DEF Older
<1>4. order'[p].pos # nextPos
  BY <1>1, <1>2, <1>3
<1>5. order'[p].pos = order[p].pos /\ order[p].status \in Blocking
  BY <1>4, RowSteps
<1> QED
  BY <1>3, <1>5 DEF Older

(* The check that found no older order holds on, but for edits.            *)
LEMMA HeadsNext ==
  ASSUME TypeOK, TypeOK', Placement, Positions, Owned, Heads, Kinds
  PROVE  Heads'
<1> SUFFICES ASSUME NEW v \in Workers, worker'[v].stage \in Holding \cup {"claim"}
             PROVE  Older(worker[v].order)' \subseteq Edits
  BY DEF Heads
<1> DEFINE o == worker[v].order
<1>1. /\ worker'[v].order = o
      /\ worker[v].stage \in Holding \cup {"claim", "check"}
      /\ Older(o) \subseteq Edits
  <2>1. CASE worker'[v] = worker[v]
    BY <2>1 DEF Heads
  <2>2. CASE worker'[v] # worker[v]
    <3>1. Walks(v) \/ \E p \in Orders : Takes(v, p)
      <4>1. ~ (Rests \/ Reopens \/ \E p \in Orders : Appears(p) \/ Returns(p))
        BY <2>2 DEF Rests, Reopens, Appears, Returns
      <4>2. ASSUME NEW w \in Workers, Walks(w) PROVE w = v
        BY <2>2, <4>2 DEF Walks, OtherWorkers
      <4>3. ASSUME NEW w \in Workers, NEW p \in Orders,
                   Draws(w, p) \/ Commits(w, p) \/ Takes(w, p) \/ Concludes(w, p)
            PROVE  w = v /\ Takes(w, p)
        BY <2>2, <4>3 DEF Draws, Commits, Takes, Concludes, OtherWorkers, Holding
      <4> QED
        BY <4>1, <4>2, <4>3 DEF Kinds
    <3>2. CASE Walks(v)
      BY <3>2 DEF Walks, Heads, Holding
    <3>3. ASSUME NEW p \in Orders, Takes(v, p)
          PROVE  worker'[v].order = o /\ worker[v].stage = "claim"
      BY <3>3 DEF Takes
    <3> QED
      BY <3>1, <3>2, <3>3 DEF Heads
  <2> QED
    BY <2>1, <2>2
<1>2. o \in Orders /\ order[o].status # "none"
  BY <1>1 DEF Placement, Placed, Holding
<1>3. PICK q \in Orders : q = o
  BY <1>2
<1>4. Older(q)' \subseteq Older(q) \cup Edits
  BY <1>2, <1>3, OlderGrows
<1>5. Older(worker[v].order)' = Older(q)'
  BY <1>1, <1>3 DEF Older
<1> QED
  BY <1>1, <1>3, <1>4, <1>5

(* A claim cannot be won, re-opened or re-injected under a worker whose    *)
(* heartbeat keeps it from expiring.                                       *)
LEMMA GripNext ==
  ASSUME TypeOK, TypeOK', Placement, Positions, Owned, BudgetInv, Grip, [Next]_vars, Kinds
  PROVE  Grip'
<1> SUFFICES ASSUME Unstalled', NEW v \in Workers, worker'[v].stage \in Holding
             PROVE  LET r == order'[worker'[v].order]
                    IN  r.owner = v /\ r.status = "processing" /\ ~r.expired
                        /\ r.attempts = worker'[v].seen /\ r.attempts > 0
  BY DEF Grip
<1>1. Unstalled /\ budget'["stall"] = budget["stall"] /\ budget["stall"] \in Nat
  BY BudgetNext DEF TypeOK, Troubles
<1>2. \A o \in Orders : order[o] \in OrderType
  BY RowType
<1>3. ASSUME NEW w \in Workers, worker[w].stage \in Holding
      PROVE  LET r == order[worker[w].order]
             IN  /\ worker[w].order \in Orders
                 /\ r.owner = w /\ r.status = "processing" /\ ~r.expired
                 /\ r.attempts = worker[w].seen /\ r.attempts > 0
  BY <1>1, <1>3 DEF Grip, Placement, Placed, Holding
<1>4. CASE /\ worker'[v] = worker[v]
           /\ order'[worker[v].order] = order[worker[v].order]
  BY <1>3, <1>4
<1>5. CASE Rests
  <2>1. worker[v].stage \in Holding /\ worker'[v] = worker[v]
    BY <1>5 DEF Rests
  <2>2. Beating(worker[v].order)
    BY <1>3, <2>1 DEF Beating, Holds
  <2>3. ~order'[worker[v].order].expired
    BY <1>1, <1>3, <1>5, <2>1, <2>2 DEF Rests
  <2> QED
    BY <1>3, <1>5, <2>1, <2>3 DEF Rests, Same
<1>6. CASE Reopens
  BY <1>3, <1>4, <1>6 DEF Reopens
<1>7. ASSUME NEW w \in Workers, Walks(w)
      PROVE  LET r == order'[worker'[v].order]
             IN  r.owner = v /\ r.status = "processing" /\ ~r.expired
                 /\ r.attempts = worker'[v].seen /\ r.attempts > 0
  <2>1. /\ worker[v].stage \in Holding
        /\ worker'[v].order = worker[v].order
        /\ worker'[v].seen = worker[v].seen
    BY <1>7 DEF Walks, OtherWorkers, Holding
  <2> QED
    BY <1>3, <1>7, <2>1 DEF Walks, Same
<1>8. ASSUME NEW p \in Orders, Appears(p) \/ Returns(p)
      PROVE  worker'[v] = worker[v] /\ order'[worker[v].order] = order[worker[v].order]
  BY <1>3, <1>8 DEF Appears, Returns, OtherRows, Parked
<1>9. ASSUME NEW w \in Workers, NEW p \in Orders, Draws(w, p) \/ Commits(w, p)
      PROVE  worker'[v] = worker[v] /\ order'[worker[v].order] = order[worker[v].order]
  <2>1. v # w /\ order[p].status = "none"
    BY <1>9 DEF Draws, Commits, Placement, Placed, Holding
  <2> QED
    BY <1>3, <1>9, <2>1 DEF Draws, Commits, OtherRows, OtherWorkers
<1>10. ASSUME NEW w \in Workers, NEW p \in Orders, Takes(w, p)
       PROVE  LET r == order'[worker'[v].order]
              IN  r.owner = v /\ r.status = "processing" /\ ~r.expired
                  /\ r.attempts = worker'[v].seen /\ r.attempts > 0
  <2>1. CASE v # w
    <3>1. worker'[v] = worker[v]
      BY <1>10, <2>1 DEF Takes, OtherWorkers
    <3>2. worker[v].order # p
      BY <1>3, <1>10, <3>1 DEF Takes, Claimable
    <3> QED
      BY <1>3, <1>4, <1>10, <3>1, <3>2 DEF Takes, OtherRows
  <2>2. CASE v = w
    <3> DEFINE n == order[p].attempts + 1
    <3>1. order'[p] = [order[p] EXCEPT !.status = "processing", !.attempts = n,
                                       !.owner = w, !.expired = FALSE]
      BY <1>10 DEF Takes
    <3>2. order'[p].owner = w /\ order'[p].status = "processing" /\ ~order'[p].expired
          /\ order'[p].attempts = n
      <4> HIDE DEF n
      <4> QED
        BY <1>2, <3>1 DEF OrderType
    <3>3. n > 0
      BY <1>2 DEF OrderType
    <3> QED
      BY <1>10, <2>2, <3>2, <3>3 DEF Takes
  <2> QED
    BY <2>1, <2>2
<1>11. ASSUME NEW w \in Workers, NEW p \in Orders, Concludes(w, p)
       PROVE  worker'[v] = worker[v] /\ order'[worker[v].order] = order[worker[v].order]
  <2>1. v # w
    BY <1>11 DEF Concludes, Holding
  <2>2. worker'[v] = worker[v] /\ worker[v].order # p
    BY <1>3, <1>11, <2>1 DEF Concludes, OtherWorkers
  <2> QED
    BY <1>3, <1>11, <2>2 DEF Concludes, OtherRows
<1> QED
  BY <1>4, <1>5, <1>6, <1>7, <1>8, <1>9, <1>10, <1>11 DEF Kinds

-----------------------------------------------------------------------------
(* The inductive invariant.                                                *)
QueueInv == /\ TypeOK
            /\ Placement
            /\ Positions
            /\ Owned
            /\ Heads
            /\ BudgetInv
            /\ Grip

(* The invariant holds at first ...                                        *)
LEMMA QueueInit == Init => QueueInv
<1> SUFFICES ASSUME Init PROVE QueueInv
  OBVIOUS
<1>1. TypeOK
  BY TypeInit
<1>2. \A w \in Workers : worker[w].stage = "idle"
  BY DEF Init, Idle
<1>3. \A o \in Orders : order[o].status = "none" /\ order[o].pos = 0 /\ order[o].owner = NoOwner
  BY DEF Init, Absent
<1>4. Placement /\ Heads /\ Grip
  BY <1>2 DEF Placement, Placed, Heads, Grip, Holding
<1>5. Positions /\ Owned
  BY <1>3 DEF Positions, Owned, Init
<1>6. BudgetInv
  BY BudgetAssumption DEF BudgetInv, Init
<1> QED
  BY <1>1, <1>4, <1>5, <1>6 DEF QueueInv

(* A step that changes nothing is at rest.                                 *)
LEMMA StutterKind ==
  ASSUME UNCHANGED vars
  PROVE  Kinds
  BY DEF vars, Kinds, Rests, Same

(* ... and every step keeps it.                                            *)
LEMMA QueueNext == QueueInv /\ [Next]_vars => QueueInv'
<1> SUFFICES ASSUME QueueInv, [Next]_vars PROVE QueueInv'
  OBVIOUS
<1>1. TypeOK'
  BY TypeNext DEF QueueInv
<1>2. Kinds
  BY StepKinds, StutterKind DEF QueueInv
<1> QED
  BY <1>1, <1>2, PlacementNext, PositionsNext, OwnedNext, HeadsNext, GripNext, BudgetNext DEF QueueInv

(* Rows hold statuses of the schema, workers stand at await points of      *)
(* executeWorkOrder, counters stay natural numbers.                        *)
THEOREM TypeCorrect == Spec => []TypeOK
<1>1. QueueInv => TypeOK
  BY DEF QueueInv
<1> QED
  BY <1>1, QueueInit, QueueNext, PTL DEF Spec

(* The inductive invariant holds in every reachable state.                 *)
THEOREM QueueCorrect == Spec => []QueueInv
  BY QueueInit, QueueNext, PTL DEF Spec

(* No step, of a late worker or any other, changes the status of a finished*)
(* order, and none but a re-injection that of a parked one: the fence of   *)
(* the updates (connector.service.ts:1783) and the guard of the claim      *)
(* (1667) are enough, stalls, crashes and failures included.               *)
THEOREM ConcludedStays == Spec => ConcludedIsFinal
<1>1. ASSUME QueueInv, [Next]_vars
      PROVE  [\A o \in Orders :
                /\ order[o].status \in Concluded => order'[o].status = order[o].status
                /\ order[o].status \in Parked =>
                     \/ order'[o].status = order[o].status
                     \/ order'[o].status = "pending" /\ order'[o].attempts = 0]_vars
  <2> SUFFICES ASSUME NEW o \in Orders, order[o].status \in Parked \cup Concluded
               PROVE  \/ order'[o].status = order[o].status
                      \/ /\ order[o].status \in Parked
                         /\ order'[o].status = "pending" /\ order'[o].attempts = 0
    BY DEF Parked, Concluded
  <2>1. Kinds
    BY <1>1, StepKinds, StutterKind DEF QueueInv
  <2> QED
    BY <1>1, <2>1, RowStays DEF QueueInv, Returns
<1> QED
  BY <1>1, QueueCorrect, PTL DEF Spec, ConcludedIsFinal

(* Two writers of one twin: the younger order was claimed while the older  *)
(* one was an edit whose row had not appeared.                             *)
LEMMA OneWriter == QueueInv => OneWriterPerTwin
<1> SUFFICES ASSUME QueueInv, Unstalled, NEW v \in Workers, NEW w \in Workers, v # w,
                    worker[v].stage \in Holding, worker[w].stage \in Holding,
                    TwinOf[worker[v].order] = TwinOf[worker[w].order]
             PROVE  LET o == worker[v].order
                        p == worker[w].order
                    IN  \/ order[o].pos < order[p].pos /\ o \in Edits
                        \/ order[p].pos < order[o].pos /\ p \in Edits
  BY DEF OneWriterPerTwin
<1> DEFINE o == worker[v].order
           p == worker[w].order
<1>1. o \in Orders /\ p \in Orders
  BY DEF QueueInv, Placement, Placed, Holding
<1>2. /\ order[o].owner = v /\ order[o].status = "processing"
      /\ order[p].owner = w /\ order[p].status = "processing"
  BY DEF QueueInv, Grip
<1>3. order[o].pos # order[p].pos
  BY <1>1, <1>2 DEF QueueInv, Positions
<1>4. order[o].pos \in Nat /\ order[p].pos \in Nat
  BY <1>1, RowType DEF QueueInv, OrderType
<1>5. order[o].pos < order[p].pos => o \in Older(p)
  BY <1>1, <1>2 DEF Older, Blocking
<1>6. order[p].pos < order[o].pos => p \in Older(o)
  BY <1>1, <1>2 DEF Older, Blocking
<1>7. Older(o) \subseteq Edits /\ Older(p) \subseteq Edits
  BY DEF QueueInv, Heads
<1> QED
  BY <1>3, <1>4, <1>5, <1>6, <1>7

(* A twin is paused only by a worker that parks its order in the same step. *)
LEMMA PausesPark ==
  ASSUME QueueInv, Unstalled, [Next]_vars, NEW t \in Twins, sync'[t] = "paused"
  PROVE  \/ sync[t] = "paused"
         \/ \E o \in Orders : TwinOf[o] = t /\ order'[o].status \in Parked
<1>1. CASE sync' = sync
  BY <1>1
<1>2. ASSUME NEW u \in Twins, sync' = [sync EXCEPT ![u] = "synced"]
      PROVE  sync[t] = "paused"
  BY <1>2 DEF QueueInv, TypeOK
<1>3. ASSUME NEW w \in Workers, Hold(w) \/ Die(w)
      PROVE  \/ sync[t] = "paused"
             \/ \E o \in Orders : TwinOf[o] = t /\ order'[o].status \in Parked
  <2> DEFINE o == worker[w].order
  <2>1. o \in Orders /\ Fenced(w)
    BY <1>3 DEF Hold, Die, QueueInv, Placement, Placed, Grip, Fenced, Holding
  <2>2. PICK s \in Parked : order' = [order EXCEPT ![o].status = s, ![o].owner = NoOwner]
    BY <1>3, <2>1 DEF Hold, Die, Parked
  <2>3. order'[o] = [order[o] EXCEPT !.status = s, !.owner = NoOwner]
    BY <2>1, <2>2 DEF QueueInv, TypeOK
  <2>4. order'[o].status \in Parked
    <3>1. order[o] \in OrderType
      BY <2>1, RowType DEF QueueInv
    <3>2. [order[o] EXCEPT !.status = s, !.owner = NoOwner].status = s
      <4> DEFINE r == order[o]
      <4> HIDE DEF r
      <4> QED
        BY <3>1 DEF OrderType
    <3> QED
      BY <2>3, <3>2
  <2>5. sync' = [sync EXCEPT ![TwinOf[o]] = "paused"]
    BY <1>3 DEF Hold, Die
  <2> QED
    BY <2>1, <2>4, <2>5, TwinOfType DEF QueueInv, TypeOK
<1>4. ASSUME NEW w \in Workers, Complete(w)
      PROVE  sync[t] = "paused"
  <2>1. worker[w].order \in Orders
    BY <1>4 DEF Complete, QueueInv, Placement, Placed
  <2> QED
    BY <1>1, <1>2, <1>4, <2>1, TwinOfType DEF Complete
<1>5. ASSUME NEW o \in Orders, Reinject(o) PROVE sync[t] = "paused"
  BY <1>2, <1>5, TwinOfType DEF Reinject
<1>6. ASSUME NEW w \in Workers, WorkerStep(w)
      PROVE  Hold(w) \/ Die(w) \/ Complete(w) \/ sync' = sync
  BY <1>6 DEF WorkerStep, CommitEdit, Load, Check, Claim, Setup, Translate, Noop, Save, Push, Record,
              Retry, Shed
<1>7. \/ sync' = sync
      \/ \E w \in Workers : Hold(w) \/ Die(w) \/ Complete(w)
      \/ \E o \in Orders : Reinject(o)
  BY <1>6 DEF Next, vars, QueryFails, Crash, BeginEdit, Drain, Propagate, ClaimExpires, Heartbeat, OpenEntry,
              Bootstrap, PauseConnector, ActivateConnector
<1> QED
  BY <1>1, <1>3, <1>4, <1>5, <1>7

(* No twin is paused at first; a paused twin keeps a parked order until an *)
(* operator re-injects one and un-pauses it.                               *)
LEMMA PausedInit == Init => PausedIsParked
  BY DEF Init, PausedIsParked

LEMMA PausedNext == QueueInv /\ PausedIsParked /\ [Next]_vars => PausedIsParked'
<1> SUFFICES ASSUME QueueInv, PausedIsParked, [Next]_vars, Unstalled', NEW t \in Twins, sync'[t] = "paused"
             PROVE  \E o \in Orders : TwinOf[o] = t /\ order'[o].status \in Parked
  BY DEF PausedIsParked
<1>1. Unstalled
  BY QueueNext, BudgetNext DEF QueueInv
<1>2. CASE sync[t] = "paused"
  <2>1. PICK o \in Orders : TwinOf[o] = t /\ order[o].status \in Parked
    BY <1>1, <1>2 DEF PausedIsParked
  <2>2. Kinds
    BY StepKinds, StutterKind DEF QueueInv
  <2>3. order'[o].status = order[o].status \/ Returns(o)
    BY <2>1, <2>2, RowStays DEF QueueInv
  <2>4. ~ Returns(o)
    BY <2>1 DEF Returns, QueueInv, TypeOK
  <2> QED
    BY <2>1, <2>3, <2>4
<1> QED
  BY <1>1, <1>2, PausesPark

(* Until a worker stalls past its claim, a twin has one writer, unless the *)
(* older order is an edit (connector.service.ts:1640-1700), and a paused   *)
(* twin has an order in the dead-letter queue (1791, 1929).                *)
THEOREM TwinsAreGuarded == Spec => []TwinIsGuarded
<1>1. QueueInv /\ PausedIsParked => TwinIsGuarded
  BY OneWriter DEF TwinIsGuarded
<1> QED
  BY <1>1, QueueInit, QueueNext, PausedInit, PausedNext, PTL DEF Spec

-----------------------------------------------------------------------------
(***************************************************************************)
(* Attempts and dead letters.  Most steps neither count an attempt nor     *)
(* declare an order dead.                                                  *)
(***************************************************************************)

QuietRows == /\ tries' = tries
             /\ refused \subseteq refused'
             /\ \A o \in Orders : /\ order'[o].attempts = order[o].attempts
                                  /\ order'[o].status = "dead" => order[o].status = "dead"

QuietWorkers ==
  \A w \in Workers :
    /\ worker'[w].stage = "shed" <=> worker[w].stage = "shed"
    /\ worker'[w].stage = "shed" => worker'[w].order = worker[w].order
    /\ worker'[w].stage = "die" =>
         \/ worker'[w] = worker[w]
         \/ worker'[w].order \in refused'
         \/ worker'[w].seen >= MaxAttempts

(* Moves that do not count.                                                *)
LEMMA GotoQuiet ==
  ASSUME TypeOK, NEW w \in Workers, NEW s, Goto(w, s), worker[w].stage # "shed", s # "shed",
         s = "die" => worker[w].order \in refused' \/ worker[w].seen >= MaxAttempts
  PROVE  QuietWorkers
<1>1. OtherWorkers(w) /\ worker'[w] = [worker[w] EXCEPT !.stage = s]
  BY GotoPlace
<1>2. worker'[w].stage = s /\ worker'[w].order = worker[w].order /\ worker'[w].seen = worker[w].seen
  <2>1. worker[w] \in WorkerType
    BY DEF TypeOK
  <2> QED
    BY <1>1, <2>1 DEF WorkerType
<1> QED
  BY <1>1, <1>2 DEF OtherWorkers, QuietWorkers

LEMMA LeaveQuiet ==
  ASSUME TypeOK, NEW w \in Workers, Leave(w), worker[w].stage # "shed"
  PROVE  QuietWorkers
  BY LeavePlace DEF OtherWorkers, QuietWorkers

LEMMA FailedQuiet ==
  ASSUME TypeOK, NEW w \in Workers, NEW b \in BOOLEAN, Failed(w, b), worker[w].stage # "shed",
         b \/ worker[w].order \in refused'
  PROVE  QuietWorkers
<1>1. worker[w].seen \in Nat /\ MaxAttempts \in Nat
  BY AttemptAssumption DEF TypeOK, WorkerType
<1>2. CASE Goto(w, "retry")
  BY <1>2, GotoQuiet
<1>3. CASE Goto(w, "die") /\ ~ (b /\ worker[w].seen < MaxAttempts)
  BY <1>1, <1>3, GotoQuiet
<1> QED
  BY <1>2, <1>3 DEF Failed

LEMMA OutcomeQuiet ==
  ASSUME TypeOK, NEW w \in Workers, NEW o \in Orders,
         NEW s \in {"held", "noop", "executed", "failed"}, UNCHANGED <<tries, refused>>,
         order' = IF Fenced(w) THEN [order EXCEPT ![o].status = s, ![o].owner = NoOwner] ELSE order
  PROVE  QuietRows
<1>1. CASE order' = order
  BY <1>1 DEF QuietRows
<1>2. CASE order' = [order EXCEPT ![o].status = s, ![o].owner = NoOwner]
  <2> DEFINE r == order[o]
  <2>1. OtherRows(o) /\ order'[o] = [r EXCEPT !.status = s, !.owner = NoOwner]
    BY <1>2 DEF OtherRows, TypeOK
  <2>2. r \in OrderType
    BY RowType
  <2>3. order'[o].status = s /\ order'[o].attempts = r.attempts
    <3> HIDE DEF r
    <3> QED
      BY <2>1, <2>2 DEF OrderType
  <2> QED
    BY <2>1, <2>3 DEF OtherRows, QuietRows
<1> QED
  BY <1>1, <1>2

(* The steps that are not quiet.                                           *)
Wakes == \E w \in Workers : \/ Claim(w) /\ Wins(w)
                            \/ Push(w) /\ Goto(w, "shed")
                            \/ Die(w)
                            \/ Shed(w)
Troubled == \E trouble \in {"crash", "stall", "fault"} : Spend(trouble)

(* A worker counts when it claims, is shed, or gives up for good.          *)
LEMMA WorkerQuiet ==
  ASSUME TypeOK, Placement, NEW w \in Workers, WorkerStep(w)
  PROVE  Wakes \/ (QuietRows /\ QuietWorkers)
<1> USE DEF history
<1> DEFINE o == worker[w].order
<1>1. o \in Orders
  BY DEF Placement, Placed, WorkerStep, CommitEdit, Load, Check, Claim, Setup, Translate, Hold,
         Noop, Save, Push, Record, Complete, Retry, Die, Shed
<1>2. order[o] \in OrderType /\ worker[w] \in WorkerType
  BY <1>1 DEF TypeOK
<1>3. CASE CommitEdit(w)
  <2>1. OtherRows(o) /\ order'[o] = [order[o] EXCEPT !.status = "pending"]
    BY <1>1, <1>3 DEF CommitEdit, OtherRows, TypeOK
  <2>2. order'[o].status = "pending" /\ order'[o].attempts = order[o].attempts
    BY <1>2, <2>1 DEF OrderType
  <2>3. QuietRows
    BY <1>3, <2>1, <2>2 DEF CommitEdit, OtherRows, QuietRows
  <2> QED
    BY <1>3, <2>3, GotoQuiet DEF CommitEdit
<1>4. CASE Load(w)
  <2>1. CASE worker' = [worker EXCEPT ![w].stage = "check", ![w].seen = order[o].attempts]
    <3>1. OtherWorkers(w) /\ worker'[w] = [worker[w] EXCEPT !.stage = "check", !.seen = order[o].attempts]
      BY <2>1 DEF OtherWorkers, TypeOK
    <3>2. worker'[w].stage = "check"
      BY <1>2, <3>1 DEF WorkerType
    <3> QED
      BY <1>4, <3>1, <3>2 DEF Load, QuietRows, QuietWorkers, OtherWorkers
  <2> QED
    BY <1>4, <2>1, LeaveQuiet DEF Load, QuietRows
<1>5. CASE Check(w)
  BY <1>5, GotoQuiet, LeaveQuiet DEF Check, QuietRows
<1>6. CASE Claim(w)
  BY <1>6, LeaveQuiet DEF Claim, QuietRows, Wakes
<1>7. CASE Setup(w)
  BY <1>7, GotoQuiet DEF Setup, QuietRows
<1>8. CASE Translate(w)
  BY <1>8, GotoQuiet, FailedQuiet DEF Translate, QuietRows
<1>9. CASE Hold(w)
  BY <1>1, <1>9, OutcomeQuiet, LeaveQuiet DEF Hold
<1>10. CASE Noop(w)
  BY <1>1, <1>10, OutcomeQuiet, LeaveQuiet DEF Noop
<1>11. CASE Save(w)
  <2>1. PICK b \in BOOLEAN : order' = IF Fenced(w) THEN [order EXCEPT ![o].translated = b] ELSE order
    BY <1>11 DEF Save
  <2>2. QuietRows
    <3>1. CASE order' = order
      BY <1>11, <3>1 DEF Save, QuietRows
    <3>2. CASE order' = [order EXCEPT ![o].translated = b]
      <4>1. OtherRows(o) /\ order'[o] = [order[o] EXCEPT !.translated = b]
        BY <1>1, <3>2 DEF OtherRows, TypeOK
      <4>2. order'[o].status = order[o].status /\ order'[o].attempts = order[o].attempts
        BY <1>2, <4>1 DEF OrderType
      <4> QED
        BY <1>11, <4>1, <4>2 DEF Save, OtherRows, QuietRows
    <3> QED
      BY <2>1, <3>1, <3>2
  <2> QED
    BY <1>11, <2>2, GotoQuiet DEF Save
<1>12. CASE Push(w)
  <2>1. CASE Goto(w, "shed")
    BY <1>12, <2>1 DEF Wakes
  <2>2. CASE ~Goto(w, "shed")
    <3>1. worker[w].stage # "shed" /\ order' = order
      BY <1>12 DEF Push
    <3>2. /\ tries' = tries
          /\ \/ refused' = refused /\ (Goto(w, "record") \/ Failed(w, TRUE))
             \/ refused' = refused \cup {o} /\ Failed(w, FALSE)
      BY <1>12, <2>2 DEF Push
    <3>3. QuietRows
      BY <3>1, <3>2 DEF QuietRows
    <3>4. QuietWorkers
      BY <3>1, <3>2, GotoQuiet, FailedQuiet
    <3> QED
      BY <3>3, <3>4
  <2> QED
    BY <2>1, <2>2
<1>13. CASE Record(w)
  BY <1>13, GotoQuiet DEF Record, QuietRows
<1>14. CASE Complete(w)
  BY <1>1, <1>14, OutcomeQuiet, LeaveQuiet DEF Complete
<1>15. CASE Retry(w)
  BY <1>1, <1>15, OutcomeQuiet, LeaveQuiet DEF Retry
<1>16. CASE Die(w) \/ Shed(w)
  BY <1>16 DEF Wakes
<1> QED
  BY <1>3, <1>4, <1>5, <1>6, <1>7, <1>8, <1>9, <1>10, <1>11, <1>12, <1>13, <1>14, <1>15, <1>16
     DEF WorkerStep

(* So does an operator's re-injection; failing queries and crashes are not *)
(* smooth.                                                                 *)
LEMMA NextQuiet ==
  ASSUME TypeOK, Placement, [Next]_vars
  PROVE  \/ QuietRows /\ QuietWorkers
         \/ Wakes
         \/ Troubled
         \/ \E o \in Orders : Reinject(o)
<1> USE DEF history
<1>1. CASE worker' = worker /\ order' = order /\ tries' = tries /\ refused' = refused
  BY <1>1 DEF QuietRows, QuietWorkers
<1>2. ASSUME NEW w \in Workers, NEW o \in Orders, BeginEdit(w, o) PROVE QuietRows /\ QuietWorkers
  <2>1. OtherRows(o) /\ order'[o] = [order[o] EXCEPT !.pos = nextPos]
    BY <1>2 DEF BeginEdit, OtherRows, TypeOK
  <2>2. order'[o].status = order[o].status /\ order'[o].attempts = order[o].attempts
    BY <2>1, RowType DEF OrderType
  <2>3. OtherWorkers(w) /\ worker'[w].stage = "insert"
    BY <1>2 DEF BeginEdit, OtherWorkers, TypeOK
  <2> QED
    BY <1>2, <2>1, <2>2, <2>3 DEF BeginEdit, OtherRows, OtherWorkers, QuietRows, QuietWorkers
<1>3. ASSUME NEW w \in Workers, NEW o \in Orders, Drain(w, o) PROVE QuietRows /\ QuietWorkers
  <2>1. OtherWorkers(w) /\ worker'[w].stage = "load"
    BY <1>3 DEF Drain, OtherWorkers, TypeOK
  <2> QED
    BY <1>3, <2>1 DEF Drain, OtherWorkers, QuietRows, QuietWorkers
<1>4. ASSUME NEW o \in Orders, Propagate(o) PROVE QuietRows /\ QuietWorkers
  <2>1. OtherRows(o) /\ order'[o] = [order[o] EXCEPT !.status = "pending", !.pos = nextPos]
    BY <1>4 DEF Propagate, OtherRows, TypeOK
  <2>2. order'[o].status = "pending" /\ order'[o].attempts = order[o].attempts
    BY <2>1, RowType DEF OrderType
  <2> QED
    BY <1>4, <2>1, <2>2 DEF Propagate, OtherRows, QuietRows, QuietWorkers
<1>5. ASSUME NEW o \in Orders, ClaimExpires(o) \/ Heartbeat(o) PROVE QuietRows /\ QuietWorkers
  <2>1. PICK b \in BOOLEAN : order' = [order EXCEPT ![o].expired = b]
    BY <1>5 DEF ClaimExpires, Heartbeat
  <2>2. OtherRows(o) /\ order'[o] = [order[o] EXCEPT !.expired = b]
    BY <2>1 DEF OtherRows, TypeOK
  <2>3. order'[o].status = order[o].status /\ order'[o].attempts = order[o].attempts
    BY <2>2, RowType DEF OrderType
  <2> QED
    BY <1>5, <2>2, <2>3 DEF ClaimExpires, Heartbeat, OtherRows, QuietRows, QuietWorkers
<1>6. CASE Bootstrap
  <2>1. \A o \in Orders : order'[o].attempts = order[o].attempts
                          /\ (order'[o].status = "dead" => order[o].status = "dead")
    <3> TAKE o \in Orders
    <3>1. \/ order'[o] = order[o]
          \/ order'[o] = [order[o] EXCEPT !.status = "failed", !.owner = NoOwner, !.expired = FALSE]
      BY <1>6 DEF Bootstrap
    <3>2. order[o] \in OrderType
      BY RowType
    <3> QED
      BY <3>1, <3>2 DEF OrderType
  <2> QED
    BY <1>6, <2>1 DEF Bootstrap, QuietRows, QuietWorkers
<1>7. ASSUME NEW w \in Workers, QueryFails(w) \/ Crash(w) PROVE Troubled
  BY <1>7 DEF QueryFails, Crash, Troubled
<1> QED
  BY <1>1, <1>2, <1>3, <1>4, <1>5, <1>6, <1>7, WorkerQuiet
     DEF Next, vars, OpenEntry, PauseConnector, ActivateConnector

(* A trouble that happens ends the smooth part of the run.                 *)
LEMMA TroubledIsRough ==
  ASSUME TypeOK, BudgetInv, Troubled
  PROVE  ~Smooth'
<1>1. PICK t \in {"crash", "stall", "fault"} : Spend(t)
  BY DEF Troubled
<1>2. t \in Troubles /\ "any" \in Troubles /\ t # "any"
  BY DEF Troubles
<1>3. budget[t] \in Nat /\ Budget[t] \in Nat /\ budget[t] <= Budget[t]
  BY <1>2, BudgetAssumption DEF TypeOK, BudgetInv
<1>4. budget'[t] = budget[t] - 1
  BY <1>1, <1>2 DEF Spend, TypeOK
<1> QED
  BY <1>3, <1>4 DEF Smooth

(* The bookkeeping of one order: the row counts the attempts the history  *)
(* counts, and one more while a shed attempt is still to be given back.    *)
Shedding(o) == \E w \in Workers : worker[w].stage = "shed" /\ worker[w].order = o
Tally(o) == order[o].attempts = tries[o] + IF Shedding(o) THEN 1 ELSE 0
Earned(o) == order[o].status = "dead" => o \in refused \/ tries[o] >= MaxAttempts
Doomed(w) == worker[w].stage = "die" => worker[w].order \in refused \/ worker[w].seen >= MaxAttempts
Accounts == Smooth => /\ \A o \in Orders : Tally(o) /\ Earned(o)
                      /\ \A w \in Workers : Doomed(w)

(* While no worker stalls, an order has one holder.                        *)
LEMMA OneHolder ==
  ASSUME QueueInv, Unstalled, NEW v \in Workers, NEW w \in Workers,
         worker[v].stage \in Holding, worker[w].stage \in Holding, worker[v].order = worker[w].order
  PROVE  v = w
  BY DEF QueueInv, Grip

(* Steps that do not count keep the accounts.                              *)
LEMMA QuietAccounts ==
  ASSUME QueueInv, Smooth, Accounts, QuietRows, QuietWorkers
  PROVE  /\ \A o \in Orders : Tally(o)' /\ Earned(o)'
         /\ \A w \in Workers : Doomed(w)'
<1>1. \A o \in Orders : Shedding(o)' <=> Shedding(o)
  BY DEF QuietWorkers, Shedding
<1>2. \A o \in Orders : Tally(o)' /\ Earned(o)'
  BY <1>1 DEF QuietRows, Accounts, Tally, Earned
<1>3. \A w \in Workers : Doomed(w)'
  BY DEF QuietRows, QuietWorkers, Accounts, Doomed
<1> QED
  BY <1>2, <1>3

(* The steps that count: in each, one order and at most one worker change. *)
LEMMA ClaimAccounts ==
  ASSUME QueueInv, Smooth, Unstalled, Accounts, NEW w \in Workers,
         NEW c \in Orders, worker[w].order = c, Claim(w), Wins(w)
  PROVE  /\ \A o \in Orders : Tally(o)' /\ Earned(o)'
         /\ \A v \in Workers : Doomed(v)'
<1> DEFINE n == order[c].attempts + 1
<1>1. worker[w].stage = "claim"
  BY DEF Claim, QueueInv, Placement, Placed
<1>2. /\ order[c] \in OrderType /\ worker[w] \in WorkerType
      /\ tries[c] \in Nat /\ order[c].attempts \in Nat
  BY <1>1 DEF QueueInv, TypeOK, OrderType
<1>3. /\ OtherRows(c)
      /\ order'[c] = [order[c] EXCEPT !.status = "processing", !.attempts = n,
                                      !.owner = w, !.expired = FALSE]
  BY <1>1 DEF Claim, OtherRows, QueueInv, TypeOK
<1>4. order'[c].status = "processing" /\ order'[c].attempts = n
  <2> HIDE DEF n
  <2> QED
    BY <1>2, <1>3 DEF OrderType
<1>5. OtherWorkers(w) /\ worker'[w].stage = "setup"
  <2>1. /\ OtherWorkers(w)
        /\ worker'[w] = [worker[w] EXCEPT !.stage = "setup", !.seen = worker[w].seen + 1]
    BY DEF Claim, OtherWorkers, QueueInv, TypeOK
  <2> QED
    BY <1>2, <2>1 DEF WorkerType
<1>6. tries' = [tries EXCEPT ![c] = tries[c] + 1] /\ refused' = refused
  BY DEF Claim
<1>7. tries'[c] = tries[c] + 1 /\ \A o \in Orders : o # c => tries'[o] = tries[o]
  BY <1>1, <1>6 DEF QueueInv, TypeOK
<1>8. \A o \in Orders : Shedding(o)' <=> Shedding(o)
  BY <1>1, <1>5 DEF Shedding, OtherWorkers
<1>9. Tally(c)' /\ Earned(c)'
  BY <1>1, <1>2, <1>4, <1>7, <1>8 DEF Accounts, Tally, Earned
<1>10. \A o \in Orders : o # c => Tally(o)' /\ Earned(o)'
  BY <1>3, <1>6, <1>7, <1>8 DEF Accounts, Tally, Earned, OtherRows
<1>11. \A v \in Workers : Doomed(v)'
  BY <1>5, <1>6 DEF Accounts, Doomed, OtherWorkers
<1> QED
  BY <1>9, <1>10, <1>11

LEMMA PushAccounts ==
  ASSUME QueueInv, Smooth, Unstalled, Accounts, NEW w \in Workers,
         NEW c \in Orders, worker[w].order = c, Push(w), Goto(w, "shed")
  PROVE  /\ \A o \in Orders : Tally(o)' /\ Earned(o)'
         /\ \A v \in Workers : Doomed(v)'
<1>1. worker[w].stage = "push" /\ "push" \in Holding
  BY DEF Push, QueueInv, Placement, Placed, Holding
<1>2. /\ worker[w] \in WorkerType /\ tries[c] \in Nat
      /\ order[c].attempts \in Nat /\ order[c].attempts > 0 /\ order[c].status = "processing"
  BY <1>1 DEF QueueInv, TypeOK, OrderType, Grip
<1>3. /\ OtherWorkers(w)
      /\ worker'[w].stage = "shed" /\ worker'[w].order = c
  <2>1. OtherWorkers(w) /\ worker'[w] = [worker[w] EXCEPT !.stage = "shed"]
    BY GotoPlace DEF QueueInv
  <2> QED
    BY <1>2, <2>1 DEF WorkerType
<1>4. order' = order /\ refused' = refused
      /\ tries' = [tries EXCEPT ![c] = IF tries[c] > 0 THEN tries[c] - 1 ELSE 0]
  <2>1. \A s \in {"record", "retry", "die"} : ~Goto(w, s)
    <3> SUFFICES ASSUME NEW s \in {"record", "retry", "die"}, Goto(w, s) PROVE FALSE
      OBVIOUS
    <3>1. worker'[w] = [worker[w] EXCEPT !.stage = s]
      BY GotoPlace DEF QueueInv
    <3>2. worker'[w].stage = s
      <4> DEFINE r == worker[w]
      <4> HIDE DEF r
      <4> QED
        BY <1>2, <3>1 DEF WorkerType
    <3> QED
      BY <1>3, <3>2
  <2> QED
    BY <2>1 DEF Push, Failed
<1>5. ~Shedding(c)
  BY <1>1, OneHolder DEF Shedding, Holding
<1>6. tries[c] = order[c].attempts
  BY <1>1, <1>2, <1>5 DEF Accounts, Tally
<1>7. tries'[c] = tries[c] - 1 /\ \A o \in Orders : o # c => tries'[o] = tries[o]
  BY <1>1, <1>2, <1>4, <1>6 DEF QueueInv, TypeOK
<1>8. Shedding(c)' /\ \A o \in Orders : o # c => (Shedding(o)' <=> Shedding(o))
  BY <1>1, <1>3 DEF Shedding, OtherWorkers
<1>9. Tally(c)' /\ Earned(c)'
  BY <1>1, <1>2, <1>4, <1>6, <1>7, <1>8 DEF Tally, Earned
<1>10. \A o \in Orders : o # c => Tally(o)' /\ Earned(o)'
  BY <1>4, <1>7, <1>8 DEF Accounts, Tally, Earned
<1>11. \A v \in Workers : Doomed(v)'
  BY <1>3, <1>4 DEF Accounts, Doomed, OtherWorkers
<1> QED
  BY <1>9, <1>10, <1>11

LEMMA DieAccounts ==
  ASSUME QueueInv, Smooth, Unstalled, Accounts, NEW w \in Workers,
         NEW c \in Orders, worker[w].order = c, Die(w)
  PROVE  /\ \A o \in Orders : Tally(o)' /\ Earned(o)'
         /\ \A v \in Workers : Doomed(v)'
<1>1. worker[w].stage = "die" /\ "die" \in Holding
  BY DEF Die, QueueInv, Placement, Placed, Holding
<1>2. /\ order[c] \in OrderType /\ tries[c] \in Nat
      /\ order[c].attempts = worker[w].seen /\ Fenced(w)
  BY <1>1 DEF QueueInv, TypeOK, Grip, Fenced
<1>3. OtherRows(c) /\ order'[c] = [order[c] EXCEPT !.status = "dead", !.owner = NoOwner]
  BY <1>1, <1>2 DEF Die, OtherRows, QueueInv, TypeOK
<1>4. order'[c].attempts = order[c].attempts
  BY <1>2, <1>3 DEF OrderType
<1>5. OtherWorkers(w) /\ worker'[w].stage = "idle" /\ tries' = tries /\ refused' = refused
  BY LeavePlace DEF Die, history, QueueInv
<1>6. ~Shedding(c)
  BY <1>1, OneHolder DEF Shedding, Holding
<1>7. \A o \in Orders : Shedding(o)' <=> Shedding(o)
  BY <1>1, <1>5 DEF Shedding, OtherWorkers
<1>8. tries[c] = order[c].attempts
  BY <1>1, <1>2, <1>6 DEF Accounts, Tally, OrderType
<1>9. c \in refused \/ worker[w].seen >= MaxAttempts
  BY <1>1 DEF Accounts, Doomed
<1>10. Tally(c)' /\ Earned(c)'
  BY <1>1, <1>2, <1>4, <1>5, <1>6, <1>7, <1>8, <1>9 DEF Tally, Earned, OrderType
<1>11. \A o \in Orders : o # c => Tally(o)' /\ Earned(o)'
  BY <1>3, <1>5, <1>7 DEF Accounts, Tally, Earned, OtherRows
<1>12. \A v \in Workers : Doomed(v)'
  BY <1>5 DEF Accounts, Doomed, OtherWorkers
<1> QED
  BY <1>10, <1>11, <1>12

LEMMA ShedAccounts ==
  ASSUME QueueInv, Smooth, Unstalled, Accounts, NEW w \in Workers,
         NEW c \in Orders, worker[w].order = c, Shed(w)
  PROVE  /\ \A o \in Orders : Tally(o)' /\ Earned(o)'
         /\ \A v \in Workers : Doomed(v)'
<1> DEFINE n == GivenBack(order[c].attempts)
<1>1. worker[w].stage = "shed" /\ "shed" \in Holding
  BY DEF Shed, QueueInv, Placement, Placed, Holding
<1>2. /\ order[c] \in OrderType /\ tries[c] \in Nat
      /\ order[c].attempts \in Nat /\ order[c].attempts > 0 /\ Fenced(w)
  BY <1>1 DEF QueueInv, TypeOK, OrderType, Grip, Fenced
<1>3. /\ OtherRows(c)
      /\ order'[c] = [order[c] EXCEPT !.status = "pending", !.owner = NoOwner, !.attempts = n]
  BY <1>1, <1>2 DEF Shed, OtherRows, QueueInv, TypeOK
<1>4. order'[c].status = "pending" /\ order'[c].attempts = n
  <2> HIDE DEF n
  <2> QED
    BY <1>2, <1>3 DEF OrderType
<1>5. OtherWorkers(w) /\ worker'[w].stage = "idle" /\ tries' = tries /\ refused' = refused
  BY LeavePlace DEF Shed, history, QueueInv
<1>6. Shedding(c) /\ ~Shedding(c)'
  <2>1. Shedding(c)
    BY <1>1 DEF Shedding
  <2>2. ASSUME NEW v \in Workers, worker'[v].stage = "shed", worker'[v].order = c PROVE FALSE
    <3>1. v # w /\ worker'[v] = worker[v]
      BY <1>5, <2>2 DEF OtherWorkers
    <3> QED
      BY <1>1, <2>2, <3>1, OneHolder
  <2> QED
    BY <2>1, <2>2 DEF Shedding
<1>7. \A o \in Orders : o # c => (Shedding(o)' <=> Shedding(o))
  BY <1>1, <1>5 DEF Shedding, OtherWorkers
<1>8. order[c].attempts = tries[c] + 1
  BY <1>6 DEF Accounts, Tally
<1>9. Tally(c)' /\ Earned(c)'
  BY <1>2, <1>4, <1>5, <1>6, <1>8 DEF Tally, Earned, GivenBack
<1>10. \A o \in Orders : o # c => Tally(o)' /\ Earned(o)'
  BY <1>3, <1>5, <1>7 DEF Accounts, Tally, Earned, OtherRows
<1>11. \A v \in Workers : Doomed(v)'
  BY <1>5 DEF Accounts, Doomed, OtherWorkers
<1> QED
  BY <1>9, <1>10, <1>11

LEMMA ReinjectAccounts ==
  ASSUME QueueInv, Smooth, Unstalled, Accounts, NEW c \in Orders, Reinject(c)
  PROVE  /\ \A o \in Orders : Tally(o)' /\ Earned(o)'
         /\ \A v \in Workers : Doomed(v)'
<1>1. worker' = worker
  BY DEF Reinject
<1>2. \A o \in Orders : Shedding(o)' <=> Shedding(o)
  BY <1>1 DEF Shedding
<1>3. CASE order[c].status \notin Parked
  BY <1>1, <1>2, <1>3 DEF Reinject, Accounts, Tally, Earned, Doomed
<1>4. CASE order[c].status \in Parked
  <2>1. order[c] \in OrderType
    BY RowType DEF QueueInv
  <2>2. OtherRows(c) /\ order'[c] = [order[c] EXCEPT !.status = "pending", !.attempts = 0,
                  !.owner = NoOwner, !.expired = FALSE,
                  !.translated = IF c \in Edits THEN order[c].translated ELSE FALSE]
    BY <1>4 DEF Reinject, OtherRows, QueueInv, TypeOK
  <2>3. order'[c].status = "pending" /\ order'[c].attempts = 0
    BY <2>1, <2>2 DEF OrderType
  <2>4. refused' = refused \ {c} /\ tries' = [tries EXCEPT ![c] = 0]
    BY <1>4 DEF Reinject
  <2>5. tries'[c] = 0 /\ \A o \in Orders : o # c => tries'[o] = tries[o]
    BY <2>4 DEF QueueInv, TypeOK
  <2>6. \A v \in Workers : worker[v].stage \in Holding => worker[v].order # c
    BY <1>4 DEF QueueInv, Grip, Parked
  <2>7. ~Shedding(c)
    BY <2>6 DEF Shedding, Holding
  <2>8. Tally(c)' /\ Earned(c)'
    BY <1>2, <2>3, <2>5, <2>7 DEF Tally, Earned
  <2>9. \A o \in Orders : o # c => Tally(o)' /\ Earned(o)'
    BY <1>2, <2>2, <2>4, <2>5 DEF Accounts, Tally, Earned, OtherRows
  <2>10. \A v \in Workers : Doomed(v)'
    BY <1>1, <2>4, <2>6 DEF Accounts, Doomed, Holding
  <2> QED
    BY <2>8, <2>9, <2>10
<1> QED
  BY <1>3, <1>4

(* The accounts are empty at first, and every step keeps them.             *)
LEMMA AccountsInit == Init => Accounts
<1> SUFFICES ASSUME Init PROVE Accounts
  OBVIOUS
<1>1. \A w \in Workers : worker[w].stage = "idle"
  BY DEF Init, Idle
<1>2. \A o \in Orders : order[o].status = "none" /\ order[o].attempts = 0 /\ tries[o] = 0
  BY DEF Init, Absent
<1>3. \A o \in Orders : ~Shedding(o)
  BY <1>1 DEF Shedding
<1> QED
  BY <1>1, <1>2, <1>3 DEF Accounts, Tally, Earned, Doomed

LEMMA AccountsNext == QueueInv /\ Accounts /\ [Next]_vars => Accounts'
<1> SUFFICES ASSUME QueueInv, Accounts, [Next]_vars, Smooth'
             PROVE  /\ \A o \in Orders : Tally(o)' /\ Earned(o)'
                    /\ \A v \in Workers : Doomed(v)'
  BY DEF Accounts
<1>1. Smooth /\ ~Troubled
  BY QueueNext, BudgetNext, TroubledIsRough DEF QueueInv
<1>2. Unstalled
  BY <1>1 DEF Smooth, Unstalled
<1>3. CASE QuietRows /\ QuietWorkers
  BY <1>1, <1>3, QuietAccounts
<1>4. ASSUME NEW w \in Workers,
             (Claim(w) /\ Wins(w)) \/ (Push(w) /\ Goto(w, "shed")) \/ Die(w) \/ Shed(w)
      PROVE  /\ \A o \in Orders : Tally(o)' /\ Earned(o)'
             /\ \A v \in Workers : Doomed(v)'
  <2>1. PICK c \in Orders : worker[w].order = c
    BY <1>4 DEF Claim, Push, Die, Shed, QueueInv, Placement, Placed
  <2> QED
    BY <1>1, <1>2, <1>4, <2>1, ClaimAccounts, PushAccounts, DieAccounts, ShedAccounts
<1>5. ASSUME NEW o \in Orders, Reinject(o)
      PROVE  /\ \A p \in Orders : Tally(p)' /\ Earned(p)'
             /\ \A v \in Workers : Doomed(v)'
  BY <1>1, <1>2, <1>5, ReinjectAccounts
<1> QED
  BY <1>1, <1>3, <1>4, <1>5, NextQuiet DEF QueueInv, Wakes

(* Shedding never dead-letters (README.md:487): in a smooth run a dead     *)
(* order was refused for good or has spent all its attempts.               *)
THEOREM DeadOrdersEarnedIt == Spec => []DeadIsEarned
<1>1. Accounts => DeadIsEarned
  BY DEF Accounts, Earned, DeadIsEarned
<1> QED
  BY <1>1, QueueInit, QueueNext, AccountsInit, AccountsNext, PTL DEF Spec

-----------------------------------------------------------------------------
(* The one member of a set that has one.                                   *)
LEMMA TheOneIn == ASSUME NEW S, S # {} PROVE TheOne(S) \in S
  BY DEF TheOne

(* As many are ahead of a member as its index says, from none to all but   *)
(* itself, and of no two members as many.                                  *)
LEMMA Places ==
  ASSUME NEW S, IsFiniteSet(S), NEW at, \A o \in S : at[o] \in Nat,
         \A o, p \in S : at[o] = at[p] => o = p
  PROVE  /\ Cardinality(S) \in Nat
         /\ \A o \in S : /\ Cardinality(Ahead(at, S, o)) \in Nat
                         /\ Cardinality(Ahead(at, S, o)) < Cardinality(S)
         /\ \A k \in 0 .. Cardinality(S) - 1 : \E o \in S : Cardinality(Ahead(at, S, o)) = k
<1> DEFINE n == Cardinality(S)
           A(o) == Ahead(at, S, o)
           T == 0 .. n - 1
           f == [o \in S |-> Cardinality(A(o))]
<1>1. n \in Nat
  BY FS_CardinalityType
<1>2. ASSUME NEW o \in S PROVE /\ Cardinality(A(o)) \in Nat /\ Cardinality(A(o)) < n
  <2>1. A(o) \in SUBSET S /\ A(o) # S
    BY DEF Ahead
  <2>2. IsFiniteSet(A(o)) /\ Cardinality(A(o)) <= n /\ Cardinality(A(o)) # n
    BY <2>1, FS_Subset
  <2>3. Cardinality(A(o)) \in Nat
    BY <2>2, FS_CardinalityType
  <2> QED
    BY <1>1, <2>2, <2>3
<1>3. ASSUME NEW o \in S, NEW p \in S, at[o] < at[p]
      PROVE  Cardinality(A(o)) # Cardinality(A(p))
  <2>1. A(o) \in SUBSET A(p)
    BY <1>3 DEF Ahead
  <2>2. o \in A(p) /\ o \notin A(o)
    BY <1>3 DEF Ahead
  <2>3. IsFiniteSet(A(p))
    <3>1. A(p) \in SUBSET S
      BY DEF Ahead
    <3> QED
      BY <3>1, FS_Subset
  <2> QED
    BY <2>1, <2>2, <2>3, FS_Subset
<1>4. IsFiniteSet(T) /\ Cardinality(T) = n
  <2>1. IsFiniteSet(T) /\ Cardinality(T) = IF 0 > n - 1 THEN 0 ELSE n - 1 - 0 + 1
    BY <1>1, FS_Interval, SMTT(30)
  <2> QED
    BY <1>1, <2>1
<1>5. f \in [S -> T]
  <2>1. ASSUME NEW o \in S PROVE Cardinality(A(o)) \in T
    <3>1. Cardinality(A(o)) \in Nat /\ Cardinality(A(o)) < n
      BY <1>2
    <3> HIDE DEF n, A
    <3> QED
      BY <1>1, <3>1
  <2> HIDE DEF A, T
  <2> QED
    BY <2>1
<1>6. \A o, p \in S : f[o] = f[p] => o = p
  <2> SUFFICES ASSUME NEW o \in S, NEW p \in S, Cardinality(A(o)) = Cardinality(A(p)) PROVE o = p
    OBVIOUS
  <2>1. at[o] = at[p] \/ at[o] < at[p] \/ at[p] < at[o]
    OBVIOUS
  <2> QED
    BY <1>3, <2>1
<1>7. f \in Injection(S, T)
  BY <1>5, <1>6 DEF Injection, IsInjective
<1>8. f \in Surjection(S, T)
  BY <1>4, <1>7, FS_Injection
<1> HIDE DEF f
<1>9. \A k \in T : \E o \in S : f[o] = k
  BY <1>8 DEF Surjection
<1>10. \A o \in S : f[o] = Cardinality(A(o))
  BY DEF f
<1> QED
  BY <1>1, <1>2, <1>9, <1>10

(* A sorted queue is a sequence of the members of its set.                 *)
LEMMA SortedType ==
  ASSUME NEW S, IsFiniteSet(S), NEW at, \A o \in S : at[o] \in Nat,
         \A o, p \in S : at[o] = at[p] => o = p
  PROVE  Sorted(at, S) \in Seq(S) /\ Len(Sorted(at, S)) = Cardinality(S)
<1> DEFINE n == Cardinality(S)
           At(i) == {o \in S : Cardinality(Ahead(at, S, o)) = i - 1}
<1>1. n \in Nat
  BY Places
<1>2. ASSUME NEW i \in 1 .. n PROVE TheOne(At(i)) \in S
  <2>1. i - 1 \in 0 .. n - 1
    BY <1>1
  <2>2. At(i) # {}
    BY <2>1, Places
  <2> QED
    BY <2>2, TheOneIn
<1>3. Sorted(at, S) = [i \in 1 .. n |-> TheOne(At(i))]
  BY DEF Sorted
<1> HIDE DEF At, n
<1>4. [i \in 1 .. n |-> TheOne(At(i))] \in Seq(S) /\ Len([i \in 1 .. n |-> TheOne(At(i))]) = n
  BY <1>1, <1>2
<1> QED
  BY <1>3, <1>4 DEF n

(* Nothing but the set and the places of its members matters.              *)
LEMMA Keeps ==
  ASSUME NEW S, NEW at, NEW bt, \A o \in S : at[o] = bt[o]
  PROVE  Sorted(at, S) = Sorted(bt, S)
<1>1. \A o \in S : Ahead(at, S, o) = Ahead(bt, S, o)
  BY DEF Ahead
<1>2. \A i : {o \in S : Cardinality(Ahead(at, S, o)) = i - 1} = {o \in S : Cardinality(Ahead(bt, S, o)) = i - 1}
  BY <1>1
<1> QED
  BY <1>2 DEF Sorted

(* Members have numbers, and no two the same; a member joins behind all.   *)
Spread(at, S) == \A o \in S : at[o] \in Nat /\ \A p \in S : at[o] = at[p] => o = p
JoinsLast(at, bt, S, e) == \A o \in S : bt[o] = at[o] /\ bt[o] < bt[e]

(* A member behind all others is appended.                                 *)
LEMMA Grows ==
  ASSUME NEW S, IsFiniteSet(S), NEW at, NEW bt, NEW e, e \notin S,
         Spread(at, S), bt[e] \in Nat, JoinsLast(at, bt, S, e)
  PROVE  Sorted(bt, S \cup {e}) = Append(Sorted(at, S), e)
<1>0. /\ \A o \in S : at[o] \in Nat /\ at[o] = bt[o]
      /\ \A o, p \in S : at[o] = at[p] => o = p
      /\ \A o \in S : bt[o] < bt[e]
  BY DEF Spread, JoinsLast
<1> DEFINE n == Cardinality(S)
           R == S \cup {e}
           At(i) == {o \in S : Cardinality(Ahead(at, S, o)) = i - 1}
           Bt(i) == {o \in R : Cardinality(Ahead(bt, R, o)) = i - 1}
<1>1. n \in Nat /\ Cardinality(R) = n + 1
  BY FS_CardinalityType, FS_AddElement
<1>2. \A o \in S : Ahead(bt, R, o) = Ahead(at, S, o)
  <2> SUFFICES ASSUME NEW o \in S, NEW p PROVE p \in Ahead(bt, R, o) <=> p \in Ahead(at, S, o)
    BY DEF Ahead
  <2>1. bt[o] < bt[e] /\ bt[o] \in Nat
    BY <1>0
  <2> QED
    BY <1>0, <2>1 DEF Ahead
<1>3. Ahead(bt, R, e) = S
  BY <1>0 DEF Ahead
<1>4. ASSUME NEW i \in 1 .. n PROVE Bt(i) = At(i)
  <2>1. i - 1 # n
    BY <1>1
  <2> HIDE DEF n
  <2> QED
    BY <1>2, <1>3, <2>1 DEF n
<1>5. Bt(n + 1) = {e}
  <2>1. \A o \in S : Cardinality(Ahead(at, S, o)) \in Nat /\ Cardinality(Ahead(at, S, o)) < n
    BY <1>0, Places
  <2>2. n + 1 - 1 = n
    BY <1>1
  <2>3. ASSUME NEW o PROVE o \in Bt(n + 1) <=> o \in R /\ Cardinality(Ahead(bt, R, o)) = n
    <3>1. \A i : o \in Bt(i) <=> o \in R /\ Cardinality(Ahead(bt, R, o)) = i - 1
      OBVIOUS
    <3> HIDE DEF n, R, Bt
    <3> QED
      BY <1>1, <2>2, <3>1
  <2>4. \A o \in S : Cardinality(Ahead(bt, R, o)) # n
    <3> SUFFICES ASSUME NEW o \in S PROVE Cardinality(Ahead(bt, R, o)) # n
      OBVIOUS
    <3>1. Cardinality(Ahead(bt, R, o)) < n /\ Cardinality(Ahead(bt, R, o)) \in Nat
      BY <1>2, <2>1
    <3> HIDE DEF n, R
    <3> QED
      BY <1>1, <3>1
  <2>5. Cardinality(Ahead(bt, R, e)) = n
    BY <1>3
  <2> HIDE DEF n, Bt
  <2> QED
    BY <2>3, <2>4, <2>5
<1>6. TheOne({e}) = e
  BY TheOneIn
<1>7. Sorted(at, S) = [i \in 1 .. n |-> TheOne(At(i))]
  BY DEF Sorted
<1>8. Sorted(bt, R) = [i \in 1 .. n + 1 |-> TheOne(Bt(i))]
  BY <1>1 DEF Sorted
<1>9. Sorted(at, S) \in Seq(S) /\ Len(Sorted(at, S)) = n
  BY <1>0, SortedType
<1> HIDE DEF n, At, Bt, R
<1>10. \A i \in 1 .. n : TheOne(Bt(i)) = TheOne(At(i))
  BY <1>4
<1>11. Append(Sorted(at, S), e) = [i \in 1 .. n + 1 |-> IF i = n + 1 THEN e ELSE Sorted(at, S)[i]]
  <2> DEFINE q == Sorted(at, S)
  <2>1. q \in Seq(S) /\ Len(q) = n
    BY <1>9
  <2> HIDE DEF q
  <2>2. Append(q, e) \in Seq(S \cup {e}) /\ Len(Append(q, e)) = n + 1
    BY <1>1, <2>1
  <2>3. \A i \in 1 .. n + 1 : Append(q, e)[i] = IF i = n + 1 THEN e ELSE q[i]
    BY <1>1, <2>1
  <2>4. Append(q, e) = [i \in 1 .. n + 1 |-> Append(q, e)[i]]
    BY <2>2, LenProperties
  <2>5. Append(q, e) = [i \in 1 .. n + 1 |-> IF i = n + 1 THEN e ELSE q[i]]
    BY <2>3, <2>4
  <2> QED
    BY <2>5 DEF q
<1>12. ASSUME NEW i \in 1 .. n + 1
       PROVE  TheOne(Bt(i)) = IF i = n + 1 THEN e ELSE Sorted(at, S)[i]
  <2>1. CASE i = n + 1
    BY <1>5, <1>6, <2>1
  <2>2. CASE i # n + 1
    <3>1. i \in 1 .. n
      BY <1>1, <2>2
    <3> QED
      BY <1>7, <1>10, <2>2, <3>1
  <2> QED
    BY <2>1, <2>2
<1> QED
  BY <1>8, <1>11, <1>12 DEF R

(* Without the member that is ahead of all others, the tail remains.       *)
LEMMA Shrinks ==
  ASSUME NEW S, IsFiniteSet(S), NEW at, NEW bt, NEW h \in S,
         \A o \in S : at[o] \in Nat /\ at[o] = bt[o],
         \A o, p \in S : at[o] = at[p] => o = p,
         \A o \in S : o # h => at[h] < at[o]
  PROVE  /\ Sorted(at, S) # << >>
         /\ Head(Sorted(at, S)) = h
         /\ Sorted(bt, S \ {h}) = Tail(Sorted(at, S))
<1> DEFINE n == Cardinality(S)
           R == S \ {h}
           At(i) == {o \in S : Cardinality(Ahead(at, S, o)) = i - 1}
           Bt(i) == {o \in R : Cardinality(Ahead(bt, R, o)) = i - 1}
<1>1. n \in Nat /\ n > 0 /\ Cardinality(R) = n - 1 /\ IsFiniteSet(R)
  <2>1. IsFiniteSet(R) /\ Cardinality(R) = n - 1
    BY FS_RemoveElement
  <2>2. n \in Nat /\ Cardinality(R) \in Nat
    BY <2>1, FS_CardinalityType
  <2> QED
    BY <2>1, <2>2
<1>2. Ahead(at, S, h) = {}
  BY DEF Ahead
<1>3. ASSUME NEW o \in R
      PROVE  Cardinality(Ahead(at, S, o)) \in Nat /\ Cardinality(Ahead(at, S, o)) > 0
             /\ Cardinality(Ahead(bt, R, o)) = Cardinality(Ahead(at, S, o)) - 1
  <2>1. Ahead(bt, R, o) = Ahead(at, S, o) \ {h}
    BY DEF Ahead
  <2>2. h \in Ahead(at, S, o)
    BY DEF Ahead
  <2>3. IsFiniteSet(Ahead(at, S, o))
    <3>1. Ahead(at, S, o) \in SUBSET S
      BY DEF Ahead
    <3> QED
      BY <3>1, FS_Subset
  <2>4. Cardinality(Ahead(at, S, o)) \in Nat
    BY <2>3, FS_CardinalityType
  <2>5. /\ IsFiniteSet(Ahead(at, S, o) \ {h})
        /\ Cardinality(Ahead(at, S, o) \ {h}) = Cardinality(Ahead(at, S, o)) - 1
    BY <2>2, <2>3, FS_RemoveElement
  <2>6. Cardinality(Ahead(at, S, o) \ {h}) \in Nat
    BY <2>5, FS_CardinalityType
  <2> QED
    BY <2>1, <2>4, <2>5, <2>6
<1>4. Cardinality(Ahead(at, S, h)) = 0
  BY <1>2, FS_EmptySet
<1>5. At(1) = {h}
  BY <1>3, <1>4
<1>6. ASSUME NEW i \in 1 .. n - 1 PROVE Bt(i) = At(i + 1)
  <2> SUFFICES ASSUME NEW o PROVE o \in Bt(i) <=> o \in At(i + 1)
    OBVIOUS
  <2>1. i \in Nat /\ i > 0 /\ i - 1 \in Nat /\ i + 1 - 1 = i
    BY <1>1
  <2>2. CASE o = h
    BY <1>4, <2>1, <2>2
  <2>3. CASE o \in R
    <3> DEFINE a == Cardinality(Ahead(at, S, o))
               b == Cardinality(Ahead(bt, R, o))
    <3>1. a \in Nat /\ b = a - 1
      BY <1>3, <2>3
    <3>2. a = i + 1 - 1 <=> b = i - 1
      <4> HIDE DEF a, b
      <4> QED
        BY <2>1, <3>1
    <3> QED
      BY <2>3, <3>2
  <2> QED
    BY <2>2, <2>3
<1>7. TheOne({h}) = h
  BY TheOneIn
<1>8. Sorted(at, S) = [i \in 1 .. n |-> TheOne(At(i))]
  BY DEF Sorted
<1>9. Sorted(bt, R) = [i \in 1 .. n - 1 |-> TheOne(Bt(i))]
  BY <1>1 DEF Sorted
<1>10. Sorted(at, S) \in Seq(S) /\ Len(Sorted(at, S)) = n
  BY SortedType
<1> HIDE DEF n, At, Bt, R
<1>11. Sorted(at, S) # << >> /\ Head(Sorted(at, S)) = h
  <2> DEFINE q == Sorted(at, S)
  <2>1. q \in Seq(S) /\ Len(q) = n /\ 1 \in 1 .. n
    BY <1>1, <1>10
  <2>2. q[1] = h
    BY <1>5, <1>7, <1>8, <2>1, ZenonT(30)
  <2> HIDE DEF q
  <2>3. q # << >> /\ Head(q) = h
    BY <1>1, <2>1, <2>2
  <2> QED
    BY <2>3 DEF q
<1>12. Tail(Sorted(at, S)) = [i \in 1 .. n - 1 |-> Sorted(at, S)[i + 1]]
  <2> DEFINE q == Sorted(at, S)
  <2>1. q \in Seq(S) /\ Len(q) = n
    BY <1>10
  <2> HIDE DEF q
  <2>2. Tail(q) \in Seq(S) /\ Len(Tail(q)) = n - 1
    BY <1>1, <2>1
  <2>3. \A i \in 1 .. n - 1 : Tail(q)[i] = q[i + 1]
    BY <1>1, <2>1
  <2>4. Tail(q) = [i \in 1 .. n - 1 |-> Tail(q)[i]]
    BY <2>2, LenProperties
  <2>5. Tail(q) = [i \in 1 .. n - 1 |-> q[i + 1]]
    BY <2>3, <2>4
  <2> QED
    BY <2>5 DEF q
<1>13. ASSUME NEW i \in 1 .. n - 1 PROVE TheOne(Bt(i)) = Sorted(at, S)[i + 1]
  <2>1. i + 1 \in 1 .. n
    BY <1>1
  <2> QED
    BY <1>6, <1>8, <2>1
<1> QED
  BY <1>9, <1>11, <1>12, <1>13 DEF R

-----------------------------------------------------------------------------
(* Orders are prepared one at a time, so finitely many are.                *)
Prepared == {o \in Orders : order[o].status # "none"}

(* A twin's unfinished orders are finitely many, at different positions,   *)
(* all of them drawn already.                                              *)
LEMMA QueueFacts ==
  ASSUME QueueInv, IsFiniteSet(Prepared), NEW t \in Twins
  PROVE  /\ IsFiniteSet(Unfinished(t))
         /\ \A o \in Unfinished(t) : /\ o \in Orders /\ Position[o] = order[o].pos
                                     /\ Position[o] \in Nat /\ Position[o] < nextPos
         /\ \A o, p \in Unfinished(t) : Position[o] = Position[p] => o = p
<1>1. Unfinished(t) \in SUBSET Prepared
  BY DEF Unfinished, Prepared
<1>2. \A o \in Unfinished(t) : /\ o \in Orders /\ order[o].status # "none"
  BY DEF Unfinished
<1>3. \A o \in Orders : order[o].pos \in Nat
  BY RowType DEF QueueInv, OrderType
<1> QED
  BY <1>1, <1>2, <1>3, FS_Subset DEF Position, QueueInv, Positions

(* The three things a step can do to the queues.                           *)
Keeping == \A o \in Orders : /\ order'[o].pos = order[o].pos
                             /\ order'[o].status \in Blocking <=> order[o].status \in Blocking
                             /\ order'[o].status \in Concluded <=> order[o].status \in Concluded
Entering(o) == /\ o \in Orders /\ OtherRows(o)
               /\ order[o].status = "none"
               /\ order'[o].status = "pending" /\ order'[o].pos = nextPos
Leaving(o) == /\ o \in Orders /\ OtherRows(o)
              /\ order[o].status \in Blocking /\ Older(o) = {}
              /\ order'[o].status \in Concluded /\ order'[o].pos = order[o].pos

(* Without edits, a worker that owns its order is at the head of a queue.  *)
LEMMA HeadOfQueue ==
  ASSUME QueueInv, Unstalled, Edits = {}, NEW w \in Workers, worker[w].stage \in Holding
  PROVE  /\ worker[w].order \in Orders
         /\ order[worker[w].order].status = "processing"
         /\ Older(worker[w].order) = {}
  BY DEF QueueInv, Placement, Placed, Grip, Heads, Holding

(* Until a worker stalls, a step moves no order that stays in its queue: it*)
(* keeps the queues, or one order enters one, or the head of one leaves.   *)
LEMMA Shapes ==
  ASSUME QueueInv, TypeOK', Unstalled, Edits = {}, Kinds
  PROVE  Keeping \/ \E o \in Orders : Entering(o) \/ Leaving(o)
<1> USE DEF Blocking, Concluded
<1>1. CASE Rests
  BY <1>1 DEF Rests, Same, Keeping
<1>2. CASE Reopens
  <2> SUFFICES ASSUME NEW o \in Orders
               PROVE  /\ order'[o].pos = order[o].pos
                      /\ order'[o].status \in Blocking <=> order[o].status \in Blocking
                      /\ order'[o].status \in Concluded <=> order[o].status \in Concluded
    BY DEF Keeping
  <2>1. order[o] \in OrderType
    BY RowType DEF QueueInv
  <2>2. CASE order'[o] = order[o]
    BY <2>2
  <2>3. CASE order'[o] = [order[o] EXCEPT !.status = "failed", !.owner = NoOwner, !.expired = FALSE]
             /\ order[o].status = "processing"
    <3>1. order'[o].status = "failed" /\ order'[o].pos = order[o].pos
      BY <2>1, <2>3 DEF OrderType
    <3> QED
      BY <2>3, <3>1
  <2> QED
    BY <1>2, <2>2, <2>3 DEF Reopens
<1>3. ASSUME NEW w \in Workers, Walks(w) PROVE Keeping
  BY <1>3 DEF Walks, Same, Keeping
<1>4. ASSUME NEW o \in Orders, Appears(o) PROVE Entering(o)
  <2>1. order[o] \in OrderType
    BY RowType DEF QueueInv
  <2> QED
    BY <1>4, <2>1 DEF Appears, Entering, OrderType
<1>5. ASSUME NEW o \in Orders, Returns(o) PROVE Keeping
  BY <1>5 DEF Returns, OtherRows, Keeping, Parked
<1>6. ASSUME NEW w \in Workers, NEW o \in Orders, Draws(w, o) PROVE FALSE
  BY <1>6 DEF Draws
<1>7. ASSUME NEW w \in Workers, NEW o \in Orders, Commits(w, o) PROVE FALSE
  BY <1>7 DEF Commits, QueueInv, Placement, Placed
<1>8. ASSUME NEW w \in Workers, NEW o \in Orders, Takes(w, o) PROVE Keeping
  <2>1. order[o] \in OrderType
    BY RowType DEF QueueInv
  <2>2. order'[o].pos = order[o].pos /\ order'[o].status = "processing"
    BY <1>8, <2>1 DEF Takes, OrderType
  <2>3. order[o].status \in {"pending", "failed", "processing"}
    BY <1>8 DEF Takes, Claimable
  <2> QED
    BY <1>8, <2>2, <2>3 DEF Takes, OtherRows, Keeping
<1>9. ASSUME NEW w \in Workers, NEW o \in Orders, Concludes(w, o) PROVE Keeping \/ Leaving(o)
  <2>1. order[o].status = "processing" /\ Older(o) = {}
    BY <1>9, HeadOfQueue DEF Concludes
  <2>2. OtherRows(o) /\ order'[o].pos = order[o].pos
        /\ order'[o].status \in {"held", "noop", "executed", "failed", "dead", "pending"}
    BY <1>9 DEF Concludes
  <2>3. CASE order'[o].status \in Concluded
    BY <2>1, <2>2, <2>3 DEF Leaving
  <2>4. CASE order'[o].status \notin Concluded
    BY <2>1, <2>2, <2>4 DEF Keeping, OtherRows
  <2> QED
    BY <2>3, <2>4
<1> QED
  BY <1>1, <1>2, <1>3, <1>4, <1>5, <1>6, <1>7, <1>8, <1>9 DEF Kinds

(* A request to write the twin: pushUpdate is answered, or not.            *)
Writing(w) == /\ worker[w].stage = "push" /\ order' = order
              /\ last' = [last EXCEPT ![TwinOf[worker[w].order]] = worker[w].order]

(* A row that is written leaves the queues alone, and its worker executes  *)
(* it: pushUpdate is answered, or the process stops after the request.     *)
LEMMA Writes ==
  ASSUME [Next]_vars
  PROVE  last' = last \/ \E w \in Workers : Writing(w)
<1> USE DEF history
<1>1. CASE UNCHANGED vars
  BY <1>1 DEF vars
<1>2. ASSUME NEW w \in Workers, WorkerStep(w) PROVE last' = last \/ Writing(w)
  BY <1>2 DEF WorkerStep, CommitEdit, Load, Check, Claim, Setup, Translate, Hold, Noop, Save, Push,
              Record, Complete, Retry, Die, Shed, Writing
<1>3. ASSUME NEW w \in Workers, Crash(w) PROVE last' = last \/ Writing(w)
  BY <1>3 DEF Crash, Writing
<1>4. ASSUME NEW w \in Workers, \/ QueryFails(w)
                                \/ \E o \in Orders : BeginEdit(w, o) \/ Drain(w, o)
      PROVE  last' = last
  BY <1>4 DEF QueryFails, BeginEdit, Drain
<1>5. ASSUME NEW o \in Orders, \/ Propagate(o) \/ ClaimExpires(o) \/ Heartbeat(o)
                               \/ OpenEntry(o) \/ Reinject(o)
      PROVE  last' = last
  BY <1>5 DEF Propagate, ClaimExpires, Heartbeat, OpenEntry, Reinject
<1>6. Bootstrap \/ PauseConnector \/ ActivateConnector => last' = last
  BY DEF Bootstrap, PauseConnector, ActivateConnector
<1> QED
  BY <1>1, <1>2, <1>3, <1>4, <1>5, <1>6 DEF Next

(* The prepared orders stay finitely many.                                 *)
LEMMA FiniteNext ==
  ASSUME QueueInv, IsFiniteSet(Prepared), Kinds, TypeOK', Unstalled, Edits = {}
  PROVE  IsFiniteSet(Prepared')
<1>1. \A o \in Orders : order[o].status = "none" <=> order[o].status \notin Blocking \cup Concluded
  BY RowType DEF QueueInv, OrderType, Blocking, Concluded, Parked
<1>2. \A o \in Orders : order'[o].status = "none" <=> order'[o].status \notin Blocking \cup Concluded
  <2>1. \A o \in Orders : order'[o] \in OrderType
    BY DEF TypeOK
  <2> QED
    BY <2>1 DEF OrderType, Blocking, Concluded, Parked
<1>3. \E o : Prepared' \subseteq Prepared \cup {o}
  <2>1. CASE Keeping
    BY <1>1, <1>2, <2>1 DEF Keeping, Prepared
  <2>2. ASSUME NEW o \in Orders, Entering(o) \/ Leaving(o) PROVE Prepared' \subseteq Prepared \cup {o}
    BY <2>2 DEF Entering, Leaving, OtherRows, Prepared
  <2> QED
    BY <2>1, <2>2, Shapes
<1>4. PICK o : Prepared' \in SUBSET (Prepared \cup {o})
  BY <1>3
<1>5. IsFiniteSet(Prepared \cup {o})
  BY FS_AddElement
<1> QED
  BY <1>4, <1>5, FS_Subset

-----------------------------------------------------------------------------
(* A step that keeps positions and unfinished orders keeps the queues.     *)
LEMMA KeepingQueues ==
  ASSUME TypeOK, TypeOK', Keeping
  PROVE  Queues' = Queues /\ Done' = Done
<1>1. Position' = Position
  BY DEF Keeping, Position
<1>2. ASSUME NEW t \in Twins PROVE Unfinished(t)' = Unfinished(t)
  <2> SUFFICES ASSUME NEW o \in Orders
               PROVE  order'[o].status \notin Concluded \cup {"none"}
                      <=> order[o].status \notin Concluded \cup {"none"}
    BY DEF Unfinished
  <2>1. order[o] \in OrderType /\ order'[o] \in OrderType
    BY DEF TypeOK
  <2> QED
    BY <2>1 DEF Keeping, OrderType, Blocking, Concluded, Parked
<1>3. Done' = Done
  BY DEF Done, Keeping
<1> QED
  BY <1>1, <1>2, <1>3 DEF Queues

(* A prepared order joins the queue of its twin at the end.                *)
LEMMA EnteringQueues ==
  ASSUME QueueInv, IsFiniteSet(Prepared), NEW e \in Orders, Entering(e), last' = last
  PROVE  Fifo!Enqueue(e)
<1> DEFINE T == TwinOf[e]
           at == Position
           S == Unfinished(T)
<1>1. T \in Twins
  BY TwinOfType
<1>2. e \notin S /\ e \notin Done
  BY DEF Entering, Unfinished, Done, Concluded
<1>3. /\ IsFiniteSet(S)
      /\ \A o \in S : /\ o \in Orders /\ at[o] = order[o].pos
                      /\ at[o] \in Nat /\ at[o] < nextPos
      /\ \A o, p \in S : at[o] = at[p] => o = p
  BY <1>1, QueueFacts
<1>4. nextPos \in Nat
  BY DEF QueueInv, TypeOK
<1>5. PICK bt : bt = Position'
  OBVIOUS
<1>6. bt[e] = nextPos /\ \A o \in Orders : o # e => bt[o] = at[o]
  BY <1>5 DEF Position, Entering, OtherRows
<1>7. Unfinished(T)' = S \cup {e}
  <2>1. order'[e].status \notin Concluded \cup {"none"}
    BY DEF Entering, Concluded
  <2> QED
    BY <2>1 DEF Unfinished, Entering, OtherRows
<1>8. \A t \in Twins : t # T => Unfinished(t)' = Unfinished(t)
  BY DEF Unfinished, Entering, OtherRows
<1>9. Sorted(bt, S \cup {e}) = Append(Sorted(at, S), e)
  <2> HIDE DEF S, at
  <2>1. Spread(at, S)
    BY <1>3 DEF Spread
  <2>2. JoinsLast(at, bt, S, e)
    BY <1>2, <1>3, <1>6 DEF JoinsLast
  <2>3. bt[e] \in Nat
    BY <1>4, <1>6
  <2> QED
    BY <1>2, <1>3, <2>1, <2>2, <2>3, Grows
<1>10. ASSUME NEW t \in Twins, t # T PROVE Sorted(bt, Unfinished(t)) = Sorted(at, Unfinished(t))
  <2>1. \A o \in Unfinished(t) : bt[o] = at[o]
    <3>1. e \notin Unfinished(t)
      BY <1>10 DEF Unfinished
    <3> QED
      BY <1>6, <3>1 DEF Unfinished
  <2> QED
    BY <2>1, Keeps
<1>11. Queues' = [Queues EXCEPT ![T] = Append(@, e)]
  <2>1. Queues' = [t \in Twins |-> Sorted(bt, Unfinished(t)')]
    BY <1>5 DEF Queues
  <2>2. \A t \in Twins : Sorted(bt, Unfinished(t)') = IF t = T THEN Append(Sorted(at, S), e) ELSE Sorted(at, Unfinished(t))
    BY <1>7, <1>8, <1>9, <1>10
  <2> QED
    BY <1>1, <2>1, <2>2 DEF Queues
<1>12. Done' = Done
  BY DEF Done, Entering, OtherRows, Concluded
<1>13. ~Fifo!Queued(e)
  <2>1. Queues[T] = Sorted(at, S)
    BY <1>1 DEF Queues
  <2>2. Sorted(at, S) \in Seq(S)
    <3> HIDE DEF S, at
    <3> QED
      BY <1>3, SortedType
  <2>3. \A i \in 1 .. Len(Queues[T]) : Queues[T][i] \in S
    <3> HIDE DEF S, at
    <3> QED
      BY <2>1, <2>2
  <2> QED
    BY <1>2, <2>3 DEF Fifo!Queued
<1> QED
  BY <1>2, <1>11, <1>12, <1>13 DEF Fifo!Enqueue

(* The unfinished order that no other one precedes is the head.            *)
LEMMA HeadsQueue ==
  ASSUME QueueInv, IsFiniteSet(Prepared), NEW h \in Orders,
         order[h].status \in Blocking, Older(h) = {}
  PROVE  /\ h \in Unfinished(TwinOf[h])
         /\ \A o \in Unfinished(TwinOf[h]) : o # h => Position[h] < Position[o]
         /\ Queues[TwinOf[h]] # << >>
         /\ Head(Queues[TwinOf[h]]) = h
<1> DEFINE T == TwinOf[h]
           at == Position
           S == Unfinished(T)
<1>1. T \in Twins
  BY TwinOfType
<1>2. h \in S
  BY DEF Unfinished, Blocking, Concluded
<1>3. /\ IsFiniteSet(S)
      /\ \A o \in S : /\ o \in Orders /\ at[o] = order[o].pos
                      /\ at[o] \in Nat /\ at[o] < nextPos
      /\ \A o, p \in S : at[o] = at[p] => o = p
  BY <1>1, QueueFacts
<1>4. ASSUME NEW o \in S, o # h PROVE at[h] < at[o]
  <2>1. order[o].status \in Blocking /\ TwinOf[o] = T
    <3>1. order[o] \in OrderType
      BY <1>3, RowType DEF QueueInv
    <3> QED
      BY <3>1 DEF Unfinished, OrderType, Blocking, Parked
  <2>2. ~(at[o] < at[h])
    BY <1>2, <1>3, <2>1 DEF Older
  <2>3. at[o] # at[h]
    BY <1>2, <1>3, <1>4
  <2>4. at[o] \in Nat /\ at[h] \in Nat
    BY <1>2, <1>3
  <2> HIDE DEF at
  <2> QED
    BY <2>2, <2>3, <2>4
<1>5. Sorted(at, S) # << >> /\ Head(Sorted(at, S)) = h
  <2> HIDE DEF S, at
  <2> QED
    BY <1>2, <1>3, <1>4, Shrinks
<1> QED
  BY <1>1, <1>2, <1>4, <1>5 DEF Queues

(* A finished order leaves the queue of its twin from the front.           *)
LEMMA LeavingQueues ==
  ASSUME QueueInv, IsFiniteSet(Prepared), NEW h \in Orders, Leaving(h), last' = last
  PROVE  Fifo!Finish(TwinOf[h])
<1> DEFINE T == TwinOf[h]
           at == Position
           S == Unfinished(T)
<1>1. T \in Twins
  BY TwinOfType
<1>2. /\ h \in S /\ Queues[T] # << >> /\ Head(Queues[T]) = h
      /\ \A o \in S : o # h => at[h] < at[o]
  BY HeadsQueue DEF Leaving
<1>3. /\ IsFiniteSet(S)
      /\ \A o \in S : /\ o \in Orders /\ at[o] = order[o].pos
                      /\ at[o] \in Nat /\ at[o] < nextPos
      /\ \A o, p \in S : at[o] = at[p] => o = p
  BY <1>1, QueueFacts
<1>4. PICK bt : bt = Position'
  OBVIOUS
<1>5. \A o \in Orders : bt[o] = at[o]
  BY <1>4 DEF Position, Leaving, OtherRows
<1>6. Unfinished(T)' = S \ {h}
  BY DEF Unfinished, Leaving, OtherRows
<1>7. \A t \in Twins : t # T => Unfinished(t)' = Unfinished(t)
  BY DEF Unfinished, Leaving, OtherRows
<1>8. Sorted(bt, S \ {h}) = Tail(Sorted(at, S))
  <2>1. \A o \in S : at[o] \in Nat /\ at[o] = bt[o]
    <3> HIDE DEF S, at
    <3> QED
      BY <1>3, <1>5
  <2>2. IsFiniteSet(S) /\ h \in S /\ (\A o, p \in S : at[o] = at[p] => o = p)
        /\ (\A o \in S : o # h => at[h] < at[o])
    BY <1>2, <1>3
  <2> HIDE DEF S, at
  <2> QED
    BY <2>1, <2>2, Shrinks
<1>9. ASSUME NEW t \in Twins PROVE Sorted(bt, Unfinished(t)) = Sorted(at, Unfinished(t))
  <2>1. \A o \in Unfinished(t) : bt[o] = at[o]
    BY <1>5 DEF Unfinished
  <2> QED
    BY <2>1, Keeps
<1>10. Queues' = [Queues EXCEPT ![T] = Tail(@)]
  <2>1. Queues' = [t \in Twins |-> Sorted(bt, Unfinished(t)')]
    BY <1>4 DEF Queues
  <2>2. \A t \in Twins : Sorted(bt, Unfinished(t)') = IF t = T THEN Tail(Sorted(at, S)) ELSE Sorted(at, Unfinished(t))
    BY <1>6, <1>7, <1>8, <1>9
  <2> QED
    BY <1>1, <2>1, <2>2 DEF Queues
<1>11. Done' = Done \cup {h}
  BY DEF Done, Leaving, OtherRows
<1> QED
  BY <1>2, <1>10, <1>11 DEF Fifo!Finish

-----------------------------------------------------------------------------
(* The invariant of a queue without edits whose workers have not stalled.  *)
FifoInv == QueueInv /\ IsFiniteSet(Prepared)

(* Empty tables are empty queues.                                          *)
LEMMA FifoInit == Init => FifoInv /\ Fifo!Init
<1> SUFFICES ASSUME Init PROVE FifoInv /\ Fifo!Init
  OBVIOUS
<1>1. \A o \in Orders : order[o].status = "none"
  BY DEF Init, Absent
<1>2. Prepared = {} /\ Done = {} /\ \A t \in Twins : Unfinished(t) = {}
  BY <1>1 DEF Prepared, Done, Unfinished, Concluded
<1>3. Sorted(Position, {}) = << >>
  <2>1. IsFiniteSet({}) /\ Cardinality({}) = 0
    BY FS_EmptySet
  <2>2. Sorted(Position, {}) \in Seq({}) /\ Len(Sorted(Position, {})) = 0
    BY <2>1, SortedType
  <2> QED
    BY <2>2
<1>4. Queues = [t \in Twins |-> << >>]
  BY <1>2, <1>3 DEF Queues
<1>5. last = [t \in Twins |-> NoOrder]
  BY DEF Init
<1> QED
  BY <1>2, <1>4, <1>5, QueueInit, FS_EmptySet DEF FifoInv, Fifo!Init

(* Every step of the work-order queue is one of TwinFifo, or none.         *)
LEMMA FifoStep ==
  ASSUME FifoInv, [Next]_vars, Unstalled, Edits = {}
  PROVE  FifoInv' /\ [Fifo!Next]_<<Queues, Done, last>>
<1>1. QueueInv /\ QueueInv' /\ IsFiniteSet(Prepared) /\ TypeOK /\ TypeOK'
  BY QueueNext DEF FifoInv, QueueInv
<1>2. Kinds
  BY <1>1, StepKinds, StutterKind DEF QueueInv
<1>3. IsFiniteSet(Prepared')
  BY <1>1, <1>2, FiniteNext
<1>4. CASE last' = last
  <2>1. ASSUME Keeping PROVE UNCHANGED <<Queues, Done, last>>
    BY <1>1, <1>4, <2>1, KeepingQueues
  <2>2. ASSUME NEW o \in Orders, Entering(o) PROVE Fifo!Next
    BY <1>1, <1>4, <2>2, EnteringQueues DEF Fifo!Next
  <2>3. ASSUME NEW o \in Orders, Leaving(o) PROVE Fifo!Next
    BY <1>1, <1>4, <2>3, LeavingQueues, TwinOfType DEF Fifo!Next
  <2> QED
    BY <1>1, <1>2, <1>3, <2>1, <2>2, <2>3, Shapes DEF FifoInv
<1>5. ASSUME NEW w \in Workers, Writing(w) PROVE Fifo!Next
  <2> DEFINE h == worker[w].order
  <2>1. h \in Orders /\ order[h].status = "processing" /\ Older(h) = {}
    BY <1>1, <1>5, HeadOfQueue DEF Writing, Holding
  <2>2. Queues[TwinOf[h]] # << >> /\ Head(Queues[TwinOf[h]]) = h
    BY <1>1, <2>1, HeadsQueue DEF Blocking
  <2>3. Keeping
    BY <1>5 DEF Writing, Keeping
  <2>4. Queues' = Queues /\ Done' = Done
    BY <1>1, <2>3, KeepingQueues
  <2>5. Fifo!Write(TwinOf[h])
    BY <1>5, <2>2, <2>4 DEF Fifo!Write, Writing
  <2> QED
    BY <2>1, <2>5, TwinOfType DEF Fifo!Next
<1> QED
  BY <1>1, <1>3, <1>4, <1>5, Writes DEF FifoInv

(* What Cadena promises about writes to a provider: without edits, and as  *)
(* long as no worker stalls past its claim, per twin only the head of the  *)
(* queue is written, and orders leave the queue from the front             *)
(* (connector.service.ts:1608-1627), crashes, failed queries, lost answers,*)
(* shedding and re-injections included.                                    *)
THEOREM QueueIsFifo == Edits = {} => (Spec /\ []Unstalled => ImplementsFifo)
<1> SUFFICES ASSUME Edits = {} PROVE Spec /\ []Unstalled => ImplementsFifo
  OBVIOUS
<1>1. Init => FifoInv /\ Fifo!Init
  BY FifoInit
<1>2. FifoInv /\ Unstalled /\ [Next]_vars => FifoInv' /\ [Fifo!Next]_<<Queues, Done, last>>
  BY FifoStep
<1> QED
  BY <1>1, <1>2, PTL DEF Spec, ImplementsFifo, Fifo!Spec
=============================================================================
