------------------------ MODULE ConnectorRelayProofs ------------------------
(***************************************************************************)
(* Proofs about ConnectorRelay, for any operations, agents and troubles.   *)
(*                                                                         *)
(* 1. Moves of the rows (Enters, Waits, Leased, Completes, Returns), of    *)
(*    the line of requests (Joins) and of the agents (Delivers, Applies,   *)
(*    Stores, ...): every step of Next is one of each, or leaves that part *)
(*    alone.  What follows argues about the moves.                         *)
(* 2. TypeInv: the types; a request that can be seen has its position, and *)
(*    one that is being stored cannot be seen yet.                         *)
(* 3. LineInv: what a request found in the queue stands before it, and     *)
(*    therefore the head of the line has found nothing unfinished          *)
(*    (HeadIsCleared).  ServedInv carries that from the delivery to the    *)
(*    call: a row that is completed stays so, whatever leases run out.     *)
(* 4. LedgerInv: a call is under way only without an entry in the ledger,  *)
(*    so the calls beyond the losses of an answer are at most one, and an  *)
(*    answer is sent only from the ledger.                                 *)
(***************************************************************************)
EXTENDS ConnectorRelay, TLAPS

-----------------------------------------------------------------------------
(* Types.                                                                  *)

Row == [status : {"none", "pending", "leased", "completed"}, lease : Agents \cup {Nobody},
        expired : BOOLEAN, wait : BOOLEAN, answer : Nat]
CallerStages == {"idle", "inserting", "waiting", "answered"}
AgentStages == {"idle", "polled", "calling", "storing", "answering", "failing"}
Counters == [Agents -> [Operations -> Nat]]

Rows == /\ request \in [Operations -> Row]
        /\ \A o \in Operations :
             /\ request[o].status = "leased" <=> request[o].lease # Nobody
             /\ request[o].wait => request[o].status = "pending"
Queue == /\ drawn \in Seq(Operations)
         /\ \A i, j \in DOMAIN drawn : drawn[i] = drawn[j] => i = j
         /\ ahead \in [Operations -> SUBSET Operations]
         /\ \A o \in Operations : request[o].status # "none" => \E i \in DOMAIN drawn : drawn[i] = o
Asking == /\ caller \in [Operations -> CallerStages]
           /\ \A o \in Operations : caller[o] = "inserting" =>
                /\ request[o].status = "none"
                /\ \E i \in DOMAIN drawn : drawn[i] = o
Hands == /\ agent \in [Agents -> [stage : AgentStages, delivery : Operations \cup {Nobody}]]
         /\ \A g \in Agents : agent[g].stage = "idle" <=> agent[g].delivery = Nobody
Books == /\ token \in [current : Nat, held : [Agents -> Nat]]
         /\ ledger \in Counters /\ applied \in Counters /\ mishap \in Counters
         /\ budget \subseteq Troubles
TypeInv == Rows /\ Queue /\ Asking /\ Hands /\ Books

(* The initial states have the types.                                      *)
LEMMA TypeInit == ASSUME Init PROVE TypeInv
<1> USE NamesAssumption, BudgetAssumption DEF Init
<1>1. Rows
  BY DEF Rows, Row, NoRequest
<1>2. Queue
  BY DEF Queue, NoRequest
<1>3. Hands
  BY DEF Hands, Idle, AgentStages
<1>4. Books
  BY DEF Books, Counters
<1>5. Asking
  BY DEF Asking, CallerStages
<1> QED
  BY <1>1, <1>2, <1>3, <1>4, <1>5 DEF TypeInv


-----------------------------------------------------------------------------
(* What an assignment to one row, one agent or one counter does.           *)

Hand == [stage : AgentStages, delivery : Operations \cup {Nobody}]
RowMoves(o, s, l, w, n) ==
  /\ request' \in [Operations -> Row]
  /\ \A p \in Operations : p # o => request'[p] = request[p]
  /\ request'[o].status = s /\ request'[o].lease = l
  /\ request'[o].wait = w /\ request'[o].answer = n
HandMoves(g, s, o) ==
  /\ agent' \in [Agents -> Hand]
  /\ \A h \in Agents : h # g => agent'[h] = agent[h]
  /\ agent'[g].stage = s /\ agent'[g].delivery = o
Counted(old, new, g, o, n) ==
  /\ new \in Counters
  /\ new[g][o] = n
  /\ \A h \in Agents, p \in Operations : h # g \/ p # o => new[h][p] = old[h][p]

(* What storing a request, the end of a backoff and the end of a lease do  *)
(* to its row.                                                             *)
LEMMA CallerRows ==
  ASSUME Rows, NEW o \in Operations
  PROVE  /\ Persist(o) => RowMoves(o, "pending", request[o].lease, request[o].wait, request[o].answer)
         /\ BackoffEnds(o) => RowMoves(o, request[o].status, request[o].lease, FALSE, request[o].answer)
         /\ LeaseEnds(o) => RowMoves(o, request[o].status, request[o].lease, request[o].wait, request[o].answer)
<1> DEFINE persisted == [request[o] EXCEPT !.status = "pending"]
           ready     == [request[o] EXCEPT !.wait = FALSE]
           ended     == [request[o] EXCEPT !.expired = TRUE]
<1>1. /\ persisted \in Row /\ persisted.status = "pending" /\ persisted.lease = request[o].lease
      /\ persisted.wait = request[o].wait /\ persisted.answer = request[o].answer
  BY DEF Rows, Row
<1>2. /\ ready \in Row /\ ready.status = request[o].status /\ ready.lease = request[o].lease
      /\ ready.wait = FALSE /\ ready.answer = request[o].answer
  BY DEF Rows, Row
<1>3. /\ ended \in Row /\ ended.status = request[o].status /\ ended.lease = request[o].lease
      /\ ended.wait = request[o].wait /\ ended.answer = request[o].answer
  BY DEF Rows, Row
<1>4. /\ Persist(o) => request' = [request EXCEPT ![o] = persisted]
      /\ BackoffEnds(o) => request' = [request EXCEPT ![o] = ready]
      /\ LeaseEnds(o) => request' = [request EXCEPT ![o] = ended]
  BY DEF Persist, BackoffEnds, LeaseEnds
<1> HIDE DEF persisted, ready, ended
<1> QED
  BY <1>1, <1>2, <1>3, <1>4 DEF Rows, RowMoves

(* The request o is delivered to the agent g.                              *)
Leased(g, o) ==
  /\ IsHead(o) /\ ~request[o].wait /\ Authorized(g) /\ agent[g].stage = "idle"
  /\ request[o].status = "leased" => request[o].expired
  /\ RowMoves(o, "leased", g, request[o].wait, request[o].answer)
  /\ HandMoves(g, "polled", o)

(* A poll leases the head of the line, and delivers it to the agent that   *)
(* polled.                                                                 *)
LEMMA PollMoves ==
  ASSUME TypeInv, NEW g \in Agents, Poll(g)
  PROVE  \E o \in Operations : Leased(g, o)
<1>1. PICK o \in Operations :
        /\ IsHead(o) /\ ~request[o].wait /\ Authorized(g) /\ agent[g].stage = "idle"
        /\ request[o].status = "leased" => request[o].expired
        /\ request' = [request EXCEPT ![o].status = "leased", ![o].lease = g, ![o].expired = FALSE]
        /\ agent' = [agent EXCEPT ![g] = [stage |-> "polled", delivery |-> o]]
  BY DEF Poll
<1> DEFINE r == [request[o] EXCEPT !.status = "leased", !.lease = g, !.expired = FALSE]
           a == [stage |-> "polled", delivery |-> o]
<1>2. /\ r \in Row /\ r.status = "leased" /\ r.lease = g
      /\ r.wait = request[o].wait /\ r.answer = request[o].answer
  BY DEF TypeInv, Rows, Row
<1>3. a \in Hand /\ a.stage = "polled" /\ a.delivery = o
  BY DEF Hand, AgentStages
<1>4. request' = [request EXCEPT ![o] = r] /\ agent' = [agent EXCEPT ![g] = a]
  BY <1>1
<1> HIDE DEF r, a
<1>5. RowMoves(o, "leased", g, request[o].wait, request[o].answer)
  BY <1>2, <1>4 DEF TypeInv, Rows, RowMoves
<1>6. HandMoves(g, "polled", o)
  BY <1>3, <1>4 DEF TypeInv, Hands, Hand, HandMoves
<1> QED
  BY <1>1, <1>5, <1>6 DEF Leased

(* An agent goes on with its delivery, or drops it.                        *)
LEMMA HandGoes ==
  ASSUME Hands, NEW g \in Agents, NEW s \in AgentStages
  PROVE  /\ Goto(g, s) => HandMoves(g, s, agent[g].delivery)
         /\ agent' = [agent EXCEPT ![g] = Idle] => HandMoves(g, "idle", Nobody)
<1> DEFINE a == [agent[g] EXCEPT !.stage = s]
<1>1. a \in Hand /\ a.stage = s /\ a.delivery = agent[g].delivery
  BY DEF Hands, Hand
<1>2. Goto(g, s) => agent' = [agent EXCEPT ![g] = a]
  BY DEF Goto
<1>3. Idle \in Hand /\ Idle.stage = "idle" /\ Idle.delivery = Nobody
  BY DEF Idle, Hand, AgentStages
<1> HIDE DEF a
<1>4. Goto(g, s) => HandMoves(g, s, agent[g].delivery)
  BY <1>1, <1>2 DEF Hands, Hand, HandMoves
<1>5. agent' = [agent EXCEPT ![g] = Idle] => HandMoves(g, "idle", Nobody)
  BY <1>3 DEF Hands, Hand, HandMoves
<1> QED
  BY <1>4, <1>5

(* An acknowledgement changes only the row that is leased to its sender.   *)
LEMMA AcknowledgeMoves ==
  ASSUME TypeInv, NEW g \in Agents, Acknowledge(g)
  PROVE  /\ HandMoves(g, "idle", Nobody)
         /\ \/ request' = request
            \/ /\ agent[g].delivery \in Operations /\ Current(g) /\ agent[g].stage = "answering"
               /\ RowMoves(agent[g].delivery, "completed", Nobody, FALSE,
                           ledger[g][agent[g].delivery])
            \/ /\ agent[g].delivery \in Operations /\ Current(g) /\ agent[g].stage = "failing"
               /\ RowMoves(agent[g].delivery, "pending", Nobody, TRUE, 0)
<1>1. PICK o \in Operations : o = agent[g].delivery
  BY DEF Acknowledge, TypeInv, Hands
<1> DEFINE done  == [NoRequest EXCEPT !.status = "completed", !.answer = ledger[g][o]]
           again == [NoRequest EXCEPT !.status = "pending", !.wait = TRUE]
<1>2. ledger[g][o] \in Nat
  BY DEF TypeInv, Books, Counters
<1>3. /\ done \in Row /\ done.status = "completed" /\ done.lease = Nobody
      /\ done.wait = FALSE /\ done.answer = ledger[g][o]
  BY <1>2 DEF NoRequest, Row
<1>4. /\ again \in Row /\ again.status = "pending" /\ again.lease = Nobody
      /\ again.wait = TRUE /\ again.answer = 0
  BY DEF NoRequest, Row
<1>5. /\ agent[g].stage \in {"answering", "failing"}
      /\ agent' = [agent EXCEPT ![g] = Idle]
      /\ \/ request' = request
         \/ Current(g) /\ agent[g].stage = "answering" /\ request' = [request EXCEPT ![o] = done]
         \/ Current(g) /\ agent[g].stage = "failing" /\ request' = [request EXCEPT ![o] = again]
  BY <1>1 DEF Acknowledge
<1> HIDE DEF done, again
<1>6. HandMoves(g, "idle", Nobody)
  BY <1>5, HandGoes DEF TypeInv, AgentStages
<1>7. /\ request' = [request EXCEPT ![o] = done] => RowMoves(o, "completed", Nobody, FALSE, ledger[g][o])
      /\ request' = [request EXCEPT ![o] = again] => RowMoves(o, "pending", Nobody, TRUE, 0)
  BY <1>3, <1>4 DEF TypeInv, Rows, RowMoves
<1> QED
  BY <1>1, <1>5, <1>6, <1>7


(* A function of two arguments with one value replaced.                    *)
LEMMA Counts ==
  ASSUME NEW old \in Counters, NEW g \in Agents, NEW o \in Operations, NEW n \in Nat
  PROVE  Counted(old, [old EXCEPT ![g][o] = n], g, o, n)
<1> DEFINE counts == [old[g] EXCEPT ![o] = n]
           new    == [old EXCEPT ![g] = counts]
<1>1. /\ counts \in [Operations -> Nat] /\ counts[o] = n
      /\ \A p \in Operations : p # o => counts[p] = old[g][p]
  BY DEF Counters
<1> HIDE DEF counts
<1>2. Counted(old, new, g, o, n)
  BY <1>1 DEF Counters, Counted
<1> QED
  BY <1>2 DEF counts

-----------------------------------------------------------------------------
(* Moves of an agent, its ledger and its counters.                         *)

Rests == UNCHANGED <<agent, ledger, applied, mishap>>
Delivers(g, o) ==
  /\ IsHead(o) /\ agent[g].stage = "idle" /\ HandMoves(g, "polled", o)
  /\ UNCHANGED <<ledger, applied, mishap>>
Goes(g, o, s) ==
  /\ agent[g].delivery = o /\ agent[g].stage \in {"polled", "calling"} /\ HandMoves(g, s, o)
  /\ UNCHANGED <<ledger, applied, mishap>>
  /\ s = "calling" => ledger[g][o] = 0
  /\ s = "answering" => ledger[g][o] > 0
Applies(g, o) ==
  /\ agent[g].delivery = o /\ agent[g].stage = "calling" /\ HandMoves(g, "storing", o)
  /\ Counted(applied, applied', g, o, applied[g][o] + 1)
  /\ UNCHANGED <<ledger, mishap>>
CallsInVain(g, o) ==
  /\ agent[g].delivery = o /\ agent[g].stage = "calling" /\ HandMoves(g, "failing", o)
  /\ Counted(applied, applied', g, o, applied[g][o] + 1)
  /\ Counted(mishap, mishap', g, o, mishap[g][o] + 1)
  /\ UNCHANGED ledger
Stores(g, o) ==
  /\ agent[g].delivery = o /\ agent[g].stage = "storing" /\ HandMoves(g, "answering", o)
  /\ Counted(ledger, ledger', g, o, applied[g][o])
  /\ UNCHANGED <<applied, mishap>>
Loses(g, o) ==
  /\ agent[g].delivery = o /\ agent[g].stage = "storing"
  /\ HandMoves(g, "failing", o) \/ HandMoves(g, "idle", Nobody)
  /\ Counted(mishap, mishap', g, o, mishap[g][o] + 1)
  /\ UNCHANGED <<ledger, applied>>
Drops(g) ==
  /\ agent[g].stage # "storing" /\ HandMoves(g, "idle", Nobody)
  /\ UNCHANGED <<ledger, applied, mishap>>

AgentMoves(g) ==
  \/ Drops(g)
  \/ \E o \in Operations : \/ Delivers(g, o) \/ Applies(g, o) \/ CallsInVain(g, o)
                           \/ Stores(g, o) \/ Loses(g, o)
                           \/ \E s \in {"calling", "answering", "failing"} : Goes(g, o, s)

(* Every action of an agent is one of the moves (runOnce and its           *)
(* failures).                                                              *)
LEMMA AgentSteps ==
  ASSUME TypeInv, NEW g \in Agents
  PROVE  /\ ConsultLedger(g) \/ CallTarget(g) \/ Store(g) \/ Acknowledge(g) => AgentMoves(g)
         /\ Poll(g) \/ LoseAck(g) \/ CallFails(g) \/ StoreFails(g) \/ Crash(g) => AgentMoves(g)
<1> USE DEF TypeInv
<1>1. CASE agent[g].stage = "idle"
  <2>1. ASSUME Poll(g) PROVE AgentMoves(g)
    BY <1>1, <2>1, PollMoves DEF Leased, Poll, Delivers, AgentMoves
  <2> QED
    BY <1>1, <2>1 DEF ConsultLedger, CallTarget, Store, Acknowledge, LoseAck, CallFails,
                      StoreFails, Crash, At
<1>2. CASE agent[g].stage # "idle"
  <2>1. PICK o \in Operations : o = agent[g].delivery
    BY <1>2 DEF Hands
  <2>2. /\ ledger[g][o] \in Nat /\ applied[g][o] \in Nat /\ mishap[g][o] \in Nat
        /\ ledger \in Counters /\ applied \in Counters /\ mishap \in Counters
    BY DEF Books, Counters
  <2>3. /\ applied' = [applied EXCEPT ![g][o] = @ + 1] =>
             Counted(applied, applied', g, o, applied[g][o] + 1)
        /\ mishap' = [mishap EXCEPT ![g][o] = @ + 1] =>
             Counted(mishap, mishap', g, o, mishap[g][o] + 1)
        /\ ledger' = [ledger EXCEPT ![g][o] = applied[g][o]] =>
             Counted(ledger, ledger', g, o, applied[g][o])
    <3>1. applied[g][o] + 1 \in Nat /\ mishap[g][o] + 1 \in Nat
      BY <2>2
    <3>2. Counted(applied, [applied EXCEPT ![g][o] = applied[g][o] + 1], g, o, applied[g][o] + 1)
      BY <2>2, <3>1, Counts
    <3>3. Counted(mishap, [mishap EXCEPT ![g][o] = mishap[g][o] + 1], g, o, mishap[g][o] + 1)
      BY <2>2, <3>1, Counts
    <3>4. Counted(ledger, [ledger EXCEPT ![g][o] = applied[g][o]], g, o, applied[g][o])
      BY <2>2, Counts
    <3> QED
      BY <3>2, <3>3, <3>4
  <2>4. /\ Goto(g, "calling") => HandMoves(g, "calling", o)
        /\ Goto(g, "storing") => HandMoves(g, "storing", o)
        /\ Goto(g, "answering") => HandMoves(g, "answering", o)
        /\ Goto(g, "failing") => HandMoves(g, "failing", o)
        /\ agent' = [agent EXCEPT ![g] = Idle] => HandMoves(g, "idle", Nobody)
    BY <2>1, HandGoes DEF AgentStages
  <2>5. ASSUME ConsultLedger(g) PROVE AgentMoves(g)
    BY <2>1, <2>2, <2>4, <2>5 DEF ConsultLedger, At, Known, Goes, AgentMoves
  <2>6. ASSUME CallTarget(g) PROVE AgentMoves(g)
    BY <2>1, <2>3, <2>4, <2>6 DEF CallTarget, At, Applies, AgentMoves
  <2>7. ASSUME Store(g) PROVE AgentMoves(g)
    BY <2>1, <2>3, <2>4, <2>7 DEF Store, At, Stores, AgentMoves
  <2>8. ASSUME Acknowledge(g) PROVE AgentMoves(g)
    BY <2>8, AcknowledgeMoves DEF Acknowledge, Drops, AgentMoves
  <2>9. ASSUME LoseAck(g) PROVE AgentMoves(g)
    BY <2>4, <2>9 DEF LoseAck, Drops, AgentMoves
  <2>10. ASSUME CallFails(g) PROVE AgentMoves(g)
    BY <2>1, <2>3, <2>4, <2>10 DEF CallFails, At, Goes, CallsInVain, AgentMoves
  <2>11. ASSUME StoreFails(g) PROVE AgentMoves(g)
    BY <2>1, <2>3, <2>4, <2>11 DEF StoreFails, At, Loses, AgentMoves
  <2>12. ASSUME Crash(g) PROVE AgentMoves(g)
    BY <2>1, <2>3, <2>4, <2>12 DEF Crash, At, Loses, Drops, AgentMoves
  <2> QED
    BY <1>2, <2>5, <2>6, <2>7, <2>8, <2>9, <2>10, <2>11, <2>12 DEF Poll
<1> QED
  BY <1>1, <1>2

(* No other action touches an agent, its ledger or its counters.           *)
LEMMA Moves ==
  ASSUME TypeInv, [Next]_vars
  PROVE  Rests \/ \E g \in Agents : AgentMoves(g)
<1>1. ASSUME NEW o \in Operations,
             \/ Submit(o) \/ Persist(o) \/ ReadAnswer(o) \/ StopWaiting(o)
             \/ BackoffEnds(o) \/ LeaseEnds(o)
      PROVE  Rests
  BY <1>1 DEF Submit, Persist, ReadAnswer, StopWaiting, BackoffEnds, LeaseEnds, agents, Rests
<1>2. ASSUME NEW g \in Agents, Reconfigure(g) PROVE Rests
  BY <1>2 DEF Reconfigure, Rests
<1>3. ASSUME Provision PROVE Rests
  BY <1>3 DEF Provision, Rests
<1>4. ASSUME UNCHANGED vars PROVE Rests
  BY <1>4 DEF vars, agents, Rests
<1> QED
  BY <1>1, <1>2, <1>3, <1>4, AgentSteps DEF Next, AgentStep

-----------------------------------------------------------------------------
(* Moves of a row: it becomes visible, a backoff or a lease ends, an       *)
(* answer completes it or an error returns it to the queue.                *)

Enters(o) ==
  /\ request[o].status = "none" /\ caller[o] = "inserting" /\ caller'[o] = "waiting"
  /\ RowMoves(o, "pending", request[o].lease, request[o].wait, request[o].answer)
Waits(o) ==
  /\ request[o].status \in {"pending", "leased"}
  /\ \E w \in BOOLEAN :
       /\ w => request[o].wait
       /\ RowMoves(o, request[o].status, request[o].lease, w, request[o].answer)
Completes(g, o) ==
  /\ request[o].status = "leased" /\ agent[g].delivery = o /\ agent[g].stage = "answering"
  /\ ledger' = ledger
  /\ RowMoves(o, "completed", Nobody, FALSE, ledger[g][o])
Returns(o) ==
  /\ request[o].status = "leased"
  /\ RowMoves(o, "pending", Nobody, TRUE, 0)
RowChange ==
  \/ request' = request
  \/ \E o \in Operations : Enters(o) \/ Waits(o) \/ Returns(o)
  \/ \E g \in Agents, o \in Operations : Leased(g, o) \/ Completes(g, o)

(* Every step is one of the moves of a row, or changes none.               *)
LEMMA RowChanges ==
  ASSUME TypeInv, [Next]_vars
  PROVE  RowChange
<1> USE DEF TypeInv
<1>1. ASSUME NEW o \in Operations, Persist(o) PROVE RowChange
  BY <1>1, CallerRows DEF Persist, Asking, CallerStages, Enters, RowChange
<1>2. ASSUME NEW o \in Operations, BackoffEnds(o) PROVE RowChange
  <2>1. request[o].wait /\ request[o].status = "pending"
    BY <1>2 DEF BackoffEnds, Rows
  <2> QED
    BY <1>2, <2>1, CallerRows DEF Waits, RowChange
<1>3. ASSUME NEW o \in Operations, LeaseEnds(o) PROVE RowChange
  <2>1. request[o].wait \in BOOLEAN /\ request[o].status = "leased"
    BY <1>3 DEF LeaseEnds, Rows, Row
  <2> QED
    BY <1>3, <2>1, CallerRows DEF Waits, RowChange
<1>4. ASSUME NEW g \in Agents, Poll(g) PROVE RowChange
  BY <1>4, PollMoves DEF RowChange
<1>5. ASSUME NEW g \in Agents, Acknowledge(g) PROVE RowChange
  <2>1. ledger' = ledger
    BY <1>5 DEF Acknowledge
  <2> QED
    BY <1>5, <2>1, AcknowledgeMoves DEF Current, Completes, Returns, RowChange
<1>6. ASSUME NEW o \in Operations, Submit(o) \/ ReadAnswer(o) \/ StopWaiting(o) PROVE RowChange
  BY <1>6 DEF Submit, ReadAnswer, StopWaiting, rows, RowChange
<1>7. ASSUME NEW g \in Agents, ConsultLedger(g) \/ CallTarget(g) \/ Store(g) PROVE RowChange
  BY <1>7 DEF ConsultLedger, CallTarget, Store, rows, RowChange
<1>8. ASSUME NEW g \in Agents,
             LoseAck(g) \/ Reconfigure(g) \/ CallFails(g) \/ StoreFails(g) \/ Crash(g)
      PROVE  RowChange
  BY <1>8 DEF LoseAck, Reconfigure, CallFails, StoreFails, Crash, rows, RowChange
<1>9. ASSUME Provision \/ UNCHANGED vars PROVE RowChange
  BY <1>9 DEF Provision, vars, rows, RowChange
<1> QED
  BY <1>1, <1>2, <1>3, <1>4, <1>5, <1>6, <1>7, <1>8, <1>9 DEF Next, AgentStep

(* A new request draws the next position.                                  *)
Joins(o) ==
  /\ \A i \in DOMAIN drawn : drawn[i] # o
  /\ drawn' = Append(drawn, o) /\ ahead' = [ahead EXCEPT ![o] = Visible]
  /\ request' = request
LineMoves == UNCHANGED <<drawn, ahead>> \/ \E o \in Operations : Joins(o)

(* Only the submission of a new request changes the line.                  *)
LEMMA LineChanges ==
  ASSUME [Next]_vars
  PROVE  LineMoves
<1>1. ASSUME NEW o \in Operations, Submit(o) PROVE LineMoves
  BY <1>1 DEF Submit, Range, Joins, LineMoves
<1>2. ASSUME NEW o \in Operations,
             Persist(o) \/ ReadAnswer(o) \/ StopWaiting(o) \/ BackoffEnds(o) \/ LeaseEnds(o)
      PROVE  LineMoves
  BY <1>2 DEF Persist, ReadAnswer, StopWaiting, BackoffEnds, LeaseEnds, rows, LineMoves
<1>3. ASSUME NEW g \in Agents, AgentStep(g) PROVE LineMoves
  BY <1>3 DEF AgentStep, ConsultLedger, CallTarget, Store, Acknowledge, rows, LineMoves
<1>4. ASSUME NEW g \in Agents,
             \/ Poll(g) \/ LoseAck(g) \/ Reconfigure(g) \/ CallFails(g) \/ StoreFails(g) \/ Crash(g)
      PROVE  LineMoves
  BY <1>4 DEF Poll, LoseAck, Reconfigure, CallFails, StoreFails, Crash, rows, LineMoves
<1>5. ASSUME Provision \/ UNCHANGED vars PROVE LineMoves
  BY <1>5 DEF Provision, vars, rows, LineMoves
<1> QED
  BY <1>1, <1>2, <1>3, <1>4, <1>5 DEF Next

(* The moves keep the types of the rows.                                   *)
LEMMA RowsStep ==
  ASSUME TypeInv, RowChange
  PROVE  Rows'
<1> USE DEF TypeInv, Rows
<1>1. ASSUME NEW o \in Operations, Enters(o) PROVE Rows'
  BY <1>1 DEF Enters, RowMoves
<1>2. ASSUME NEW o \in Operations, Waits(o) PROVE Rows'
  BY <1>2 DEF Waits, RowMoves
<1>3. ASSUME NEW o \in Operations, Returns(o) PROVE Rows'
  BY <1>3 DEF Returns, RowMoves
<1>4. ASSUME NEW g \in Agents, NEW o \in Operations, Leased(g, o) PROVE Rows'
  BY <1>4, NamesAssumption DEF Leased, RowMoves
<1>5. ASSUME NEW g \in Agents, NEW o \in Operations, Completes(g, o) PROVE Rows'
  BY <1>5 DEF Completes, RowMoves
<1> QED
  BY <1>1, <1>2, <1>3, <1>4, <1>5 DEF RowChange

(* What no step takes back.                                                *)
Advance ==
  \A o \in Operations :
    /\ request[o].status # "none" => request'[o].status # "none"
    /\ request[o].status = "completed" => request'[o] = request[o]
    /\ request[o].status # "none" => ahead'[o] = ahead[o]
    /\ request'[o].status # "none" => request[o].status # "none" \/ caller[o] = "inserting"

(* No step makes a request disappear, changes a completed one, or what a   *)
(* request found in the queue.                                             *)
LEMMA Advances ==
  ASSUME TypeInv, RowChange, LineMoves
  PROVE  Advance
<1> USE DEF TypeInv
<1> DEFINE Kept(o) ==
             /\ request[o].status # "none" => request'[o].status # "none"
             /\ request[o].status = "completed" => request'[o] = request[o]
             /\ request'[o].status # "none" => request[o].status # "none" \/ caller[o] = "inserting"
<1>1. ASSUME NEW o \in Operations PROVE Kept(o)
  <2>1. ASSUME NEW p \in Operations, Enters(p) \/ Waits(p) \/ Returns(p) PROVE Kept(o)
    BY <2>1 DEF Enters, Waits, Returns, RowMoves
  <2>2. ASSUME NEW g \in Agents, NEW p \in Operations, Leased(g, p) \/ Completes(g, p) PROVE Kept(o)
    BY <2>2 DEF Leased, IsHead, Offered, Completes, RowMoves
  <2> QED
    BY <2>1, <2>2 DEF RowChange
<1>2. ASSUME NEW o \in Operations, request[o].status # "none" PROVE ahead'[o] = ahead[o]
  BY <1>2 DEF LineMoves, Joins, Queue
<1> QED
  BY <1>1, <1>2 DEF Advance

(* Positions are unique, and never change.                                 *)
LEMMA LineStep ==
  ASSUME TypeInv, RowChange, LineMoves
  PROVE  /\ Queue'
         /\ \A i \in DOMAIN drawn : i \in DOMAIN drawn' /\ drawn'[i] = drawn[i]
<1> USE DEF TypeInv, Queue
<1>1. Advance
  BY Advances
<1>2. CASE UNCHANGED <<drawn, ahead>>
  <2>1. \A o \in Operations : request'[o].status # "none" => \E i \in DOMAIN drawn : drawn[i] = o
    BY <1>1 DEF Advance, Asking
  <2> QED
    BY <1>2, <2>1
<1>3. ASSUME NEW o \in Operations, Joins(o)
      PROVE  /\ Queue'
             /\ \A i \in DOMAIN drawn : i \in DOMAIN drawn' /\ drawn'[i] = drawn[i]
  <2>1. /\ drawn' \in Seq(Operations) /\ Len(drawn') = Len(drawn) + 1
        /\ DOMAIN drawn = 1 .. Len(drawn) /\ DOMAIN drawn' = 1 .. (Len(drawn) + 1)
        /\ \A i \in DOMAIN drawn : drawn'[i] = drawn[i]
        /\ drawn'[Len(drawn) + 1] = o
    BY <1>3 DEF Joins
  <2>2. \A i, j \in DOMAIN drawn' : drawn'[i] = drawn'[j] => i = j
    BY <1>3, <2>1 DEF Joins
  <2>3. ahead' \in [Operations -> SUBSET Operations] /\ request' = request
    BY <1>3 DEF Joins, Visible
  <2> QED
    BY <2>1, <2>2, <2>3
<1> QED
  BY <1>2, <1>3 DEF LineMoves

(* A request that is being stored has its position and cannot be seen.     *)
LEMMA CallersStep ==
  ASSUME TypeInv, [Next]_vars
  PROVE  Asking'
<1> DEFINE Enter == /\ caller' \in [Operations -> CallerStages]
                    /\ \A p \in Operations : caller'[p] = "inserting" =>
                         caller[p] = "inserting" \/ Joins(p)
<1>1. RowChange /\ LineMoves
  BY RowChanges, LineChanges
<1>2. \A i \in DOMAIN drawn : i \in DOMAIN drawn' /\ drawn'[i] = drawn[i]
  BY <1>1, LineStep
<1> USE DEF TypeInv
<1>3. ASSUME NEW p \in Operations, caller'[p] = "inserting", request[p].status = "none"
      PROVE  request'[p].status = "none"
  <2>1. ASSUME NEW o \in Operations, Enters(o) \/ Waits(o) \/ Returns(o)
        PROVE  request'[p].status = "none"
    BY <1>3, <2>1 DEF Enters, Waits, Returns, RowMoves
  <2>2. ASSUME NEW g \in Agents, NEW o \in Operations, Leased(g, o) \/ Completes(g, o)
        PROVE  request'[p].status = "none"
    BY <1>3, <2>2 DEF Leased, IsHead, Offered, Completes, RowMoves
  <2> QED
    BY <1>1, <1>3, <2>1, <2>2 DEF RowChange
<1>4. Enter
  <2>1. ASSUME NEW o \in Operations, Submit(o) PROVE Enter
    BY <2>1 DEF Submit, Range, Joins, Asking, CallerStages
  <2>2. ASSUME NEW o \in Operations, Persist(o) \/ ReadAnswer(o) \/ StopWaiting(o) PROVE Enter
    BY <2>2 DEF Persist, ReadAnswer, StopWaiting, Asking, CallerStages
  <2>3. ASSUME NEW o \in Operations, BackoffEnds(o) \/ LeaseEnds(o) PROVE Enter
    BY <2>3 DEF BackoffEnds, LeaseEnds, Asking
  <2>4. ASSUME NEW g \in Agents, AgentStep(g) PROVE Enter
    BY <2>4 DEF AgentStep, ConsultLedger, CallTarget, Store, Acknowledge, Asking
  <2>5. ASSUME NEW g \in Agents,
               \/ Poll(g) \/ LoseAck(g) \/ Reconfigure(g) \/ CallFails(g) \/ StoreFails(g) \/ Crash(g)
        PROVE  Enter
    BY <2>5 DEF Poll, LoseAck, Reconfigure, CallFails, StoreFails, Crash, Asking
  <2>6. ASSUME Provision \/ UNCHANGED vars PROVE Enter
    BY <2>6 DEF Provision, vars, Asking
  <2> QED
    BY <2>1, <2>2, <2>3, <2>4, <2>5, <2>6 DEF Next
<1>5. ASSUME NEW p \in Operations, caller'[p] = "inserting"
      PROVE  request'[p].status = "none" /\ \E i \in DOMAIN drawn' : drawn'[i] = p
  <2>1. CASE caller[p] = "inserting"
    BY <1>2, <1>3, <1>5, <2>1 DEF Asking
  <2>2. CASE Joins(p)
    <3>1. request[p].status = "none"
      BY <2>2 DEF Joins, Queue
    <3>2. Len(drawn) + 1 \in DOMAIN drawn' /\ drawn'[Len(drawn) + 1] = p
      BY <2>2 DEF Joins, Queue
    <3> QED
      BY <1>3, <1>5, <3>1, <3>2
  <2> QED
    BY <1>4, <1>5, <2>1, <2>2
<1> QED
  BY <1>4, <1>5 DEF Asking

(* The moves keep the types of the agents.                                 *)
LEMMA HandsStep ==
  ASSUME TypeInv, NEW g \in Agents, AgentMoves(g)
  PROVE  Hands'
<1> USE NamesAssumption DEF TypeInv, Hands, Hand, HandMoves, AgentStages
<1>1. CASE Drops(g)
  BY <1>1 DEF Drops
<1>2. ASSUME NEW o \in Operations, Delivers(g, o) PROVE Hands'
  BY <1>2 DEF Delivers
<1>3. ASSUME NEW o \in Operations, Applies(g, o) \/ CallsInVain(g, o) \/ Stores(g, o) PROVE Hands'
  BY <1>3 DEF Applies, CallsInVain, Stores
<1>4. ASSUME NEW o \in Operations, Loses(g, o) PROVE Hands'
  BY <1>4 DEF Loses
<1>5. ASSUME NEW o \in Operations, NEW s \in {"calling", "answering", "failing"}, Goes(g, o, s)
      PROVE  Hands'
  BY <1>5 DEF Goes
<1> QED
  BY <1>1, <1>2, <1>3, <1>4, <1>5 DEF AgentMoves

(* Every step keeps the types of tokens, ledgers and counters.             *)
LEMMA BooksStep ==
  ASSUME TypeInv, [Next]_vars
  PROVE  Books'
<1> USE DEF TypeInv, Books
<1>1. ledger' \in Counters /\ applied' \in Counters /\ mishap' \in Counters
  <2>1. CASE Rests
    BY <2>1 DEF Rests
  <2>2. ASSUME NEW g \in Agents, AgentMoves(g)
        PROVE  ledger' \in Counters /\ applied' \in Counters /\ mishap' \in Counters
    BY <2>2 DEF AgentMoves, Drops, Delivers, Applies, CallsInVain, Stores, Loses, Goes, Counted
  <2> QED
    BY <2>1, <2>2, Moves
<1>2. budget' \subseteq Troubles
  <2>1. ASSUME NEW o \in Operations, LeaseEnds(o) PROVE budget' \subseteq budget
    BY <2>1 DEF LeaseEnds, Suffer
  <2>2. ASSUME NEW o \in Operations,
               \/ Submit(o) \/ Persist(o) \/ ReadAnswer(o) \/ StopWaiting(o) \/ BackoffEnds(o)
        PROVE  budget' \subseteq budget
    BY <2>2 DEF Submit, Persist, ReadAnswer, StopWaiting, BackoffEnds
  <2>3. ASSUME NEW g \in Agents, AgentStep(g) \/ Poll(g) \/ Reconfigure(g)
        PROVE  budget' \subseteq budget
    BY <2>3 DEF AgentStep, ConsultLedger, CallTarget, Store, Acknowledge, Poll, Reconfigure
  <2>4. ASSUME NEW g \in Agents, LoseAck(g) \/ CallFails(g) \/ StoreFails(g) \/ Crash(g)
        PROVE  budget' \subseteq budget
    BY <2>4 DEF LoseAck, CallFails, StoreFails, Crash, Suffer
  <2>5. ASSUME Provision \/ UNCHANGED vars PROVE budget' \subseteq budget
    BY <2>5 DEF Provision, Suffer, vars
  <2> QED
    BY <2>1, <2>2, <2>3, <2>4, <2>5 DEF Next
<1>3. token' \in [current : Nat, held : [Agents -> Nat]]
  <2>1. ASSUME Provision PROVE token' \in [current : Nat, held : [Agents -> Nat]]
    BY <2>1 DEF Provision
  <2>2. ASSUME NEW g \in Agents, Reconfigure(g)
        PROVE  token' \in [current : Nat, held : [Agents -> Nat]]
    BY <2>2 DEF Reconfigure
  <2>3. ASSUME NEW o \in Operations,
               \/ Submit(o) \/ Persist(o) \/ ReadAnswer(o) \/ StopWaiting(o) \/ BackoffEnds(o)
               \/ LeaseEnds(o)
        PROVE  token' = token
    BY <2>3 DEF Submit, Persist, ReadAnswer, StopWaiting, BackoffEnds, LeaseEnds, agents
  <2>4. ASSUME NEW g \in Agents, AgentStep(g) \/ Poll(g)
        PROVE  token' = token
    BY <2>4 DEF AgentStep, ConsultLedger, CallTarget, Store, Acknowledge, Poll
  <2>5. ASSUME NEW g \in Agents, LoseAck(g) \/ CallFails(g) \/ StoreFails(g) \/ Crash(g)
        PROVE  token' = token
    BY <2>5 DEF LoseAck, CallFails, StoreFails, Crash
  <2>6. ASSUME UNCHANGED vars PROVE token' = token
    BY <2>6 DEF vars, agents
  <2> QED
    BY <2>1, <2>2, <2>3, <2>4, <2>5, <2>6 DEF Next
<1> QED
  BY <1>1, <1>2, <1>3

(* Every step keeps the types.                                             *)
LEMMA TypeStep ==
  ASSUME TypeInv, [Next]_vars
  PROVE  TypeInv'
<1>1. RowChange /\ LineMoves
  BY RowChanges, LineChanges
<1>2. Rows' /\ Queue'
  BY <1>1, RowsStep, LineStep
<1>3. Hands'
  BY Moves, HandsStep DEF Rests, TypeInv, Hands
<1> QED
  BY <1>2, <1>3, CallersStep, BooksStep DEF TypeInv

-----------------------------------------------------------------------------
(* The inductive invariant.                                                *)

(* The request can be seen, and what it found in the queue is done.        *)
Cleared(o) == /\ request[o].status # "none"
              /\ \A p \in ahead[o] : request[p].status = "completed"

(* What a request found in the queue stands before it.                     *)
LineInv == \A o \in Operations : \A p \in ahead[o] :
  /\ request[p].status # "none"
  /\ \A i \in DOMAIN drawn : drawn[i] = o => \E j \in 1 .. (i - 1) : drawn[j] = p

(* Only such a request is delivered or has reached the provider.           *)
ServedInv ==
  /\ \A g \in Agents : agent[g].delivery # Nobody => Cleared(agent[g].delivery)
  /\ \A g \in Agents, o \in Operations : applied[g][o] > 0 => Cleared(o)

(* The answer of a call is on disk or on its way there.                    *)
Answered(g, o) == ledger[g][o] > 0 \/ (agent[g].stage = "storing" /\ agent[g].delivery = o)
LedgerInv == \A g \in Agents, o \in Operations :
  /\ agent[g].delivery = o =>
       /\ agent[g].stage \in {"calling", "storing"} => ledger[g][o] = 0
       /\ agent[g].stage = "storing" => applied[g][o] > 0
       /\ agent[g].stage = "answering" => ledger[g][o] > 0
  /\ applied[g][o] <= 1 + mishap[g][o]
  /\ ~Answered(g, o) => applied[g][o] <= mishap[g][o]

RelayInv == TypeInv /\ LineInv /\ ServedInv /\ LedgerInv /\ AnswerIsDurable

(* A new request goes behind all it finds, and the others keep their       *)
(* places.                                                                 *)
LEMMA LineKept ==
  ASSUME TypeInv, LineInv, RowChange, LineMoves
  PROVE  LineInv'
<1>1. Advance
  BY Advances
<1> USE DEF TypeInv, LineInv, Queue
<1>2. CASE UNCHANGED <<drawn, ahead>>
  BY <1>1, <1>2 DEF Advance
<1>3. ASSUME NEW o \in Operations, Joins(o) PROVE LineInv'
  <2> DEFINE last == Len(drawn) + 1
  <2>1. /\ DOMAIN drawn' = 1 .. last /\ DOMAIN drawn = 1 .. (last - 1) /\ last \in Nat
        /\ \A i \in DOMAIN drawn : drawn'[i] = drawn[i]
        /\ drawn'[last] = o
        /\ request' = request
        /\ ahead'[o] = Visible
        /\ \A q \in Operations : q # o => ahead'[q] = ahead[q]
    BY <1>3 DEF Joins
  <2> HIDE DEF last
  <2>2. \A i \in DOMAIN drawn : drawn[i] # o
    BY <1>3 DEF Joins
  <2>3. ASSUME NEW p \in Visible, NEW i \in DOMAIN drawn', drawn'[i] = o
        PROVE  \E j \in 1 .. (i - 1) : drawn'[j] = p
    <3>1. i = last
      BY <2>1, <2>2, <2>3
    <3>2. PICK j \in DOMAIN drawn : drawn[j] = p
      BY DEF Visible
    <3> QED
      BY <2>1, <3>1, <3>2
  <2>4. ASSUME NEW q \in Operations, q # o, NEW p \in ahead[q], NEW i \in DOMAIN drawn',
               drawn'[i] = q
        PROVE  \E j \in 1 .. (i - 1) : drawn'[j] = p
    <3>1. i \in DOMAIN drawn /\ drawn[i] = q
      BY <2>1, <2>4
    <3>2. PICK j \in 1 .. (i - 1) : drawn[j] = p
      BY <3>1
    <3>3. j \in DOMAIN drawn
      BY <2>1, <3>1, <3>2
    <3> QED
      BY <2>1, <3>2, <3>3
  <2>5. \A q \in Operations : \A p \in ahead'[q] : request'[p].status # "none"
    BY <2>1 DEF Visible
  <2>6. \A q \in Operations : \A p \in ahead'[q] :
          \A i \in DOMAIN drawn' : drawn'[i] = q => \E j \in 1 .. (i - 1) : drawn'[j] = p
    <3>1. \A p \in ahead'[o] : \A i \in DOMAIN drawn' :
            drawn'[i] = o => \E j \in 1 .. (i - 1) : drawn'[j] = p
      BY <2>1, <2>3
    <3>2. \A q \in Operations : q # o => \A p \in ahead'[q] : \A i \in DOMAIN drawn' :
            drawn'[i] = q => \E j \in 1 .. (i - 1) : drawn'[j] = p
      BY <2>1, <2>4
    <3> QED
      BY <3>1, <3>2
  <2> QED
    BY <2>5, <2>6
<1> QED
  BY <1>2, <1>3 DEF LineMoves

(* The head of the line has found nothing that is unfinished.              *)
LEMMA HeadIsCleared ==
  ASSUME TypeInv, LineInv, NEW o \in Operations, IsHead(o)
  PROVE  Cleared(o)
<1> USE DEF TypeInv
<1>1. PICK i \in DOMAIN drawn : drawn[i] = o /\ \A j \in 1 .. (i - 1) : drawn[j] \notin Offered
  BY DEF IsHead
<1>2. ASSUME NEW p \in ahead[o] PROVE request[p].status = "completed"
  <2>1. p \in Operations /\ request[p] \in Row /\ request[p].status # "none"
    BY DEF Queue, LineInv, Rows
  <2>2. PICK j \in 1 .. (i - 1) : drawn[j] = p
    BY <1>1 DEF LineInv
  <2>3. p \notin Offered
    BY <1>1, <2>2
  <2> QED
    BY <2>1, <2>3 DEF Offered, Row
<1> QED
  BY <1>2 DEF IsHead, Offered, Cleared

(* A delivery is the head of the line, a call is one of a delivery, and    *)
(* what is done stays done.                                                *)
LEMMA ServedKept ==
  ASSUME TypeInv, LineInv, ServedInv, [Next]_vars
  PROVE  ServedInv'
<1> USE DEF TypeInv
<1>1. Advance
  BY Advances, RowChanges, LineChanges
<1>2. ASSUME NEW o \in Operations, Cleared(o) PROVE Cleared(o)'
  BY <1>1, <1>2 DEF Advance, Cleared, Queue
<1>3. \A g \in Agents, o \in Operations : applied[g][o] \in Nat
  BY DEF Books, Counters
<1>4. \A g \in Agents : agent[g].delivery \in Operations \cup {Nobody}
  BY DEF Hands
<1>5. CASE Rests
  BY <1>2, <1>4, <1>5 DEF Rests, ServedInv
<1>6. ASSUME NEW g \in Agents, AgentMoves(g) PROVE ServedInv'
  <2> DEFINE HandsServed == \A h \in Agents : agent'[h].delivery # Nobody =>
                              /\ agent'[h].delivery \in Operations
                              /\ Cleared(agent'[h].delivery)
             CallsServed == \A h \in Agents, o \in Operations : applied'[h][o] > 0 => Cleared(o)
  <2>1. HandsServed
    <3>1. ASSUME NEW o \in Operations, Delivers(g, o) PROVE HandsServed
      BY <1>4, <3>1, HeadIsCleared DEF Delivers, HandMoves, ServedInv
    <3> QED
      BY <1>4, <1>6, <3>1 DEF AgentMoves, Drops, Applies, CallsInVain, Stores, Loses, Goes, HandMoves,
                       ServedInv
  <2>2. CallsServed
    <3>1. ASSUME NEW o \in Operations, agent[g].delivery = o, Applies(g, o) \/ CallsInVain(g, o)
          PROVE  CallsServed
      BY <1>3, <3>1, NamesAssumption DEF Applies, CallsInVain, Counted, ServedInv
    <3> QED
      BY <1>6, <3>1 DEF AgentMoves, Drops, Delivers, Applies, CallsInVain, Stores, Loses, Goes, ServedInv
  <2> QED
    BY <1>2, <2>1, <2>2 DEF ServedInv
<1> QED
  BY <1>5, <1>6, Moves

(* A call is counted against a loss or an entry of the ledger, and an      *)
(* entry is written once.                                                  *)
LEMMA LedgerKept ==
  ASSUME TypeInv, LedgerInv, [Next]_vars
  PROVE  /\ LedgerInv'
         /\ \A g \in Agents, o \in Operations : ledger[g][o] > 0 => ledger'[g][o] = ledger[g][o]
<1> USE DEF TypeInv
<1>1. \A g \in Agents, o \in Operations :
        applied[g][o] \in Nat /\ mishap[g][o] \in Nat /\ ledger[g][o] \in Nat
  BY DEF Books, Counters
<1> DEFINE Goal ==
      /\ LedgerInv'
      /\ \A g \in Agents, o \in Operations : ledger[g][o] > 0 => ledger'[g][o] = ledger[g][o]
<1> USE NamesAssumption DEF LedgerInv, Answered, HandMoves, Counted
<1>2. CASE Rests
  BY <1>2 DEF Rests
<1>3. ASSUME NEW g \in Agents, Drops(g) PROVE Goal
  BY <1>1, <1>3 DEF Drops
<1>4. ASSUME NEW g \in Agents, NEW o \in Operations, Delivers(g, o) PROVE Goal
  BY <1>1, <1>4 DEF Delivers
<1>5. ASSUME NEW g \in Agents, NEW o \in Operations, Applies(g, o) PROVE Goal
  BY <1>1, <1>5 DEF Applies
<1>6. ASSUME NEW g \in Agents, NEW o \in Operations, CallsInVain(g, o) PROVE Goal
  BY <1>1, <1>6 DEF CallsInVain
<1>7. ASSUME NEW g \in Agents, NEW o \in Operations, Stores(g, o) PROVE Goal
  BY <1>1, <1>7 DEF Stores
<1>8. ASSUME NEW g \in Agents, NEW o \in Operations, Loses(g, o) PROVE Goal
  BY <1>1, <1>8 DEF Loses
<1>9. ASSUME NEW g \in Agents, NEW o \in Operations,
             NEW s \in {"calling", "answering", "failing"}, Goes(g, o, s)
      PROVE  Goal
  BY <1>1, <1>9 DEF Goes
<1> QED
  BY <1>2, <1>3, <1>4, <1>5, <1>6, <1>7, <1>8, <1>9, Moves DEF AgentMoves

(* A request is completed with what is in the ledger of the agent, and the *)
(* entry stays.                                                            *)
LEMMA AnswerKept ==
  ASSUME TypeInv, LedgerInv, AnswerIsDurable, [Next]_vars
  PROVE  AnswerIsDurable'
<1> USE DEF TypeInv, AnswerIsDurable
<1>1. RowChange
  BY RowChanges
<1>2. \A g \in Agents, o \in Operations : ledger[g][o] > 0 => ledger'[g][o] = ledger[g][o]
  BY LedgerKept
<1> DEFINE Durable(o) == request'[o].status = "completed" =>
             request'[o].answer > 0 /\ \E g \in Agents : ledger'[g][o] = request'[o].answer
<1>3. ASSUME NEW o \in Operations, request'[o] = request[o] PROVE Durable(o)
  BY <1>2, <1>3
<1>4. ASSUME NEW o \in Operations, Enters(o) \/ Waits(o) \/ Returns(o)
      PROVE  \A p \in Operations : Durable(p)
  BY <1>3, <1>4 DEF Enters, Waits, Returns, RowMoves
<1>5. ASSUME NEW g \in Agents, NEW o \in Operations, Leased(g, o)
      PROVE  \A p \in Operations : Durable(p)
  BY <1>3, <1>5 DEF Leased, RowMoves
<1>6. ASSUME NEW g \in Agents, NEW o \in Operations, Completes(g, o)
      PROVE  \A p \in Operations : Durable(p)
  BY <1>3, <1>6 DEF Completes, RowMoves, LedgerInv
<1> QED
  BY <1>1, <1>3, <1>4, <1>5, <1>6 DEF RowChange

(* The invariant holds initially.                                          *)
LEMMA RelayInit == ASSUME Init PROVE RelayInv
<1>1. TypeInv
  BY TypeInit
<1>2. LineInv
  BY DEF Init, LineInv
<1>3. ServedInv
  BY DEF Init, Idle, ServedInv
<1>4. LedgerInv
  BY DEF Init, Idle, LedgerInv, Answered
<1>5. AnswerIsDurable
  BY DEF Init, NoRequest, AnswerIsDurable
<1> QED
  BY <1>1, <1>2, <1>3, <1>4, <1>5 DEF RelayInv

(* Every step keeps the invariant.                                         *)
LEMMA RelayStep == ASSUME RelayInv, [Next]_vars PROVE RelayInv'
<1> USE DEF RelayInv
<1>1. RowChange /\ LineMoves
  BY RowChanges, LineChanges
<1>2. TypeInv'
  BY TypeStep
<1>3. LineInv'
  BY <1>1, LineKept
<1> QED
  BY <1>2, <1>3, ServedKept, LedgerKept, AnswerKept

(* The inductive invariant of the relay holds: the types, the line of      *)
(* requests (connector-relay.service.ts:211-219), what is delivered from   *)
(* it, and the ledgers (outbound-relay-agent.ts:87-116).                   *)
THEOREM RelayHolds == Spec => []RelayInv
<1>1. Init => RelayInv
  BY RelayInit
<1>2. RelayInv /\ [Next]_vars => RelayInv'
  BY RelayStep
<1> QED
  BY <1>1, <1>2, PTL DEF Spec

-----------------------------------------------------------------------------
(* Rows, agents and callers hold values of their types: every column of    *)
(* integration_relay_requests and every step of runOnce.                   *)
THEOREM TypeCorrect == Spec => []TypeOK
<1>1. RelayInv => TypeOK
  <2> SUFFICES ASSUME RelayInv PROVE TypeOK
    OBVIOUS
  <2> USE DEF RelayInv, TypeInv
  <2>1. IsInjective(drawn) /\ Visible \subseteq Range(drawn)
    BY DEF Queue, IsInjective, Visible, Range
  <2> QED
    BY <2>1 DEF TypeOK, Rows, Row, Hands, Books, At
<1> QED
  BY <1>1, RelayHolds, PTL

(* The ledger of an agent answers a delivery that comes again, so a call   *)
(* is repeated only when its answer was lost before it was on disk         *)
(* (README.md:519, outbound-relay-agent.ts:87-116).                        *)
THEOREM NoCallIsRepeated == Spec => []NoRepeatedCall
<1>1. RelayInv => NoRepeatedCall
  BY DEF RelayInv, LedgerInv, NoRepeatedCall
<1> QED
  BY <1>1, RelayHolds, PTL

(* However leases run out and whichever agents poll, a call reaches the    *)
(* provider after those of the requests it found in the queue              *)
(* (connector-relay.service.ts:211-219).                                   *)
THEOREM NoCallOvertakes == Spec => []NoOvertaking
<1>1. RelayInv => NoOvertaking
  BY DEF RelayInv, ServedInv, Cleared, NoOvertaking
<1> QED
  BY <1>1, RelayHolds, PTL

(* A completed request is answered from the disk of an agent               *)
(* (outbound-relay-agent.ts:108-111, connector-relay.service.ts:281).      *)
THEOREM AnswersAreDurable == Spec => []AnswerIsDurable
<1>1. RelayInv => AnswerIsDurable
  BY DEF RelayInv
<1> QED
  BY <1>1, RelayHolds, PTL

(* The three together: what the relay promises a caller.                   *)
THEOREM CalledOnceAndInTurn == Spec => []CalledOnce
BY NoCallIsRepeated, NoCallOvertakes, AnswersAreDurable, PTL DEF CalledOnce

(* No late acknowledgement, from an expired lease or a second agent,       *)
(* replaces the answer of a completed request                              *)
(* (connector-relay.service.ts:262-264).                                   *)
THEOREM AnswersStay == Spec => OneAnswer
<1> DEFINE Step == \A o \in Operations :
                     request[o].status = "completed" => request'[o] = request[o]
<1>1. RelayInv /\ [Next]_vars => Step
  BY RowChanges, LineChanges, Advances DEF RelayInv, Advance
<1>2. OneAnswer <=> [][Step]_vars
  BY DEF OneAnswer
<1> HIDE DEF Step
<1> QED
  BY <1>1, <1>2, RelayHolds, PTL DEF Spec
=============================================================================
