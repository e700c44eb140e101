--------------------------- MODULE ConnectorRelay ---------------------------
(***************************************************************************)
(* Provider calls through an agent behind the customer's firewall          *)
(* (connectors/relay/).  A caller stores a request and waits for its       *)
(* answer; the agent polls for the oldest unfinished request, calls the    *)
(* provider, keeps the answer in a ledger of files and acknowledges it.    *)
(* Deliveries are leased: an agent that is slow, dead or locked out by a   *)
(* rotation of the token loses its delivery to the next poll.              *)
(*                                                                         *)
(* A lease is known by the agent that took it: a restarted agent remembers *)
(* no lease, so the identity of the lease tells no more.                   *)
(***************************************************************************)
EXTENDS Naturals, Sequences, FiniteSets, Functions

CONSTANTS Operations,  \* provider calls, one caller each
          Foreign,     \* those whose URL is outside the agent's target origin
          Agents,      \* agent processes of one relay, a ledger each
          Budgets      \* bound: sets of troubles that may happen together

Troubles == {"crash", "network", "disk", "lost", "stall", "rotate"}

VARIABLES request,   \* integration_relay_requests, by idempotency key
          drawn,     \* requests in the order of queue_position
          caller,    \* where each caller is
          agent,     \* where each agent is, and with what delivery
          token,     \* the registered token, and the one each agent has
          ledger,    \* per agent: the answers on its disk
          applied,   \* per agent: how often the provider took each operation
          mishap,    \* per agent: operations whose answer was lost before the ledger
          ahead,     \* requests visible when each one was submitted
          budget     \* trouble still to come

rows == <<request, drawn, ahead>>
agents == <<agent, token, ledger, applied, mishap>>
vars == <<rows, caller, agents, budget>>

Nobody == "nobody"
NoRequest == [status |-> "none", lease |-> Nobody, expired |-> FALSE, wait |-> FALSE,
              answer |-> 0]
Idle == [stage |-> "idle", delivery |-> Nobody]

(* Nobody is no operation and no agent.                                    *)
ASSUME NamesAssumption == Nobody \notin Operations \cup Agents
ASSUME BudgetAssumption == Budgets \subseteq SUBSET Troubles

Suffer(kind) == kind \in budget /\ budget' = budget \ {kind}
Visible == {o \in Operations : request[o].status # "none"}
Authorized(g) == token.held[g] = token.current

Init == /\ request = [o \in Operations |-> NoRequest]
        /\ drawn = << >>
        /\ caller = [o \in Operations |-> "idle"]
        /\ agent = [g \in Agents |-> Idle]
        /\ token = [current |-> 0, held |-> [g \in Agents |-> 0]]
        /\ ledger = [g \in Agents |-> [o \in Operations |-> 0]]
        /\ applied = [g \in Agents |-> [o \in Operations |-> 0]]
        /\ mishap = [g \in Agents |-> [o \in Operations |-> 0]]
        /\ ahead = [o \in Operations |-> {}]
        /\ budget \in Budgets

-----------------------------------------------------------------------------
(***************************************************************************)
(* The caller: request and waitForResponse.  Asking again after a timeout  *)
(* finds the row of the first attempt.                                     *)
(***************************************************************************)

Submit(o) ==
  /\ caller[o] = "idle"
  /\ IF o \in Range(drawn)
       THEN /\ caller' = [caller EXCEPT ![o] = "waiting"]
            /\ UNCHANGED <<drawn, ahead>>
       ELSE /\ caller' = [caller EXCEPT ![o] = "inserting"]
            /\ drawn' = Append(drawn, o)
            /\ ahead' = [ahead EXCEPT ![o] = Visible]
  /\ UNCHANGED <<request, agents, budget>>

(* The position was drawn by the statement that now becomes visible.       *)
Persist(o) ==
  /\ caller[o] = "inserting"
  /\ request' = [request EXCEPT ![o].status = "pending"]
  /\ caller' = [caller EXCEPT ![o] = "waiting"]
  /\ UNCHANGED <<drawn, ahead, agents, budget>>

ReadAnswer(o) ==
  /\ caller[o] = "waiting" /\ request[o].status = "completed"
  /\ caller' = [caller EXCEPT ![o] = "answered"]
  /\ UNCHANGED <<rows, agents, budget>>

(* The abort of requestJson after 15 s, the deadline of the wait, or the   *)
(* end of the process: the request stays in the queue.                     *)
StopWaiting(o) ==
  /\ caller[o] = "waiting"
  /\ caller' = [caller EXCEPT ![o] = "idle"]
  /\ UNCHANGED <<rows, agents, budget>>

-----------------------------------------------------------------------------
(***************************************************************************)
(* The control plane: poll and acknowledge.                                *)
(***************************************************************************)

OfferedMutant == {o \in Operations : request[o].status = "pending"}
Offered == {o \in Operations : request[o].status \in {"pending", "leased"}}
IsHead(o) == /\ o \in Offered
             /\ \E i \in DOMAIN drawn : /\ drawn[i] = o
                                       /\ \A j \in 1 .. (i - 1) : drawn[j] \notin Offered

(* The oldest unfinished request is delivered or none is.                  *)
Poll(g) ==
  /\ agent[g].stage = "idle" /\ Authorized(g)
  /\ \E head \in Operations :
       /\ IsHead(head) /\ ~request[head].wait
       /\ request[head].status = "leased" => request[head].expired
       /\ request' = [request EXCEPT ![head].status = "leased", ![head].lease = g,
                                     ![head].expired = FALSE]
       /\ agent' = [agent EXCEPT ![g] = [stage |-> "polled", delivery |-> head]]
  /\ UNCHANGED <<drawn, ahead, caller, token, ledger, applied, mishap, budget>>

(* A lease that has run out is still current until another poll takes it.  *)
CurrentMutant(g) == request[agent[g].delivery].status # "none"
Current(g) == LET r == request[agent[g].delivery] IN r.status = "leased" /\ r.lease = g

(* An answer of any HTTP status completes the request; an error returns it *)
(* to the queue with a backoff.  A repeated acknowledgement of a completed *)
(* request, and one that is no longer current, change nothing.             *)
Acknowledge(g) ==
  LET o == agent[g].delivery IN
  /\ agent[g].stage \in {"answering", "failing"}
  /\ request' = IF ~(Authorized(g) /\ Current(g)) THEN request
                ELSE IF agent[g].stage = "answering"
                  THEN [request EXCEPT ![o] = [NoRequest EXCEPT !.status = "completed",
                                                                !.answer = ledger[g][o]]]
                ELSE [request EXCEPT ![o] = [NoRequest EXCEPT !.status = "pending",
                                                              !.wait = TRUE]]
  /\ agent' = [agent EXCEPT ![g] = Idle]
  /\ UNCHANGED <<drawn, ahead, caller, token, ledger, applied, mishap, budget>>

(* The connection breaks before the acknowledgement arrives.               *)
LoseAck(g) ==
  /\ agent[g].stage \in {"answering", "failing"}
  /\ Suffer("lost")
  /\ agent' = [agent EXCEPT ![g] = Idle]
  /\ UNCHANGED <<rows, caller, token, ledger, applied, mishap>>

BackoffEnds(o) ==
  /\ request[o].wait
  /\ request' = [request EXCEPT ![o].wait = FALSE]
  /\ UNCHANGED <<drawn, ahead, caller, agents, budget>>

(* The lease of an agent at work runs out only if it is slow.              *)
Working(o) == \E g \in Agents : agent[g].delivery = o /\ request[o].lease = g
LeaseEndsMutant(o) ==
  /\ request[o].status = "leased"
  /\ request' = [request EXCEPT ![o].status = "pending"]
  /\ UNCHANGED <<drawn, ahead, caller, agents, budget>>

LeaseEnds(o) ==
  /\ request[o].status = "leased" /\ ~request[o].expired
  /\ IF Working(o) THEN Suffer("stall") ELSE UNCHANGED budget
  /\ request' = [request EXCEPT ![o].expired = TRUE]
  /\ UNCHANGED <<drawn, ahead, caller, agents>>

(* provision: the operator draws a new token, then gives it to the agents, *)
(* which start again with it.                                              *)
Provision ==
  /\ Suffer("rotate")
  /\ token' = [token EXCEPT !.current = @ + 1]
  /\ UNCHANGED <<rows, caller, agent, ledger, applied, mishap>>

Reconfigure(g) ==
  /\ ~Authorized(g) /\ agent[g].stage = "idle"
  /\ token' = [token EXCEPT !.held[g] = token.current]
  /\ UNCHANGED <<rows, caller, agent, ledger, applied, mishap, budget>>

-----------------------------------------------------------------------------
(***************************************************************************)
(* The agent: runOnce.                                                     *)
(***************************************************************************)

At(g, stage) == agent[g].stage = stage
Goto(g, stage) == agent' = [agent EXCEPT ![g].stage = stage]
Known(g) == ledger[g][agent[g].delivery] > 0

ConsultLedgerMutant(g) ==
  /\ At(g, "polled")
  /\ Goto(g, IF agent[g].delivery \in Foreign THEN "failing" ELSE "calling")
  /\ UNCHANGED <<rows, caller, token, ledger, applied, mishap, budget>>

ConsultLedger(g) ==
  /\ At(g, "polled")
  /\ Goto(g, IF agent[g].delivery \in Foreign THEN "failing"
             ELSE IF Known(g) THEN "answering" ELSE "calling")
  /\ UNCHANGED <<rows, caller, token, ledger, applied, mishap, budget>>

CallTarget(g) ==
  LET o == agent[g].delivery IN
  /\ At(g, "calling")
  /\ applied' = [applied EXCEPT ![g][o] = @ + 1]
  /\ Goto(g, "storing")
  /\ UNCHANGED <<rows, caller, token, ledger, mishap, budget>>

(* The network fails before or after the provider has done its work.       *)
CallFails(g) ==
  LET o == agent[g].delivery IN
  /\ At(g, "calling")
  /\ Suffer("network")
  /\ \/ UNCHANGED <<applied, mishap>>
     \/ /\ applied' = [applied EXCEPT ![g][o] = @ + 1]
        /\ mishap' = [mishap EXCEPT ![g][o] = @ + 1]
  /\ Goto(g, "failing")
  /\ UNCHANGED <<rows, caller, token, ledger>>

(* RelayExecutionLedger.put: a temporary file, fsync and rename.           *)
StoreMutant(g) ==
  /\ At(g, "storing")
  /\ Goto(g, "answering")
  /\ UNCHANGED <<rows, caller, token, ledger, applied, mishap, budget>>

Store(g) ==
  LET o == agent[g].delivery IN
  /\ At(g, "storing")
  /\ ledger' = [ledger EXCEPT ![g][o] = applied[g][o]]
  /\ Goto(g, "answering")
  /\ UNCHANGED <<rows, caller, token, applied, mishap, budget>>

(* put is inside the try of the call: a full disk is acknowledged as a     *)
(* network error.                                                          *)
StoreFails(g) ==
  /\ At(g, "storing")
  /\ Suffer("disk")
  /\ mishap' = [mishap EXCEPT ![g][agent[g].delivery] = @ + 1]
  /\ Goto(g, "failing")
  /\ UNCHANGED <<rows, caller, token, ledger, applied>>

Crash(g) ==
  /\ ~At(g, "idle")
  /\ Suffer("crash")
  /\ mishap' = IF At(g, "storing") THEN [mishap EXCEPT ![g][agent[g].delivery] = @ + 1]
                                   ELSE mishap
  /\ agent' = [agent EXCEPT ![g] = Idle]
  /\ UNCHANGED <<rows, caller, token, ledger, applied>>

-----------------------------------------------------------------------------
AgentStep(g) == ConsultLedger(g) \/ CallTarget(g) \/ Store(g) \/ Acknowledge(g)

Next == \/ \E o \in Operations : \/ Submit(o) \/ Persist(o) \/ ReadAnswer(o) \/ StopWaiting(o)
                                 \/ BackoffEnds(o) \/ LeaseEnds(o)
        \/ \E g \in Agents : \/ Poll(g) \/ LoseAck(g) \/ Reconfigure(g) \/ AgentStep(g)
                             \/ CallFails(g) \/ StoreFails(g) \/ Crash(g)
        \/ Provision

Spec == Init /\ [][Next]_vars

-----------------------------------------------------------------------------
(***************************************************************************)
(* Properties.                                                             *)
(***************************************************************************)

(* Rows, agents and callers hold values of their types.                    *)
TypeOK ==
  /\ request \in [Operations -> [status : {"none", "pending", "leased", "completed"},
                                 lease : Agents \cup {Nobody}, expired : BOOLEAN,
                                 wait : BOOLEAN, answer : Nat]]
  /\ \A o \in Operations : request[o].status = "leased" <=> request[o].lease # Nobody
  /\ IsInjective(drawn) /\ Visible \subseteq Range(drawn)
  /\ \A g \in Agents : At(g, "idle") <=> agent[g].delivery = Nobody
  /\ token.current \in Nat /\ budget \subseteq Troubles

(* README.md:519: a delivery whose answer reached the ledger "is           *)
(* acknowledged from that ledger without another provider call": an agent  *)
(* repeats a call only after an answer was lost before it was on disk.     *)
NoRepeatedCall ==
  \A g \in Agents, o \in Operations : applied[g][o] <= 1 + mishap[g][o]

(* README.md:519: "a disconnect cannot let later work overtake it": a call *)
(* reaches the provider only when every request that was in the queue      *)
(* before it was submitted is done, whatever leases have run out.          *)
NoOvertaking ==
  \A g \in Agents, o \in Operations :
    applied[g][o] > 0 => \A p \in ahead[o] : request[p].status = "completed"

(* connector-relay.service.ts:148: an operation has one answer: a late     *)
(* acknowledgement, of an expired lease or from a second agent, does not   *)
(* replace it, so every attempt of the caller reads the same.              *)
OneAnswer ==
  [][\A o \in Operations : request[o].status = "completed" => request'[o] = request[o]]_vars

(* The answer a caller reads is one the provider gave, and the agent that  *)
(* gave it has it on disk: no acknowledgement ran ahead of the ledger.     *)
AnswerIsDurable ==
  \A o \in Operations :
    request[o].status = "completed" =>
      request[o].answer > 0 /\ \E g \in Agents : ledger[g][o] = request[o].answer

(* What the relay promises a caller: its operation is called in its turn   *)
(* (connector-relay.service.ts:216), not again once its answer was on disk *)
(* (outbound-relay-agent.ts:87), and the answer is kept.                   *)
CalledOnce == NoRepeatedCall /\ NoOvertaking /\ AnswerIsDurable
=============================================================================
