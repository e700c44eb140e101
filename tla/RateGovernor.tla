---------------------------- MODULE RateGovernor ----------------------------
(***************************************************************************)
(* Admission of calls to one provider (connectors/rate-governor.ts).  Each *)
(* process bounds its open calls with a gate in memory; a row of the       *)
(* database, shared by all processes, holds the quota window and the load  *)
(* shedding: after enough consecutive pressure responses calls are refused *)
(* unsent, and when the shedding window is over one call is let through as *)
(* a probe.                                                                *)
(*                                                                         *)
(* Time is abstracted: the quota window, the shedding window and the lease *)
(* of a probe end at any moment.  A waiter that was woken runs after the   *)
(* callbacks that are already queued, so another call may come first.      *)
(***************************************************************************)
EXTENDS Naturals, Sequences, FiniteSets, Functions

CONSTANTS Processes,
          Calls,        \* callers, one call at a time each
          Home,         \* the process of each caller
          Limit,        \* maxConcurrent
          Quota,        \* calls in a window by the policy each process has cached
          Registered,   \* the same by the policy that was registered last
          Pressures,    \* shedAfterPressureResponses
          Budgets       \* bound: bags of the troubles that may happen together

Troubles == {"pressure", "error", "fault", "crash", "stall"}

VARIABLES gate,     \* per process: open calls, waiters, and those woken
          row,      \* integration_rate_governance
          call,     \* where each call is
          recent,   \* the last answers the row has recorded
          stolen,   \* processes in which a call overtook a woken waiter
          budget    \* trouble still to come

vars == <<gate, row, call, recent, stolen, budget>>

None == "none"
Fresh == [stage |-> "idle", probe |-> FALSE, epoch |-> 0, late |-> FALSE]
EmptyGate == [open |-> 0, waiters |-> << >>]
FreshRow == [since |-> FALSE, over |-> FALSE, probe |-> None, expired |-> FALSE,
             streak |-> 0, used |-> 0, quota |-> Registered, epoch |-> 0]

Suffer(kind) == budget[kind] > 0 /\ budget' = [budget EXCEPT ![kind] = @ - 1]
At(c, stage) == call[c].stage = stage
Goto(c, stage) == call' = [call EXCEPT ![c].stage = stage]
Woken(p) == {c \in Calls : Home[c] = p /\ At(c, "woken")}

(* sheddingState; epoch counts the pressure responses met while shedding.  *)
Shedding == row.since /\ ~row.over
Probing == row.since /\ row.over

Init == /\ gate = [p \in Processes |-> EmptyGate]
        /\ row = FreshRow
        /\ call = [c \in Calls |-> Fresh]
        /\ recent = << >>
        /\ stolen = {}
        /\ budget \in Budgets

-----------------------------------------------------------------------------
(***************************************************************************)
(* The gate of a process: acquireConcurrency.                              *)
(***************************************************************************)

HasSlotMutant(p) == gate[p].open <= Limit
HasSlot(p) == gate[p].open < Limit

Enter(c) ==
  LET p == Home[c] IN
  /\ At(c, "idle")
  /\ IF HasSlot(p)
       THEN /\ gate' = [gate EXCEPT ![p].open = @ + 1]
            /\ Goto(c, "quota")
            /\ stolen' = IF Woken(p) = {} THEN stolen ELSE stolen \cup {p}
       ELSE /\ gate' = [gate EXCEPT ![p].waiters = Append(@, c)]
            /\ Goto(c, "queued")
            /\ UNCHANGED stolen
  /\ UNCHANGED <<row, recent, budget>>

Resume(c) ==
  /\ At(c, "woken")
  /\ gate' = [gate EXCEPT ![Home[c]].open = @ + 1]
  /\ Goto(c, "quota")
  /\ UNCHANGED <<row, recent, stolen, budget>>

(* The call ends; its slot wakes the waiter that came first.               *)
LeaveMutant(c) ==
  /\ gate' = [gate EXCEPT ![Home[c]].open = @ - 1]
  /\ call' = [call EXCEPT ![c] = Fresh]

Leave(c) ==
  LET p == Home[c]
      wakes == gate[p].open - 1 < Limit /\ gate[p].waiters # << >>
  IN
  /\ gate' = [gate EXCEPT ![p].open = @ - 1,
                          ![p].waiters = IF wakes THEN Tail(@) ELSE @]
  /\ call' = [d \in Calls |-> IF d = c THEN Fresh
                              ELSE IF wakes /\ d = Head(gate[p].waiters)
                                THEN [call[d] EXCEPT !.stage = "woken"]
                              ELSE call[d]]

-----------------------------------------------------------------------------
(***************************************************************************)
(* The shared row: acquireQuota, in one transaction.                       *)
(***************************************************************************)

ProbeHeldMutant == FALSE
ProbeHeld == row.probe # None /\ ~row.expired

Refuse(c) ==
  /\ At(c, "quota")
  /\ Shedding \/ (Probing /\ ProbeHeld)
  /\ Leave(c)
  /\ UNCHANGED <<row, recent, stolen, budget>>

(* The row keeps the smaller of its quota and that of the process.         *)
Effective(c) == IF row.quota < Quota[Home[c]] THEN row.quota ELSE Quota[Home[c]]

Wait(c) ==
  /\ At(c, "quota")
  /\ ~(Shedding \/ (Probing /\ ProbeHeld)) /\ row.used >= Effective(c)
  /\ row' = [row EXCEPT !.quota = Effective(c)]
  /\ Goto(c, "sleeping")
  /\ UNCHANGED <<gate, recent, stolen, budget>>

Admit(c) ==
  /\ At(c, "quota")
  /\ ~(Shedding \/ (Probing /\ ProbeHeld)) /\ row.used < Effective(c)
  /\ row' = [row EXCEPT !.used = @ + 1,
                        !.quota = Effective(c),
                        !.probe = IF Probing THEN c ELSE @,
                        !.expired = IF Probing THEN FALSE ELSE @]
  /\ call' = [call EXCEPT ![c].stage = "calling", ![c].probe = Probing, ![c].epoch = row.epoch]
  /\ UNCHANGED <<gate, recent, stolen, budget>>

(* The quota window ends, and with it the sleep of those who wait for it.  *)
NewWindow ==
  /\ row.used > 0
  /\ row' = [row EXCEPT !.used = 0]
  /\ UNCHANGED <<gate, call, recent, stolen, budget>>

SleepEnds(c) ==
  /\ At(c, "sleeping") /\ row.used < Effective(c)
  /\ Goto(c, "quota")
  /\ UNCHANGED <<gate, row, recent, stolen, budget>>

ShedEnds ==
  /\ Shedding
  /\ row' = [row EXCEPT !.over = TRUE]
  /\ UNCHANGED <<gate, call, recent, stolen, budget>>

(* The lease of a probe ends: that of a live call only if it takes long.   *)
ProbeLives == row.probe \in Calls /\ call[row.probe].probe
ProbeExpires ==
  /\ ProbeHeld
  /\ IF ProbeLives THEN Suffer("stall") ELSE UNCHANGED budget
  /\ row' = [row EXCEPT !.expired = TRUE]
  /\ call' = [c \in Calls |-> IF c = row.probe /\ ProbeLives
                                THEN [call[c] EXCEPT !.late = TRUE] ELSE call[c]]
  /\ UNCHANGED <<gate, recent, stolen>>

-----------------------------------------------------------------------------
(***************************************************************************)
(* The provider's answer, recordSuccess and recordFailure.                 *)
(***************************************************************************)

Answer(c) ==
  /\ At(c, "calling")
  /\ \/ Goto(c, "ok") /\ UNCHANGED budget
     \/ Goto(c, "pressed") /\ Suffer("pressure")  \* 503, or a message of semaphores
     \/ Goto(c, "failed") /\ Suffer("error")
  /\ UNCHANGED <<gate, row, recent, stolen>>

Remember(answer) ==
  recent' = LET all == Append(recent, answer)
            IN IF Len(all) > Pressures THEN Tail(all) ELSE all

Succeed(c) ==
  /\ At(c, "ok")
  /\ row' = [row EXCEPT !.streak = 0]
  /\ Remember("ok")
  /\ IF call[c].probe THEN Goto(c, "closing") /\ UNCHANGED gate
                      ELSE Leave(c)
  /\ UNCHANGED <<stolen, budget>>

(* Only the admitted probe ends the shedding.                              *)
EndsSheddingMutant(c) == row.since
EndsShedding(c) == row.since /\ row.probe = c

CloseProbe(c) ==
  /\ At(c, "closing")
  /\ row' = IF EndsShedding(c)
              THEN [row EXCEPT !.since = FALSE, !.over = FALSE, !.probe = None, !.expired = FALSE]
              ELSE row
  /\ Leave(c)
  /\ UNCHANGED <<recent, stolen, budget>>

(* Every pressure response of a shedding target prolongs the window and    *)
(* takes the probe away, whoever met it.  Another failure gives the probe  *)
(* back.                                                                   *)
StreakMutant(c) == IF At(c, "pressed") THEN row.streak + 1 ELSE row.streak
Streak(c) == IF At(c, "pressed") THEN row.streak + 1 ELSE 0

Fail(c) ==
  /\ call[c].stage \in {"pressed", "failed"}
  /\ row' = IF At(c, "pressed") /\ (row.since \/ Streak(c) >= Pressures)
              THEN [row EXCEPT !.streak = Streak(c), !.since = TRUE, !.over = FALSE,
                               !.probe = None, !.expired = FALSE, !.epoch = @ + 1]
            ELSE IF call[c].probe /\ row.probe = c
              THEN [row EXCEPT !.streak = Streak(c), !.probe = None, !.expired = FALSE]
            ELSE [row EXCEPT !.streak = Streak(c)]
  /\ Remember(call[c].stage)
  /\ Leave(c)
  /\ UNCHANGED <<stolen, budget>>

-----------------------------------------------------------------------------
(* A query fails.  While a success is recorded, that makes the call a      *)
(* failure (execute catches it); elsewhere the call just ends.             *)
QueryFails(c) ==
  /\ Suffer("fault")
  /\ call[c].stage \in {"quota", "ok", "closing", "pressed", "failed"}
  /\ IF call[c].stage \in {"ok", "closing"}
       THEN Goto(c, "failed") /\ UNCHANGED gate
       ELSE Leave(c)
  /\ UNCHANGED <<row, recent, stolen>>

(* A process stops and starts again with an empty gate.                    *)
Crash(p) ==
  /\ \E c \in Calls : Home[c] = p /\ ~At(c, "idle")
  /\ Suffer("crash")
  /\ gate' = [gate EXCEPT ![p] = EmptyGate]
  /\ call' = [c \in Calls |-> IF Home[c] = p THEN Fresh ELSE call[c]]
  /\ UNCHANGED <<row, recent, stolen>>

-----------------------------------------------------------------------------
CallStep(c) == \/ Resume(c) \/ Refuse(c) \/ Wait(c) \/ Admit(c) \/ SleepEnds(c)
               \/ Answer(c) \/ Succeed(c) \/ CloseProbe(c) \/ Fail(c)

Next == \/ \E c \in Calls : Enter(c) \/ CallStep(c) \/ QueryFails(c)
        \/ \E p \in Processes : Crash(p)
        \/ NewWindow \/ ShedEnds \/ ProbeExpires

Spec == Init /\ [][Next]_vars

-----------------------------------------------------------------------------
(***************************************************************************)
(* Properties.                                                             *)
(***************************************************************************)

Open == {"quota", "sleeping", "calling", "ok", "closing", "pressed", "failed"}

(* The row holds values of the schema, calls stand at their awaits, and a  *)
(* gate counts the open calls of its process.                              *)
TypeOK ==
  /\ \A p \in Processes :
       /\ gate[p].open = Cardinality({c \in Calls : Home[c] = p /\ call[c].stage \in Open})
       /\ Range(gate[p].waiters) = {c \in Calls : Home[c] = p /\ At(c, "queued")}
  /\ row \in [since : BOOLEAN, over : BOOLEAN, probe : Calls \cup {None}, expired : BOOLEAN,
              streak : Nat, used : 0 .. Registered, quota : 1 .. Registered, epoch : Nat]
  /\ call \in [Calls -> [stage : Open \cup {"idle", "queued", "woken"}, probe : BOOLEAN,
                     epoch : Nat, late : BOOLEAN]]
  /\ budget \in [Troubles -> Nat]

(* rate-governor.ts:87: "the in-process gate bounds simultaneous sockets"; *)
(* it does unless a call takes the slot of a waiter that was woken and has *)
(* not run yet (234).                                                      *)
GateBoundsCalls == \A p \in Processes \ stolen : gate[p].open <= Limit

(* rate-governor.ts:90-92: shedding begins after so many consecutive calls *)
(* have met pressure; "one blip is retried per item as before".            *)
OpensUnderPressure ==
  [][row'.since /\ ~row.since =>
       Len(recent') = Pressures /\ \A i \in DOMAIN recent' : recent'[i] = "pressed"]_vars

(* rate-governor.ts:332: "a call sent before the window opened proves      *)
(* nothing": the call that ends the shedding was sent after the last       *)
(* pressure response the row knows of.                                     *)
ClosedByFreshProbe ==
  [][row.since /\ ~row'.since =>
       \E c \in Calls : At(c, "closing") /\ ~At(c, "closing")' /\ call[c].epoch = row.epoch]_vars

(* rate-governor.ts:264: one call probes at a time, in all processes: a    *)
(* second one is under way only after a pressure response or when the      *)
(* lease of the first ran out.                                             *)
OneProbe ==
  \A c, d \in Calls :
    call[c].probe /\ call[d].probe /\ call[c].epoch = call[d].epoch /\ ~call[c].late /\ ~call[d].late
    => c = d

(* A slot is never free while calls queue for it and none is on its way:   *)
(* every release wakes the waiter it makes room for (231-235), also after  *)
(* a theft has filled the gate beyond its limit.                           *)
NoForgottenWaiter ==
  \A p \in Processes :
    gate[p].waiters # << >> => gate[p].open + Cardinality(Woken(p)) >= Limit
=============================================================================
