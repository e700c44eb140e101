------------------------ MODULE EventBackboneProofs -------------------------
(***************************************************************************)
(* Machine-checked theorems about EventBackbone, for every set of tasks    *)
(* and events, every list of consumers and every bound; the last three for *)
(* a single replica, because the start of a second one re-opens the claims *)
(* of the first (the run events_replicas).                                 *)
(*                                                                         *)
(* The argument.  A task that stands at a pair of a consumer and an event  *)
(* stands there with the right to (Positioned): a forced one found a dead  *)
(* letter, which is never removed, so from then on the pair is Overridden. *)
(* Elsewhere a claim has one owner, and its status says that it is taken   *)
(* (Claims).  Before anything goes wrong, a pair that may be claimed has   *)
(* not been handled (Fresh).  And what a delivery has passed is covered -  *)
(* processed, dead-lettered or in somebody's hands - except the orphans    *)
(* and one pair for each failed query (LossInv).                           *)
(***************************************************************************)
EXTENDS EventBackbone, TLAPS, FiniteSetTheorems

(* The stages between a won claim and the end of it: an owner that is      *)
(* about to write the dead letter has given the claim up already.          *)
Serving == {"handle", "mark", "clear", "markFailed"}
Placed == Owning \cup {"claim", "report"}

(* An operator's replay may be at work on the pair: it has a dead letter,  *)
(* and an entry is never removed.                                          *)
Touched(c, e) == deadLetters[c][e] # "none"
Overridden(c, e) == replays > 0 /\ Touched(c, e)

(* Where a task is.                                                        *)
Standing(t) ==
  /\ task[t].stage # "idle" => t[1] \in up
  /\ task[t].stage \in {"select", "next"} => t[2] = Recovery
  /\ task[t].stage \in Placed => task[t].con \in ConsumerIds /\ task[t].ev \in Events
  /\ task[t].stage = "settle" => task[t].ev \in Events /\ ~Forced(t)
  /\ task[t].stage = "report" => Forced(t)
  /\ Forced(t) /\ task[t].stage # "idle" =>
       /\ task[t].con \in ConsumerIds /\ task[t].ev \in Events
       /\ Overridden(task[t].con, task[t].ev)

Positioned == \A t \in Tasks : Standing(t)

Holds(t) == LET c == task[t].con
                e == task[t].ev
            IN  consumption[c][e] \in {"processing", "processed"} \/ Overridden(c, e)

(* A claim has one owner, unless an operator took it by force.             *)
Owns(t) == /\ task[t].stage \in Serving => Holds(t)
           /\ task[t].stage = "clear" =>
                \/ consumption[task[t].con][task[t].ev] = "processed"
                \/ Overridden(task[t].con, task[t].ev)

Meet(t, u) == /\ task[t].stage \in Serving /\ task[u].stage \in Serving
              /\ task[t].con = task[u].con /\ task[t].ev = task[u].ev

Claims == /\ \A t \in Tasks : Owns(t)
          /\ \A t, u \in Tasks : t # u /\ Meet(t, u) => Overridden(task[t].con, task[t].ev)

(* Nothing has gone wrong yet: a pair that may still be claimed was not    *)
(* handled, and its owner has not handled it before it says so.            *)
Calm == crashes = 0 /\ faults = 0 /\ replays = 0
Fresh ==
  Calm =>
    /\ \A c \in ConsumerIds, e \in Events :
         /\ consumption[c][e] \in {"none", "failed"} => handled[c][e] = 0
         /\ handled[c][e] <= 1
         /\ up = {} => consumption[c][e] = "none"
    /\ \A t \in Tasks : task[t].stage \in {"handle", "markFailed"} =>
         handled[task[t].con][task[t].ev] = 0

(* A pair is lost when the delivery has passed it and nothing is left that *)
(* would handle it.                                                        *)
Covered(c, e) == consumption[c][e] = "processed" \/ Touched(c, e) \/ InFlight(c, e)
Passes(t, c, e) == /\ ~Forced(t)
                   /\ task[t].ev = e
                   /\ \/ task[t].stage = "settle"
                      \/ task[t].stage \in Owning \cup {"claim"} /\ c < task[t].con
Passed(c, e) == outbox[e] = "dispatched" \/ \E t \in Tasks : Passes(t, c, e)
Left(c, e) == consumption[c][e] = "processing" /\ up # {}
LostPair(c, e) == /\ <<c, e>> \notin orphans
                  /\ ~Covered(c, e)
                  /\ Passed(c, e) \/ Left(c, e)
Lost == {p \in ConsumerIds \X Events : LostPair(p[1], p[2])}
LossInv == IsFiniteSet(Lost) /\ Cardinality(Lost) <= faults

IInv == TypeOK /\ Positioned /\ Claims /\ Fresh /\ LossInv

-----------------------------------------------------------------------------
(* The first theorem: the types.                                           *)

(* Facts about the parameters and the records of tasks.                    *)
LEMMA Parameters == /\ Len(Consumers) \in Nat /\ Len(Consumers) > 0
                    /\ ConsumerIds \subseteq Nat
                    /\ 1 \in ConsumerIds
                    /\ MaxAttempts \in Nat /\ MaxAttempts > 0
  BY ConsumerAssumption, AttemptAssumption DEF ConsumerIds

(* Where a task goes after a failed attempt, and after a consumer.         *)
LEMMA FailAttemptType ==
  ASSUME TypeOK, NEW t \in Tasks, FailAttempt(t)
  PROVE  task' \in [Tasks -> TaskType]
<1>1. task[t] \in TaskType
  BY DEF TypeOK
<1>2. (task[t].attempt < MaxAttempts) => task[t].attempt + 1 \in 0 .. MaxAttempts
  BY <1>1, Parameters DEF TaskType, Owning
<1>3. (IF task[t].attempt < MaxAttempts
         THEN [task[t] EXCEPT !.stage = "handle", !.attempt = task[t].attempt + 1]
         ELSE [task[t] EXCEPT !.stage = "markFailed"]) \in TaskType
  BY <1>1, <1>2 DEF TaskType, Owning
<1> QED
  BY <1>3 DEF TypeOK, FailAttempt

LEMMA AfterConsumerType ==
  ASSUME TypeOK, NEW t \in Tasks, NEW ok \in BOOLEAN, AfterConsumer(t, ok)
  PROVE  task' \in [Tasks -> TaskType]
<1>1. task[t] \in TaskType
  BY DEF TypeOK
<1>2. 0 \in 0 .. MaxAttempts
  BY Parameters
<1>3. [task[t] EXCEPT !.stage = "report", !.ok = ok] \in TaskType
  BY <1>1 DEF TaskType
<1>4. ASSUME task[t].con < Len(Consumers)
      PROVE  [task[t] EXCEPT !.stage = "claim", !.con = task[t].con + 1, !.attempt = 0] \in TaskType
  <2>1. task[t].con + 1 \in 0 .. Len(Consumers)
    BY <1>1, <1>4, Parameters DEF TaskType
  <2> QED
    BY <1>1, <1>2, <2>1 DEF TaskType
<1>5. [task[t] EXCEPT !.stage = "settle", !.attempt = 0] \in TaskType
  BY <1>1, <1>2 DEF TaskType
<1> QED
  BY <1>3, <1>4, <1>5 DEF TypeOK, AfterConsumer

LEMMA DeliverType ==
  ASSUME TypeOK, NEW t \in Tasks, NEW e \in Events, Deliver(t, e)
  PROVE  task' \in [Tasks -> TaskType]
<1>1. [stage |-> "claim", ev |-> e, con |-> 1, attempt |-> 0, ok |-> FALSE] \in TaskType
  BY Parameters DEF TaskType
<1> QED
  BY <1>1 DEF TypeOK, Deliver

LEMMA MoveType ==
  ASSUME TypeOK, NEW t \in Tasks,
         NEW s \in Owning \cup {"idle", "select", "next", "claim", "settle", "report"},
         Move(t, s)
  PROVE  task' \in [Tasks -> TaskType]
<1>1. task[t] \in TaskType
  BY DEF TypeOK
<1>2. [task[t] EXCEPT !.stage = s] \in TaskType
  BY <1>1 DEF TaskType
<1> QED
  BY <1>2 DEF TypeOK, Move

LEMMA IdleType == Idle \in TaskType /\ [Idle EXCEPT !.stage = "next"] \in TaskType
<1>1. 0 \in 0 .. MaxAttempts /\ 0 \in 0 .. Len(Consumers)
  BY Parameters
<1> QED
  BY <1>1 DEF Idle, TaskType

LEMMA SettledType ==
  ASSUME TypeOK, NEW t \in Tasks, Settled(t)
  PROVE  task' \in [Tasks -> TaskType]
  BY IdleType DEF TypeOK, Settled

LEMMA TypeInit == Init => TypeOK
<1> SUFFICES ASSUME Init PROVE TypeOK
  OBVIOUS
<1>1. task \in [Tasks -> TaskType]
  BY IdleType DEF Init
<1>2. 0 \in 0 .. RecoveryPasses /\ 0 \in 0 .. MaxCrashes /\ 0 \in 0 .. MaxFaults /\ 0 \in 0 .. MaxReplays
  BY RecoveryAssumption, BoundAssumption
<1> QED
  BY <1>1, <1>2 DEF Init, TypeOK

LEMMA TypeNext == TypeOK /\ Positioned /\ [Next]_vars => TypeOK'
<1> SUFFICES ASSUME TypeOK, Positioned, [Next]_vars PROVE TypeOK'
  OBVIOUS
<1> USE DEF tables, boot, history, budget
<1>1. ASSUME NEW t \in Tasks, Claim(t) PROVE TypeOK'
  <2>1. CASE Claimable(t, consumption[task[t].con][task[t].ev])
    <3>1. task[t] \in TaskType
      BY DEF TypeOK
    <3>2. 1 \in 0 .. MaxAttempts
      BY Parameters
    <3>3. [task[t] EXCEPT !.stage = "handle", !.attempt = 1] \in TaskType
      BY <3>1, <3>2 DEF TaskType, Owning
    <3>4. task' \in [Tasks -> TaskType]
      BY <2>1, <1>1, <3>3 DEF Claim, TypeOK
    <3>5. consumption' = [consumption EXCEPT ![task[t].con][task[t].ev] = "processing"]
      BY <2>1, <1>1 DEF Claim
    <3>6. consumption' \in [ConsumerIds -> [Events -> {"none", "processing", "processed", "failed"}]]
      BY <3>5 DEF TypeOK
    <3> QED
      BY <2>1, <1>1, <3>4, <3>6 DEF Claim, TypeOK
  <2>2. CASE ~Claimable(t, consumption[task[t].con][task[t].ev])
    <3>1. task' \in [Tasks -> TaskType]
      BY <2>2, <1>1, AfterConsumerType DEF Claim
    <3> QED
      BY <2>2, <1>1, <3>1 DEF Claim, TypeOK
  <2> QED
    BY <2>1, <2>2
<1>2. ASSUME NEW t \in Tasks, HandlerSucceeds(t) PROVE TypeOK'
  <2>1. task' \in [Tasks -> TaskType]
    BY <1>2, MoveType DEF HandlerSucceeds, Owning
  <2>2. handled' \in [ConsumerIds -> [Events -> 0 .. 2]]
    <3>1. \A h \in 0 .. 2 : (IF h < 2 THEN h + 1 ELSE h) \in 0 .. 2
      OBVIOUS
    <3>2. task[t].con \in ConsumerIds /\ task[t].ev \in Events
      BY <1>2 DEF HandlerSucceeds, Positioned, Standing, Placed, Owning
    <3>3. handled[task[t].con][task[t].ev] \in 0 .. 2
      BY <3>2 DEF TypeOK
    <3> QED
      BY <1>2, <3>1, <3>2, <3>3 DEF HandlerSucceeds, TypeOK
  <2> QED
    BY <1>2, <2>1, <2>2 DEF HandlerSucceeds, TypeOK
<1>3. ASSUME NEW t \in Tasks, HandlerThrows(t) PROVE TypeOK'
  BY <1>3, FailAttemptType DEF HandlerThrows, TypeOK
<1>4. ASSUME NEW t \in Tasks, MarkProcessed(t) PROVE TypeOK'
  <2>1. task' \in [Tasks -> TaskType]
    BY <1>4, MoveType DEF MarkProcessed, Owning
  <2> QED
    BY <1>4, <2>1 DEF MarkProcessed, TypeOK
<1>5. ASSUME NEW t \in Tasks, ClearDeadLetter(t) PROVE TypeOK'
  BY <1>5, AfterConsumerType, ZenonT(30) DEF ClearDeadLetter, TypeOK
<1>6. ASSUME NEW t \in Tasks, MarkFailed(t) PROVE TypeOK'
  <2>1. task' \in [Tasks -> TaskType]
    BY <1>6, MoveType DEF MarkFailed, Owning
  <2> QED
    BY <1>6, <2>1 DEF MarkFailed, TypeOK
<1>7. ASSUME NEW t \in Tasks, DeadLetter(t) PROVE TypeOK'
  BY <1>7, AfterConsumerType DEF DeadLetter, TypeOK
<1>8. ASSUME NEW t \in Tasks, Settle(t) PROVE TypeOK'
  BY <1>8, SettledType DEF Settle, TypeOK
<1>9. ASSUME NEW t \in Tasks, ReportReplay(t) PROVE TypeOK'
  BY <1>9, IdleType DEF ReportReplay, TypeOK
<1>10. ASSUME NEW t \in Tasks, QueryFails(t) PROVE TypeOK'
  <2>1. task' \in [Tasks -> TaskType]
    BY <1>10, FailAttemptType, AfterConsumerType, SettledType, IdleType DEF QueryFails, EndDispatch, TypeOK
  <2>2. outbox' \in [Events -> {"none", "pending", "dispatched"}]
    BY <1>10 DEF QueryFails, TypeOK
  <2>3. faults' \in 0 .. MaxFaults
    BY <1>10, BoundAssumption DEF QueryFails, TypeOK
  <2> QED
    BY <1>10, <2>1, <2>2, <2>3 DEF QueryFails, TypeOK
<1>11. ASSUME NEW t \in Tasks, NEW e \in Events, CommitMutation(t, e) PROVE TypeOK'
  <2>1. task' \in [Tasks -> TaskType]
    BY <1>11, DeliverType DEF CommitMutation
  <2>2. PICK i \in 0 .. Len(created) :
          created' = SubSeq(created, 1, i) \o <<e>> \o SubSeq(created, i + 1, Len(created))
    BY <1>11 DEF CommitMutation
  <2>3. /\ SubSeq(created, 1, i) \in Seq(Events)
        /\ <<e>> \in Seq(Events)
        /\ SubSeq(created, i + 1, Len(created)) \in Seq(Events)
    BY <2>2 DEF TypeOK
  <2>4. created' \in Seq(Events)
    BY <2>2, <2>3
  <2> QED
    BY <1>11, <2>1, <2>4 DEF CommitMutation, TypeOK
<1>12. ASSUME NEW t \in Tasks, NEW c \in ConsumerIds, NEW e \in Events, Replay(t, c, e)
       PROVE  TypeOK'
  <2>1. 0 \in 0 .. MaxAttempts /\ c \in 0 .. Len(Consumers)
    BY Parameters DEF ConsumerIds
  <2>2. [stage |-> "claim", ev |-> e, con |-> c, attempt |-> 0, ok |-> FALSE] \in TaskType
    BY <2>1 DEF TaskType
  <2>3. task' \in [Tasks -> TaskType]
    BY <1>12, <2>2 DEF Replay, TypeOK
  <2>4. replays' \in 0 .. MaxReplays
    BY <1>12, BoundAssumption DEF Replay, TypeOK
  <2> QED
    BY <1>12, <2>3, <2>4 DEF Replay, TypeOK
<1>13. ASSUME NEW r \in Replicas, Start(r) PROVE TypeOK'
  <2>1. task' \in [Tasks -> TaskType]
    <3>1. <<r, Recovery>> \in Tasks
      BY DEF Tasks
    <3> QED
      BY <3>1, <1>13, MoveType DEF Start, Move
  <2>2. \A s \in {"none", "processing", "processed", "failed"} :
          Reclaimed(s) \in {"none", "processing", "processed", "failed"}
    BY DEF Reclaimed
  <2>3. consumption' \in [ConsumerIds -> [Events -> {"none", "processing", "processed", "failed"}]]
    BY <1>13, <2>2 DEF Start, TypeOK
  <2>4. RecoveryPasses - 1 \in 0 .. RecoveryPasses
    BY RecoveryAssumption
  <2>5. pass' \in [Replicas -> 0 .. RecoveryPasses]
    BY <1>13, <2>4 DEF Start, TypeOK
  <2> QED
    BY <1>13, <2>1, <2>3, <2>5 DEF Start, TypeOK
<1>14. ASSUME NEW r \in Replicas, SelectPending(r) PROVE TypeOK'
  <2>1. <<r, Recovery>> \in Tasks
    BY DEF Tasks
  <2>2. task' \in [Tasks -> TaskType]
    BY <1>14, <2>1, MoveType DEF SelectPending
  <2>3. Limited(Pending) \subseteq Events
    BY DEF Limited, Pending
  <2> QED
    BY <1>14, <2>2, <2>3 DEF SelectPending, TypeOK
<1>15. ASSUME NEW r \in Replicas, NextPending(r) PROVE TypeOK'
  <2>1. <<r, Recovery>> \in Tasks
    BY DEF Tasks
  <2>2. \A e \in todo[r] : e \in Events
    BY DEF TypeOK
  <2>3. task' \in [Tasks -> TaskType]
    BY <1>15, <2>1, <2>2, MoveType, DeliverType, IdleType DEF NextPending, TypeOK
  <2>4. todo' \in [Replicas -> SUBSET Events]
    BY <1>15, ZenonT(30) DEF NextPending, TypeOK
  <2>5. pass' \in [Replicas -> 0 .. RecoveryPasses]
    BY <1>15, RecoveryAssumption DEF NextPending, TypeOK
  <2> QED
    BY <1>15, <2>3, <2>4, <2>5 DEF NextPending, TypeOK
<1>16. ASSUME NEW r \in Replicas, Crash(r) PROVE TypeOK'
  <2>1. task' \in [Tasks -> TaskType]
    BY <1>16, IdleType DEF Crash, TypeOK
  <2>2. crashes' \in 0 .. MaxCrashes
    BY <1>16, BoundAssumption DEF Crash, TypeOK
  <2>3. \A t \in Tasks : task[t].stage \in Owning => <<task[t].con, task[t].ev>> \in ConsumerIds \X Events
    BY DEF Positioned, Standing, Placed
  <2>5. orphans' \subseteq ConsumerIds \X Events
    BY <1>16, <2>3 DEF Crash, TypeOK
  <2>4. pass' \in [Replicas -> 0 .. RecoveryPasses]
    BY <1>16, RecoveryAssumption DEF Crash, TypeOK
  <2> QED
    BY <1>16, <2>1, <2>2, <2>4, <2>5 DEF Crash, TypeOK
<1>17. ASSUME NEW c \in ConsumerIds, NEW e \in Events, Discard(c, e) PROVE TypeOK'
  BY <1>17 DEF Discard, TypeOK
<1>18. CASE UNCHANGED vars
  BY <1>18 DEF TypeOK, vars
<1> QED
  BY <1>1, <1>2, <1>3, <1>4, <1>5, <1>6, <1>7, <1>8, <1>9, <1>10, <1>11, <1>12, <1>13, <1>14,
     <1>15, <1>16, <1>17, <1>18 DEF Next, TaskStep, RecoveryStep


-----------------------------------------------------------------------------
(* Where a step leads a task; every other task stays where it is.          *)
Others(t) == \A u \in Tasks \ {t} : task'[u] = task[u]
SamePlace(t) == task'[t].con = task[t].con /\ task'[t].ev = task[t].ev

LEMMA AfterConsumerPlace ==
  ASSUME TypeOK, NEW t \in Tasks, NEW ok \in BOOLEAN, AfterConsumer(t, ok)
  PROVE  /\ Others(t)
         /\ task'[t].ev = task[t].ev
         /\ Forced(t) => task'[t].stage = "report" /\ SamePlace(t)
         /\ ~Forced(t) /\ task[t].con < Len(Consumers) =>
              task'[t].stage = "claim" /\ task'[t].con = task[t].con + 1
         /\ ~Forced(t) /\ ~(task[t].con < Len(Consumers)) =>
              task'[t].stage = "settle" /\ SamePlace(t)
  BY DEF TypeOK, TaskType, AfterConsumer, Others, SamePlace

LEMMA FailAttemptPlace ==
  ASSUME TypeOK, NEW t \in Tasks, FailAttempt(t)
  PROVE  Others(t) /\ SamePlace(t) /\ task'[t].stage \in {"handle", "markFailed"}
  BY DEF TypeOK, TaskType, FailAttempt, Others, SamePlace

LEMMA DeliverPlace ==
  ASSUME TypeOK, NEW t \in Tasks, NEW e \in Events, Deliver(t, e)
  PROVE  Others(t) /\ task'[t].stage = "claim" /\ task'[t].con = 1 /\ task'[t].ev = e
  BY DEF TypeOK, Deliver, Others

LEMMA MovePlace ==
  ASSUME TypeOK, NEW t \in Tasks, NEW s, Move(t, s)
  PROVE  Others(t) /\ SamePlace(t) /\ task'[t].stage = s
  BY DEF TypeOK, TaskType, Move, Others, SamePlace

LEMMA SettledPlace ==
  ASSUME TypeOK, NEW t \in Tasks, Settled(t)
  PROVE  /\ Others(t)
         /\ task'[t].stage \in {"idle", "next"}
         /\ task'[t].stage = "next" => t[2] = Recovery
  BY DEF TypeOK, Settled, Idle, Others

(* A claim is won, or the task goes on without it.                         *)
LEMMA ClaimPlace ==
  ASSUME TypeOK, NEW t \in Tasks, Claim(t)
  PROVE  \/ /\ Claimable(t, consumption[task[t].con][task[t].ev])
            /\ Others(t) /\ SamePlace(t) /\ task'[t].stage = "handle"
            /\ consumption' = [consumption EXCEPT ![task[t].con][task[t].ev] = "processing"]
         \/ /\ ~Claimable(t, consumption[task[t].con][task[t].ev])
            /\ AfterConsumer(t, FALSE)
            /\ UNCHANGED consumption
<1>1. task[t] \in TaskType
  BY DEF TypeOK
<1>2. CASE Claimable(t, consumption[task[t].con][task[t].ev])
  <2>1. task' = [task EXCEPT ![t] = [task[t] EXCEPT !.stage = "handle", !.attempt = 1]]
    BY <1>2 DEF Claim, TypeOK
  <2>2. Others(t) /\ task'[t] = [task[t] EXCEPT !.stage = "handle", !.attempt = 1]
    BY <2>1 DEF Others, TypeOK
  <2> QED
    BY <1>1, <1>2, <2>2 DEF Claim, SamePlace, TaskType
<1>3. CASE ~Claimable(t, consumption[task[t].con][task[t].ev])
  BY <1>3 DEF Claim
<1> QED
  BY <1>2, <1>3

LEMMA RecoveryTask == \A r \in Replicas : /\ <<r, Recovery>> \in Tasks
                                          /\ <<r, Recovery>>[1] = r
                                          /\ <<r, Recovery>>[2] = Recovery
                                          /\ ~Forced(<<r, Recovery>>)
  BY TaskAssumption DEF Tasks, Forced

LEMMA PublisherTask == \A t \in Tasks : t[2] \in Publishers => ~Forced(t)
  BY TaskAssumption DEF Forced

LEMMA RecoveryPlace ==
  ASSUME TypeOK, NEW r \in Replicas, RecoveryStep(r)
  PROVE  /\ Others(<<r, Recovery>>)
         /\ task'[<<r, Recovery>>].stage \in {"select", "next", "claim", "idle"}
         /\ task'[<<r, Recovery>>].stage = "claim" => task'[<<r, Recovery>>].con = 1
<1> DEFINE t == <<r, Recovery>>
<1>1. t \in Tasks
  BY RecoveryTask
<1>2. \/ Move(t, "select") \/ Move(t, "next")
      \/ \E e \in Events : Deliver(t, e)
      \/ task' = [task EXCEPT ![t] = Idle]
  BY DEF RecoveryStep, SelectPending, NextPending, TypeOK
<1>3. CASE Move(t, "select") \/ Move(t, "next")
  BY <1>1, <1>3, MovePlace
<1>4. ASSUME NEW e \in Events, Deliver(t, e) 
      PROVE  Others(t) /\ task'[t].stage = "claim" /\ task'[t].con = 1
  BY <1>1, <1>4, DeliverPlace
<1>5. CASE task' = [task EXCEPT ![t] = Idle]
  BY <1>1, <1>5 DEF Others, Idle, TypeOK
<1> QED
  BY <1>2, <1>3, <1>4, <1>5

(* No step takes an entry out of dead_letter_events.                       *)
LEMMA EntriesStay ==
  ASSUME TypeOK, Next
  PROVE  \A c \in ConsumerIds, e \in Events :
           /\ Touched(c, e) => Touched(c, e)'
           /\ Overridden(c, e) => Overridden(c, e)'
<1>1. ASSUME NEW c \in ConsumerIds, NEW e \in Events, Touched(c, e)
      PROVE  Touched(c, e)'
  <2> USE DEF tables, boot, history, budget, Touched
  <2>1. ASSUME NEW t \in Tasks, TaskStep(t) PROVE Touched(c, e)'
    <3>1. CASE ClearDeadLetter(t)
      BY <1>1, <3>1 DEF ClearDeadLetter, TypeOK
    <3>2. CASE DeadLetter(t)
      BY <1>1, <3>2 DEF DeadLetter, TypeOK
    <3>3. CASE ReportReplay(t)
      BY <1>1, <3>3 DEF ReportReplay, TypeOK
    <3>4. CASE UNCHANGED deadLetters
      BY <1>1, <3>4
    <3> QED
      BY <2>1, <3>1, <3>2, <3>3, <3>4
         DEF TaskStep, Claim, HandlerSucceeds, HandlerThrows, MarkProcessed, MarkFailed, Settle
  <2>2. ASSUME NEW t \in Tasks, QueryFails(t) PROVE Touched(c, e)'
    BY <1>1, <2>2 DEF QueryFails
  <2>3. ASSUME NEW t \in Tasks, NEW d \in Events, CommitMutation(t, d) PROVE Touched(c, e)'
    BY <1>1, <2>3 DEF CommitMutation
  <2>4. ASSUME NEW t \in Tasks, NEW b \in ConsumerIds, NEW d \in Events, Replay(t, b, d)
        PROVE  Touched(c, e)'
    BY <1>1, <2>4 DEF Replay
  <2>5. ASSUME NEW r \in Replicas, Start(r) \/ RecoveryStep(r) \/ Crash(r) PROVE Touched(c, e)'
    BY <1>1, <2>5 DEF Start, RecoveryStep, SelectPending, NextPending, Crash
  <2>6. ASSUME NEW b \in ConsumerIds, NEW d \in Events, Discard(b, d) PROVE Touched(c, e)'
    BY <1>1, <2>6 DEF Discard, TypeOK
  <2> QED
    BY <2>1, <2>2, <2>3, <2>4, <2>5, <2>6 DEF Next
<1>2. replays' = replays \/ replays' = replays + 1
  BY DEF Next, TaskStep, Claim, HandlerSucceeds, HandlerThrows, MarkProcessed, ClearDeadLetter,
         MarkFailed, DeadLetter, Settle, ReportReplay, QueryFails, CommitMutation, Replay, Start,
         RecoveryStep, SelectPending, NextPending, Crash, Discard, budget
<1>3. replays > 0 => replays' > 0
  BY <1>2 DEF TypeOK
<1> QED
  BY <1>1, <1>3 DEF Overridden

LEMMA PositionedInit == Init => Positioned
  BY DEF Init, Idle, Positioned, Standing, Placed, Owning

(* One task has moved, to a place where it may stand.                      *)
LEMMA OneMoves ==
  ASSUME TypeOK, Positioned, Next, NEW t \in Tasks, Others(t), up' = up, Standing(t)'
  PROVE  Positioned'
<1> SUFFICES ASSUME NEW u \in Tasks, u # t PROVE Standing(u)'
  BY DEF Positioned
<1>1. task'[u] = task[u] /\ Standing(u)
  BY DEF Others, Positioned
<1> QED
  BY <1>1, EntriesStay DEF Standing, Forced

LEMMA PositionedNext == TypeOK /\ Positioned /\ [Next]_vars => Positioned'
<1> SUFFICES ASSUME TypeOK, Positioned, Next PROVE Positioned'
  BY DEF vars, tables, boot, history, budget, Positioned, Standing, Overridden, Touched, Forced
<1> USE DEF boot, Positioned
<1>1. ASSUME NEW t \in Tasks, NEW ok \in BOOLEAN, AfterConsumer(t, ok),
             task[t].stage \in Placed, up' = up
      PROVE  Positioned'
  <2>1. Standing(t) /\ task[t].con \in ConsumerIds /\ task[t].ev \in Events
    BY <1>1 DEF Standing
  <2>2. CASE Forced(t)
    <3>1. /\ Others(t) /\ task'[t].stage = "report"
          /\ task'[t].con = task[t].con /\ task'[t].ev = task[t].ev
      BY <1>1, <2>2, AfterConsumerPlace DEF SamePlace
    <3>2. Standing(t)'
      BY <1>1, <2>1, <2>2, <3>1, EntriesStay DEF Standing, Placed, Owning, Forced
    <3> QED
      BY <1>1, <3>1, <3>2, OneMoves
  <2>3. CASE ~Forced(t)
    <3>1. /\ Others(t) /\ task'[t].stage \in {"claim", "settle"} /\ task'[t].ev = task[t].ev
          /\ task'[t].stage = "claim" => task'[t].con \in ConsumerIds
      BY <1>1, <2>1, <2>3, AfterConsumerPlace, Parameters DEF ConsumerIds
    <3>2. Standing(t)'
      BY <1>1, <2>1, <2>3, <3>1 DEF Standing, Placed, Owning, Forced
    <3> QED
      BY <1>1, <3>1, <3>2, OneMoves
  <2> QED
    BY <2>2, <2>3
<1>2. ASSUME NEW t \in Tasks, Others(t), SamePlace(t),
             task'[t].stage \in Owning, task[t].stage \in Placed, up' = up
      PROVE  Positioned'
  <2>1. Standing(t)'
    BY <1>2, EntriesStay DEF Standing, Placed, Owning, SamePlace, Forced
  <2> QED
    BY <1>2, <2>1, OneMoves
<1>3. ASSUME NEW t \in Tasks, Others(t), task'[t].stage \in {"idle", "next"},
             task'[t].stage = "next" => t[2] = Recovery, task[t].stage # "idle", up' = up
      PROVE  Positioned'
  <2>1. Standing(t)'
    BY <1>3, TaskAssumption DEF Standing, Placed, Owning, Forced
  <2> QED
    BY <1>3, <2>1, OneMoves
<1>4. ASSUME NEW t \in Tasks, TaskStep(t) PROVE Positioned'
  <2>1. CASE Claim(t)
    BY <2>1, <1>1, <1>2, ClaimPlace DEF Claim, Placed, Owning
  <2>2. CASE HandlerSucceeds(t)
    BY <2>2, <1>2, MovePlace DEF HandlerSucceeds, Placed, Owning
  <2>3. CASE HandlerThrows(t)
    BY <2>3, <1>2, FailAttemptPlace DEF HandlerThrows, Placed, Owning
  <2>4. CASE MarkProcessed(t)
    BY <2>4, <1>2, MovePlace DEF MarkProcessed, Placed, Owning
  <2>5. CASE ClearDeadLetter(t)
    BY <2>5, <1>1 DEF ClearDeadLetter, Placed, Owning
  <2>6. CASE MarkFailed(t)
    BY <2>6, <1>2, MovePlace DEF MarkFailed, Placed, Owning
  <2>7. CASE DeadLetter(t)
    BY <2>7, <1>1 DEF DeadLetter, Placed, Owning
  <2>8. CASE Settle(t)
    BY <2>8, <1>3, SettledPlace DEF Settle
  <2>9. CASE ReportReplay(t)
    BY <2>9, <1>3 DEF ReportReplay, Others, Idle, TypeOK
  <2> QED
    BY <1>4, <2>1, <2>2, <2>3, <2>4, <2>5, <2>6, <2>7, <2>8, <2>9 DEF TaskStep
<1>5. ASSUME NEW t \in Tasks, QueryFails(t) PROVE Positioned'
  <2>1. CASE task[t].stage \in {"mark", "clear"}
    BY <1>5, <2>1, <1>2, FailAttemptPlace DEF QueryFails, Placed, Owning
  <2>2. CASE task[t].stage = "settle"
    BY <1>5, <2>2, <1>3, SettledPlace DEF QueryFails
  <2>3. CASE task[t].stage \in {"claim", "markFailed", "deadLetter", "report"} /\ ~Forced(t)
    BY <1>5, <2>3, <1>1 DEF QueryFails, EndDispatch, Placed, Owning
  <2>4. CASE task[t].stage \in {"claim", "markFailed", "deadLetter", "report"} /\ Forced(t)
    <3>1. task' = [task EXCEPT ![t] = Idle] /\ up' = up
      BY <1>5, <2>4 DEF QueryFails, EndDispatch
    <3>2. Others(t) /\ task'[t].stage = "idle"
      BY <3>1 DEF Others, Idle, TypeOK
    <3> QED
      BY <2>4, <3>1, <3>2, <1>3
  <2>5. task[t].stage \in {"claim", "mark", "clear", "markFailed", "deadLetter", "settle", "report"}
    BY <1>5 DEF QueryFails
  <2> QED
    BY <2>1, <2>2, <2>3, <2>4, <2>5
<1>6. ASSUME NEW t \in Tasks, NEW e \in Events, CommitMutation(t, e) PROVE Positioned'
  <2>1. Others(t) /\ task'[t].stage = "claim" /\ task'[t].con = 1 /\ task'[t].ev = e /\ up' = up
    BY <1>6, DeliverPlace DEF CommitMutation
  <2>2. Standing(t)'
    BY <1>6, <2>1, PublisherTask, Parameters DEF CommitMutation, Standing, Forced
  <2> QED
    BY <2>1, <2>2, OneMoves
<1>7. ASSUME NEW t \in Tasks, NEW c \in ConsumerIds, NEW e \in Events, Replay(t, c, e)
      PROVE  Positioned'
  <2>1. /\ Others(t) /\ up' = up
        /\ task'[t].stage = "claim" /\ task'[t].con = c /\ task'[t].ev = e
    BY <1>7 DEF Replay, Others, TypeOK
  <2>2. Overridden(c, e)'
    BY <1>7 DEF Replay, Overridden, Touched, tables, TypeOK
  <2>3. Standing(t)'
    BY <1>7, <2>1, <2>2 DEF Replay, Standing
  <2> QED
    BY <2>1, <2>3, OneMoves
<1>8. ASSUME NEW r \in Replicas, Start(r) PROVE Positioned'
  <2> DEFINE t == <<r, Recovery>>
  <2>1. t \in Tasks /\ Others(t) /\ task'[t].stage = "select"
    BY <1>8, RecoveryTask DEF Start, Others, TypeOK, TaskType
  <2>2. Standing(t)'
    BY <1>8, <2>1, RecoveryTask DEF Start, Standing, Forced, Placed, Owning
  <2>3. ASSUME NEW u \in Tasks, u # t PROVE Standing(u)'
    <3>1. task'[u] = task[u] /\ Standing(u)
      BY <2>1, <2>3 DEF Others
    <3> QED
      BY <1>8, <3>1, EntriesStay DEF Start, Standing, Forced
  <2> QED
    BY <2>2, <2>3
<1>9. ASSUME NEW r \in Replicas, SelectPending(r) PROVE Positioned'
  <2>1. <<r, Recovery>> \in Tasks /\ <<r, Recovery>>[2] = Recovery
    BY RecoveryTask
  <2> QED
    BY <1>9, <2>1, <1>3, MovePlace DEF SelectPending
<1>10. ASSUME NEW r \in Replicas, NextPending(r) PROVE Positioned'
  <2> DEFINE t == <<r, Recovery>>
  <2>1. t \in Tasks /\ t[2] = Recovery /\ ~Forced(t) /\ task[t].stage = "next" /\ up' = up
    BY <1>10, RecoveryTask DEF NextPending
  <2>2. ASSUME NEW e \in Events, Deliver(t, e) PROVE Positioned'
    <3>1. Others(t) /\ task'[t].stage = "claim" /\ task'[t].con = 1 /\ task'[t].ev = e
      BY <2>1, <2>2, DeliverPlace
    <3>2. Standing(t)'
      BY <2>1, <3>1, Parameters DEF Standing, Forced
    <3> QED
      BY <2>1, <3>1, <3>2, OneMoves
  <2>3. ASSUME Move(t, "select") PROVE Positioned'
    <3>1. Others(t) /\ task'[t].stage = "select"
      BY <2>1, <2>3, MovePlace
    <3>2. Standing(t)'
      BY <2>1, <3>1 DEF Standing, Forced, Placed, Owning
    <3> QED
      BY <2>1, <3>1, <3>2, OneMoves
  <2>4. ASSUME task' = [task EXCEPT ![t] = Idle] PROVE Positioned'
    <3>1. Others(t) /\ task'[t].stage = "idle"
      BY <2>1, <2>4 DEF Others, Idle, TypeOK
    <3> QED
      BY <2>1, <3>1, <1>3
  <2> QED
    BY <1>10, <2>2, <2>3, <2>4 DEF NextPending, TypeOK
<1>11. ASSUME NEW r \in Replicas, Crash(r) PROVE Positioned'
  <2> SUFFICES ASSUME NEW t \in Tasks PROVE Standing(t)'
    OBVIOUS
  <2>1. CASE t[1] = r
    <3>1. task'[t].stage = "idle"
      BY <1>11, <2>1 DEF Crash, Idle
    <3> QED
      BY <3>1 DEF Standing, Placed, Owning
  <2>2. CASE t[1] # r
    <3>1. task'[t] = task[t] /\ Standing(t)
      BY <1>11, <2>2 DEF Crash
    <3> QED
      BY <1>11, <2>2, <3>1, EntriesStay DEF Crash, Standing, Forced
  <2> QED
    BY <2>1, <2>2
<1>12. ASSUME NEW c \in ConsumerIds, NEW e \in Events, Discard(c, e) PROVE Positioned'
  <2> SUFFICES ASSUME NEW t \in Tasks PROVE Standing(t)'
    OBVIOUS
  <2>1. task' = task /\ up' = up /\ Standing(t)
    BY <1>12 DEF Discard
  <2> QED
    BY <2>1, EntriesStay DEF Standing, Forced
<1> QED
  BY <1>4, <1>5, <1>6, <1>7, <1>8, <1>9, <1>10, <1>11, <1>12 DEF Next, RecoveryStep

(* Every status is one the schema names and every task is at an await of   *)
(* the code; a claim cut short by a crash is one of a consumer on an event.*)
THEOREM TypeCorrect == Spec => []TypeOK
<1>1. Init => TypeOK /\ Positioned
  BY TypeInit, PositionedInit
<1>2. TypeOK /\ Positioned /\ [Next]_vars => TypeOK' /\ Positioned'
  BY TypeNext, PositionedNext
<1> QED
  BY <1>1, <1>2, PTL DEF Spec

-----------------------------------------------------------------------------
(* The second: a claim has one owner.  A second replica that starts        *)
(* re-opens the claims of the first, so there is one replica from here on. *)
OneReplica == \A r, s \in Replicas : r = s

LEMMA Alone ==
  ASSUME OneReplica, TypeOK, Positioned, NEW r \in Replicas
  PROVE  /\ Start(r) => up = {} /\ \A t \in Tasks : task[t].stage = "idle"
         /\ Crash(r) => up' = {} /\ \A t \in Tasks : task'[t].stage = "idle"
<1>1. Replicas = {r}
  BY DEF OneReplica
<1>2. \A t \in Tasks : t[1] = r
  BY <1>1 DEF Tasks
<1>3. Start(r) => up = {}
  BY <1>1 DEF Start, TypeOK
<1>4. Crash(r) => up' = {}
  BY <1>1 DEF Crash, TypeOK
<1> QED
  BY <1>2, <1>3, <1>4 DEF Positioned, Standing, Crash, Idle

LEMMA ServingPlaced ==
  ASSUME Positioned, NEW t \in Tasks, task[t].stage \in Serving
  PROVE  task[t].con \in ConsumerIds /\ task[t].ev \in Events
  BY DEF Positioned, Standing, Serving, Placed, Owning

(* One task moves, without taking a claim, and no status changes.          *)
LEMMA ClaimsKept ==
  ASSUME TypeOK, Positioned, Claims, Next, NEW t \in Tasks, Others(t), UNCHANGED consumption,
         task'[t].stage \in Serving => task[t].stage \in Serving /\ SamePlace(t),
         task'[t].stage = "clear" => task[t].stage = "clear"
  PROVE  Claims'
<1>1. ASSUME NEW u \in Tasks PROVE Owns(u)'
  <2>1. task'[u].stage \in Serving =>
          /\ task[u].stage \in Serving
          /\ task'[u].con = task[u].con /\ task'[u].ev = task[u].ev
    BY DEF Others, SamePlace
  <2>2. task'[u].stage = "clear" => task[u].stage = "clear"
    BY DEF Others
  <2> QED
    BY <2>1, <2>2, EntriesStay, ServingPlaced DEF Claims, Owns, Holds, Serving
<1>2. ASSUME NEW u \in Tasks, NEW v \in Tasks, u # v, Meet(u, v)'
      PROVE  Overridden(task[u].con, task[u].ev)'
  <2>1. /\ task[u].stage \in Serving /\ task[v].stage \in Serving
        /\ task'[u].con = task[u].con /\ task'[u].ev = task[u].ev
        /\ task'[v].con = task[v].con /\ task'[v].ev = task[v].ev
    BY <1>2 DEF Meet, Others, SamePlace
  <2>2. Overridden(task[u].con, task[u].ev)
    BY <1>2, <2>1 DEF Meet, Claims
  <2> QED
    BY <2>1, <2>2, EntriesStay, ServingPlaced
<1> QED
  BY <1>1, <1>2 DEF Claims

(* One task writes the status of its pair.  What it leaves behind suits    *)
(* the other tasks that serve the pair, and itself.                        *)
LEMMA ClaimsWritten ==
  ASSUME TypeOK, Positioned, Claims, Next, NEW t \in Tasks, Others(t), SamePlace(t),
         NEW c \in ConsumerIds, NEW e \in Events, At(t, c, e),
         NEW s, consumption' = [consumption EXCEPT ![c][e] = s],
         \/ Overridden(c, e)
         \/ /\ \A u \in Tasks \ {t} : ~(task[u].stage \in Serving /\ At(u, c, e))
            /\ task'[t].stage \in Serving => s \in {"processing", "processed"}
            /\ task'[t].stage = "clear" => s = "processed"
  PROVE  Claims'
<1>1. /\ consumption'[c][e] = s
      /\ \A b \in ConsumerIds, d \in Events : b # c \/ d # e => consumption'[b][d] = consumption[b][d]
  BY DEF TypeOK
<1>2. /\ \A u \in Tasks : u # t => task'[u] = task[u]
      /\ task'[t].con = c /\ task'[t].ev = e
  BY DEF Others, SamePlace, At
<1>3. CASE Overridden(c, e)
  <2>1. Overridden(c, e)'
    BY <1>3, EntriesStay
  <2>2. ASSUME NEW u \in Tasks PROVE Owns(u)'
    <3>1. CASE task'[u].con = c /\ task'[u].ev = e
      BY <2>1, <3>1 DEF Owns, Holds, Overridden, Touched
    <3>2. CASE ~(task'[u].con = c /\ task'[u].ev = e)
      BY <1>1, <1>2, <3>2, EntriesStay, ServingPlaced DEF Claims, Owns, Holds, Serving
    <3> QED
      BY <3>1, <3>2
  <2>3. ASSUME NEW u \in Tasks, NEW v \in Tasks, u # v, Meet(u, v)'
        PROVE  Overridden(task[u].con, task[u].ev)'
    <3>1. CASE task'[u].con = c /\ task'[u].ev = e
      BY <2>1, <3>1 DEF Overridden, Touched
    <3>2. CASE ~(task'[u].con = c /\ task'[u].ev = e)
      BY <1>2, <2>3, <3>2, EntriesStay, ServingPlaced DEF Claims, Meet
    <3> QED
      BY <3>1, <3>2
  <2> QED
    BY <2>2, <2>3 DEF Claims
<1>4. CASE /\ \A u \in Tasks \ {t} : ~(task[u].stage \in Serving /\ At(u, c, e))
           /\ task'[t].stage \in Serving => s \in {"processing", "processed"}
           /\ task'[t].stage = "clear" => s = "processed"
  <2>1. Owns(t)'
    BY <1>1, <1>2, <1>4 DEF Owns, Holds
  <2>2. ASSUME NEW u \in Tasks, u # t, task'[u].stage \in Serving
        PROVE  /\ task'[u] = task[u] /\ task[u].stage \in Serving
               /\ task[u].con \in ConsumerIds /\ task[u].ev \in Events
               /\ task[u].con # c \/ task[u].ev # e
    BY <1>2, <1>4, <2>2, ServingPlaced DEF At
  <2>3. ASSUME NEW u \in Tasks, u # t PROVE Owns(u)'
    BY <1>1, <2>2, <2>3, EntriesStay DEF Claims, Owns, Holds, Serving
  <2>4. ASSUME NEW u \in Tasks, NEW v \in Tasks, u # v, Meet(u, v)'
        PROVE  Overridden(task[u].con, task[u].ev)'
    <3>1. u # t /\ v # t
      BY <1>2, <2>2, <2>4 DEF Meet
    <3> QED
      BY <2>2, <2>4, <3>1, EntriesStay DEF Claims, Meet
  <2> QED
    BY <2>1, <2>3, <2>4 DEF Claims
<1> QED
  BY <1>3, <1>4

LEMMA ClaimsInit == Init => Claims
  BY DEF Init, Idle, Claims, Owns, Meet, Serving

(* In every step but the first and the last of a process, one task moves.  *)
LEMMA ClaimsNext ==
  ASSUME OneReplica, TypeOK, Positioned, Claims, [Next]_vars
  PROVE  Claims'
<1>1. CASE UNCHANGED vars
  BY <1>1 DEF vars, tables, boot, history, budget, Claims, Owns, Holds, Meet, Overridden, Touched
<1>2. SUFFICES ASSUME Next PROVE Claims'
  BY <1>1
<1> USE DEF tables
(* A task that leaves for a stage where it serves no claim.                *)
<1>3. ASSUME NEW t \in Tasks, Others(t), task'[t].stage \notin Serving, UNCHANGED consumption
      PROVE  Claims'
  BY <1>2, <1>3, ClaimsKept DEF Serving
<1>4. ASSUME NEW t \in Tasks, NEW ok \in BOOLEAN, AfterConsumer(t, ok), UNCHANGED consumption
      PROVE  Claims'
  BY <1>3, <1>4, AfterConsumerPlace DEF Serving
<1>5. ASSUME NEW t \in Tasks, FailAttempt(t), task[t].stage \in Serving, UNCHANGED consumption
      PROVE  Claims'
  BY <1>2, <1>5, FailAttemptPlace, ClaimsKept
<1>6. ASSUME NEW t \in Tasks, TaskStep(t) PROVE Claims'
  <2>1. CASE Claim(t)
    <3> DEFINE c == task[t].con
               e == task[t].ev
    <3>1. c \in ConsumerIds /\ e \in Events /\ Standing(t) /\ task[t].stage = "claim"
      BY <2>1 DEF Claim, Positioned, Standing, Placed
    <3>2. CASE AfterConsumer(t, FALSE) /\ UNCHANGED consumption
      BY <3>2, <1>4
    <3>3. CASE /\ Claimable(t, consumption[c][e])
               /\ Others(t) /\ SamePlace(t) /\ task'[t].stage = "handle"
               /\ consumption' = [consumption EXCEPT ![c][e] = "processing"]
      <4>1. CASE Forced(t)
        <5>1. Overridden(c, e)
          BY <4>1, <3>1 DEF Standing
        <5> QED
          BY <1>2, <3>1, <3>3, <5>1, ClaimsWritten DEF At
      <4>2. CASE ~Forced(t)
        <5>1. consumption[c][e] \in {"none", "failed"}
          BY <4>2, <3>3 DEF Claimable
        <5>2. ASSUME NEW u \in Tasks, task[u].stage \in Serving, At(u, c, e) PROVE Overridden(c, e)
          BY <5>1, <5>2 DEF Claims, Owns, Holds, At
        <5> QED
          BY <1>2, <3>1, <3>3, <5>2, ClaimsWritten DEF At
      <4> QED
        BY <4>1, <4>2
    <3> QED
      BY <2>1, <3>2, <3>3, ClaimPlace
  <2>2. CASE HandlerSucceeds(t)
    BY <1>2, <2>2, MovePlace, ClaimsKept DEF HandlerSucceeds, Serving
  <2>3. CASE HandlerThrows(t)
    BY <2>3, <1>5 DEF HandlerThrows, Serving
  <2>4. CASE MarkProcessed(t)
    <3>1. /\ Others(t) /\ SamePlace(t) /\ task'[t].stage = "clear" /\ task[t].stage \in Serving
          /\ consumption' = [consumption EXCEPT ![task[t].con][task[t].ev] = "processed"]
      BY <2>4, MovePlace DEF MarkProcessed, Serving
    <3>2. task[t].con \in ConsumerIds /\ task[t].ev \in Events
      BY <3>1, ServingPlaced
    <3>3. ASSUME NEW u \in Tasks, u # t, task[u].stage \in Serving, At(u, task[t].con, task[t].ev)
          PROVE  Overridden(task[t].con, task[t].ev)
      BY <3>1, <3>3 DEF Claims, Meet, At
    <3>4. "processed" \in {"processing", "processed"} /\ At(t, task[t].con, task[t].ev)
      BY DEF At
    <3> QED
      BY <1>2, <3>1, <3>2, <3>3, <3>4, ClaimsWritten
  <2>5. CASE ClearDeadLetter(t)
    BY <2>5, <1>4 DEF ClearDeadLetter
  <2>6. CASE MarkFailed(t)
    <3>1. /\ Others(t) /\ SamePlace(t) /\ task'[t].stage = "deadLetter" /\ task[t].stage \in Serving
          /\ consumption' = [consumption EXCEPT ![task[t].con][task[t].ev] = "failed"]
      BY <2>6, MovePlace DEF MarkFailed, Serving
    <3>2. task[t].con \in ConsumerIds /\ task[t].ev \in Events
      BY <3>1, ServingPlaced
    <3>3. ASSUME NEW u \in Tasks, u # t, task[u].stage \in Serving, At(u, task[t].con, task[t].ev)
          PROVE  Overridden(task[t].con, task[t].ev)
      BY <3>1, <3>3 DEF Claims, Meet, At
    <3>4. task'[t].stage \notin Serving
      BY <3>1 DEF Serving
    <3> QED
      BY <1>2, <3>1, <3>2, <3>3, <3>4, ClaimsWritten DEF At
  <2>7. CASE DeadLetter(t)
    BY <2>7, <1>4 DEF DeadLetter
  <2>8. CASE Settle(t)
    BY <2>8, <1>3, SettledPlace DEF Settle, Serving
  <2>9. CASE ReportReplay(t)
    BY <2>9, <1>3 DEF ReportReplay, Others, Idle, Serving, TypeOK
  <2> QED
    BY <1>6, <2>1, <2>2, <2>3, <2>4, <2>5, <2>6, <2>7, <2>8, <2>9 DEF TaskStep
<1>7. ASSUME NEW t \in Tasks, QueryFails(t) PROVE Claims'
  <2>1. CASE task[t].stage \in {"mark", "clear"}
    BY <1>7, <2>1, <1>5 DEF QueryFails, Serving
  <2>2. CASE task[t].stage = "settle"
    BY <1>7, <2>2, <1>3, SettledPlace DEF QueryFails, Serving
  <2>3. CASE task[t].stage \in {"claim", "markFailed", "deadLetter", "report"} /\ ~Forced(t)
    BY <1>7, <2>3, <1>4 DEF QueryFails, EndDispatch
  <2>4. CASE task[t].stage \in {"claim", "markFailed", "deadLetter", "report"} /\ Forced(t)
    <3>1. task' = [task EXCEPT ![t] = Idle] /\ consumption' = consumption
      BY <1>7, <2>4 DEF QueryFails, EndDispatch
    <3>2. Others(t) /\ task'[t].stage \notin Serving
      BY <3>1 DEF Others, Idle, Serving, TypeOK
    <3> QED
      BY <3>1, <3>2, <1>3
  <2>5. task[t].stage \in {"claim", "mark", "clear", "markFailed", "deadLetter", "settle", "report"}
    BY <1>7 DEF QueryFails
  <2> QED
    BY <2>1, <2>2, <2>3, <2>4, <2>5
<1>8. ASSUME NEW t \in Tasks, NEW e \in Events, CommitMutation(t, e) PROVE Claims'
  BY <1>8, <1>3, DeliverPlace DEF CommitMutation, Serving
<1>9. ASSUME NEW t \in Tasks, NEW c \in ConsumerIds, NEW e \in Events, Replay(t, c, e)
      PROVE  Claims'
  BY <1>9, <1>3 DEF Replay, Others, Serving, TypeOK
<1>10. ASSUME NEW r \in Replicas, Start(r) PROVE Claims'
  <2>1. \A t \in Tasks : task'[t].stage \notin Serving
    BY <1>10, Alone DEF Start, Serving, TypeOK, TaskType
  <2> QED
    BY <2>1 DEF Claims, Owns, Meet, Serving
<1>11. ASSUME NEW r \in Replicas, RecoveryStep(r) PROVE Claims'
  <2> DEFINE t == <<r, Recovery>>
  <2>1. t \in Tasks /\ consumption' = consumption
    BY <1>11, RecoveryTask DEF RecoveryStep, SelectPending, NextPending
  <2>2. Others(t) /\ task'[t].stage \in {"select", "next", "claim", "idle"}
    BY <1>11, RecoveryPlace
  <2> QED
    BY <2>1, <2>2, <1>3 DEF Serving
<1>12. ASSUME NEW r \in Replicas, Crash(r) PROVE Claims'
  BY <1>12, Alone DEF Claims, Owns, Meet, Serving
<1>13. ASSUME NEW c \in ConsumerIds, NEW e \in Events, Discard(c, e) PROVE Claims'
  <2>1. task' = task /\ consumption' = consumption
    BY <1>13 DEF Discard
  <2> QED
    BY <1>2, <2>1, EntriesStay, ServingPlaced DEF Claims, Owns, Holds, Meet, Serving
<1> QED
  BY <1>2, <1>6, <1>7, <1>8, <1>9, <1>10, <1>11, <1>12, <1>13 DEF Next

(* With no replay there is no pair an operator may be at work on, so two   *)
(* tasks never serve the same one.                                         *)
LEMMA ClaimsExclude ==
  ASSUME TypeOK, Positioned, Claims
  PROVE  OneCallerWins
<1> SUFFICES ASSUME replays = 0, NEW c \in ConsumerIds, NEW e \in Events
             PROVE  Cardinality({t \in Tasks : task[t].stage \in {"handle", "mark", "clear"}
                                               /\ At(t, c, e)}) <= 1
  BY DEF OneCallerWins
<1> DEFINE S == {t \in Tasks : task[t].stage \in {"handle", "mark", "clear"} /\ At(t, c, e)}
<1>1. \A t, u \in S : t = u
  BY DEF Claims, Meet, Serving, Overridden, At
<1>2. S = {} \/ \E t \in S : S = {t}
  BY <1>1
<1>3. Cardinality(S) = 0 \/ Cardinality(S) = 1
  BY <1>2, FS_EmptySet, FS_Singleton
<1> QED
  BY <1>3

(* consumer-registry.service.ts:155: of the deliveries of an event to a    *)
(* consumer one caller wins, however many publishers and recovery passes   *)
(* deliver it, unless an operator replays.                                 *)
THEOREM ClaimsAreExclusive == OneReplica => (Spec => []OneCallerWins)
<1> SUFFICES ASSUME OneReplica PROVE Spec => []OneCallerWins
  OBVIOUS
<1> DEFINE I == TypeOK /\ Positioned /\ Claims
<1>1. Init => I
  BY TypeInit, PositionedInit, ClaimsInit
<1>2. I /\ [Next]_vars => I'
  BY TypeNext, PositionedNext, ClaimsNext
<1>3. I => OneCallerWins
  BY ClaimsExclude
<1> QED
  BY <1>1, <1>2, <1>3, PTL DEF Spec

-----------------------------------------------------------------------------
(* The third: without trouble a side effect happens once.                  *)
LEMMA FreshInit == Init => Fresh
  BY DEF Init, Idle, Fresh

LEMMA CalmBefore ==
  ASSUME TypeOK, Next, Calm'
  PROVE  /\ Calm
         /\ \A t \in Tasks : ~QueryFails(t)
         /\ \A t \in Tasks, c \in ConsumerIds, e \in Events : ~Replay(t, c, e)
         /\ \A r \in Replicas : ~Crash(r)
<1>1. /\ crashes' = crashes \/ crashes' = crashes + 1
      /\ faults' = faults \/ faults' = faults + 1
      /\ replays' = replays \/ replays' = replays + 1
  BY DEF Next, TaskStep, Claim, HandlerSucceeds, HandlerThrows, MarkProcessed, ClearDeadLetter,
         MarkFailed, DeadLetter, Settle, ReportReplay, QueryFails, CommitMutation, Replay, Start,
         RecoveryStep, SelectPending, NextPending, Crash, Discard, budget
<1>2. Calm
  BY <1>1 DEF Calm, TypeOK
<1> QED
  BY <1>2 DEF Calm, QueryFails, Replay, Crash

(* One task moves and no row changes.                                      *)
LEMMA FreshKept ==
  ASSUME Fresh, Calm, NEW t \in Tasks, Others(t), UNCHANGED <<consumption, handled, up>>,
         task'[t].stage \in {"handle", "markFailed"} =>
           task[t].stage \in {"handle", "markFailed"} /\ SamePlace(t)
  PROVE  Fresh'
  BY DEF Fresh, Others, SamePlace

LEMMA FreshNext ==
  ASSUME OneReplica, TypeOK, Positioned, Claims, Fresh, [Next]_vars
  PROVE  Fresh'
<1>1. CASE UNCHANGED vars
  BY <1>1 DEF vars, tables, boot, history, budget, Fresh, Calm
<1>2. SUFFICES ASSUME Next, Calm' PROVE Fresh'
  BY <1>1 DEF Fresh
<1> USE DEF tables, boot, history
<1>3. /\ Calm
      /\ \A c \in ConsumerIds, e \in Events :
           /\ consumption[c][e] \in {"none", "failed"} => handled[c][e] = 0
           /\ handled[c][e] <= 1
           /\ up = {} => consumption[c][e] = "none"
      /\ \A t \in Tasks : task[t].stage \in {"handle", "markFailed"} =>
           handled[task[t].con][task[t].ev] = 0
  BY <1>2, CalmBefore DEF Fresh
<1>4. /\ \A t \in Tasks : Forced(t) => task[t].stage = "idle"
      /\ \A c, e : ~Overridden(c, e)
  BY <1>3 DEF Calm, Overridden, Positioned, Standing
<1>5. \A t \in Tasks : task[t].stage # "idle" => up # {}
  BY DEF Positioned, Standing
<1>6. ASSUME NEW t \in Tasks, TaskStep(t) PROVE Fresh'
  <2> DEFINE c == task[t].con
             e == task[t].ev
  <2>1. CASE Claim(t)
    <3>1. c \in ConsumerIds /\ e \in Events /\ task[t].stage = "claim" /\ ~Forced(t)
      BY <2>1, <1>4 DEF Claim, Positioned, Standing, Placed
    <3>2. CASE AfterConsumer(t, FALSE) /\ UNCHANGED consumption
      BY <3>2, <2>1, <1>3, AfterConsumerPlace, FreshKept DEF Claim
    <3>3. CASE /\ Claimable(t, consumption[c][e])
               /\ Others(t) /\ SamePlace(t) /\ task'[t].stage = "handle"
               /\ consumption' = [consumption EXCEPT ![c][e] = "processing"]
      <4>1. handled' = handled /\ up' = up
        BY <2>1 DEF Claim
      <4>2. handled[c][e] = 0
        BY <3>1, <3>3, <1>3 DEF Claimable
      <4>3. \A b \in ConsumerIds, d \in Events :
              consumption'[b][d] = IF b = c /\ d = e THEN "processing" ELSE consumption[b][d]
        BY <3>1, <3>3 DEF TypeOK
      <4>4. up # {}
        BY <3>1, <1>5
      <4>5. \A u \in Tasks : task'[u].stage \in {"handle", "markFailed"} =>
              handled[task'[u].con][task'[u].ev] = 0
        BY <3>3, <4>2, <1>3 DEF Others, SamePlace
      <4> QED
        BY <4>1, <4>2, <4>3, <4>4, <4>5, <1>3 DEF Fresh
    <3> QED
      BY <2>1, <3>2, <3>3, ClaimPlace
  <2>2. CASE HandlerSucceeds(t)
    <3>1. /\ Others(t) /\ SamePlace(t) /\ task'[t].stage = "mark" /\ task[t].stage = "handle"
          /\ consumption' = consumption /\ up' = up
          /\ handled' = [handled EXCEPT ![c][e] = IF @ < 2 THEN @ + 1 ELSE @]
      BY <2>2, MovePlace DEF HandlerSucceeds
    <3>2. c \in ConsumerIds /\ e \in Events
      BY <3>1, ServingPlaced DEF Serving
    <3>3. handled[c][e] = 0
      BY <3>1, <1>3
    <3>4. /\ handled'[c][e] = 1
          /\ \A b \in ConsumerIds, d \in Events : b # c \/ d # e => handled'[b][d] = handled[b][d]
      BY <3>1, <3>2, <3>3 DEF TypeOK
    <3>5. consumption[c][e] \in {"processing", "processed"}
      BY <3>1, <1>4 DEF Claims, Owns, Holds, Serving
    <3>6. ASSUME NEW u \in Tasks, task'[u].stage \in {"handle", "markFailed"}
          PROVE  handled'[task'[u].con][task'[u].ev] = 0
      <4>1. u # t /\ task'[u] = task[u]
        BY <3>1, <3>6 DEF Others
      <4>2. task[u].con # c \/ task[u].ev # e
        BY <3>1, <3>6, <4>1, <1>4 DEF Claims, Meet, Serving
      <4>3. task[u].con \in ConsumerIds /\ task[u].ev \in Events
        BY <3>6, <4>1, ServingPlaced DEF Serving
      <4> QED
        BY <3>4, <3>6, <4>1, <4>2, <4>3, <1>3
    <3> QED
      BY <3>1, <3>4, <3>5, <3>6, <1>3 DEF Fresh
  <2>3. CASE HandlerThrows(t)
    BY <2>3, <1>3, FailAttemptPlace, FreshKept DEF HandlerThrows
  <2>4. CASE MarkProcessed(t)
    <3>1. /\ Others(t) /\ SamePlace(t) /\ task'[t].stage = "clear" /\ task[t].stage = "mark"
          /\ handled' = handled /\ up' = up
          /\ consumption' = [consumption EXCEPT ![c][e] = "processed"]
      BY <2>4, MovePlace DEF MarkProcessed
    <3>2. c \in ConsumerIds /\ e \in Events
      BY <3>1, ServingPlaced DEF Serving
    <3>3. \A b \in ConsumerIds, d \in Events :
            consumption'[b][d] = IF b = c /\ d = e THEN "processed" ELSE consumption[b][d]
      BY <3>1, <3>2 DEF TypeOK
    <3>4. up # {}
      BY <3>1, <1>5
    <3> QED
      BY <3>1, <3>3, <3>4, <1>3 DEF Fresh, Others
  <2>5. CASE ClearDeadLetter(t)
    BY <2>5, <1>3, AfterConsumerPlace, FreshKept DEF ClearDeadLetter
  <2>6. CASE MarkFailed(t)
    <3>1. /\ Others(t) /\ SamePlace(t) /\ task'[t].stage = "deadLetter"
          /\ task[t].stage = "markFailed" /\ handled' = handled /\ up' = up
          /\ consumption' = [consumption EXCEPT ![c][e] = "failed"]
      BY <2>6, MovePlace DEF MarkFailed
    <3>2. c \in ConsumerIds /\ e \in Events /\ handled[c][e] = 0
      BY <3>1, <1>3, ServingPlaced DEF Serving
    <3>3. \A b \in ConsumerIds, d \in Events :
            consumption'[b][d] = IF b = c /\ d = e THEN "failed" ELSE consumption[b][d]
      BY <3>1, <3>2 DEF TypeOK
    <3>4. up # {}
      BY <3>1, <1>5
    <3> QED
      BY <3>1, <3>2, <3>3, <3>4, <1>3 DEF Fresh, Others
  <2>7. CASE DeadLetter(t)
    BY <2>7, <1>3, AfterConsumerPlace, FreshKept DEF DeadLetter
  <2>8. CASE Settle(t)
    BY <2>8, <1>3, SettledPlace, FreshKept DEF Settle
  <2>9. CASE ReportReplay(t)
    BY <2>9, <1>3, FreshKept DEF ReportReplay, Others, Idle, TypeOK
  <2> QED
    BY <1>6, <2>1, <2>2, <2>3, <2>4, <2>5, <2>6, <2>7, <2>8, <2>9 DEF TaskStep
<1>7. ASSUME NEW t \in Tasks, NEW e \in Events, CommitMutation(t, e) PROVE Fresh'
  BY <1>7, <1>3, DeliverPlace, FreshKept DEF CommitMutation
<1>8. ASSUME NEW r \in Replicas, Start(r) PROVE Fresh'
  <2>1. up = {} /\ \A t \in Tasks : task[t].stage = "idle"
    BY <1>8, Alone
  <2>2. \A t \in Tasks : task'[t].stage \in {"idle", "select"}
    BY <1>8, <2>1 DEF Start, TypeOK, TaskType
  <2>3. \A c \in ConsumerIds, e \in Events : consumption'[c][e] = "none"
    BY <1>8, <1>3, <2>1 DEF Start, Reclaimed
  <2> QED
    BY <1>8, <2>2, <2>3, <1>3, <2>1 DEF Start, Fresh
<1>9. ASSUME NEW r \in Replicas, RecoveryStep(r) PROVE Fresh'
  <2> DEFINE t == <<r, Recovery>>
  <2>1. t \in Tasks /\ UNCHANGED <<consumption, handled, up>>
    BY <1>9, RecoveryTask DEF RecoveryStep, SelectPending, NextPending
  <2>2. Others(t) /\ task'[t].stage \in {"select", "next", "claim", "idle"}
    BY <1>9, RecoveryPlace
  <2> QED
    BY <2>1, <2>2, <1>3, FreshKept
<1>10. ASSUME NEW c \in ConsumerIds, NEW e \in Events, Discard(c, e) PROVE Fresh'
  <2>1. UNCHANGED <<task, consumption, handled, up>>
    BY <1>10 DEF Discard
  <2> QED
    BY <2>1, <1>3 DEF Fresh
<1> QED
  BY <1>2, CalmBefore, <1>6, <1>7, <1>8, <1>9, <1>10 DEF Next

(* Without a crash, a failed query or a replay the handler of a consumer   *)
(* completes at most once for an event.                                    *)
THEOREM EffectsHappenOnce == OneReplica => (Spec => []EffectOnce)
<1> SUFFICES ASSUME OneReplica PROVE Spec => []EffectOnce
  OBVIOUS
<1> DEFINE I == TypeOK /\ Positioned /\ Claims /\ Fresh
<1>1. Init => I
  BY TypeInit, PositionedInit, ClaimsInit, FreshInit
<1>2. I /\ [Next]_vars => I'
  BY TypeNext, PositionedNext, ClaimsNext, FreshNext
<1>3. I => EffectOnce
  BY DEF Fresh, Calm, EffectOnce, TypeOK
<1> QED
  BY <1>1, <1>2, <1>3, PTL DEF Spec

-----------------------------------------------------------------------------
(* The fourth: what a failed query costs.                                  *)
Works(t, c, e) == At(t, c, e) /\ task[t].stage \in Owning \cup {"report"}

LEMMA WorkIsFlight == \A c, e : InFlight(c, e) <=> \E t \in Tasks : Works(t, c, e)
  BY DEF InFlight, Works, Owning

(* One task moves and no status changes.  The pair it works at is taken    *)
(* care of when it leaves, and what it passes anew was covered or left.    *)
LEMMA LostKept ==
  ASSUME TypeOK, Next, NEW t \in Tasks, Others(t), UNCHANGED <<consumption, up, orphans>>,
         NEW c \in ConsumerIds, NEW e \in Events,
         outbox'[e] = "dispatched" => Passed(c, e),
         Works(t, c, e) => Covered(c, e)',
         Passes(t, c, e)' => Passed(c, e) \/ Left(c, e) \/ Covered(c, e)',
         LostPair(c, e)'
  PROVE  LostPair(c, e)
<1>1. \A u \in Tasks : u # t => task'[u] = task[u]
  BY DEF Others
<1>2. Covered(c, e) => Covered(c, e)'
  <2>1. CASE consumption[c][e] = "processed" \/ Touched(c, e)
    BY <2>1, EntriesStay DEF Covered
  <2>2. ASSUME NEW u \in Tasks, Works(u, c, e) PROVE Covered(c, e)'
    <3>1. CASE u = t
      BY <2>2, <3>1
    <3>2. CASE u # t
      <4>1. task'[u] = task[u]
        BY <1>1, <3>2
      <4>2. InFlight(c, e)'
        BY <2>2, <4>1 DEF InFlight, Works, At, Owning
      <4> QED
        BY <4>2 DEF Covered
    <3> QED
      BY <3>1, <3>2
  <2> QED
    BY <2>1, <2>2, WorkIsFlight DEF Covered
<1>3. Passed(c, e)' => Passed(c, e) \/ Left(c, e) \/ Covered(c, e)'
  <2>1. ASSUME NEW u \in Tasks, Passes(u, c, e)'
        PROVE  Passed(c, e) \/ Left(c, e) \/ Covered(c, e)'
    <3>1. CASE u = t
      BY <2>1, <3>1
    <3>2. CASE u # t
      <4>1. task'[u] = task[u]
        BY <1>1, <3>2
      <4>2. Passes(u, c, e)
        BY <2>1, <4>1 DEF Passes, Forced
      <4> QED
        BY <4>2 DEF Passed
    <3> QED
      BY <3>1, <3>2
  <2> QED
    BY <2>1 DEF Passed
<1>4. Left(c, e)' => Left(c, e)
  BY DEF Left
<1> QED
  BY <1>2, <1>3, <1>4 DEF LostPair

(* One task writes the status of the pair it works at, before and after.   *)
LEMMA LostWritten ==
  ASSUME TypeOK, Next, NEW t \in Tasks, Others(t), SamePlace(t), UNCHANGED <<outbox, up, orphans>>,
         task[t].stage \in Owning \cup {"claim"}, task'[t].stage \in Owning,
         NEW b \in ConsumerIds, NEW d \in Events, At(t, b, d),
         NEW s, consumption' = [consumption EXCEPT ![b][d] = s],
         NEW c \in ConsumerIds, NEW e \in Events, LostPair(c, e)'
  PROVE  LostPair(c, e)
<1>1. /\ \A u \in Tasks : u # t => task'[u] = task[u]
      /\ task'[t].con = b /\ task'[t].ev = d /\ task[t].con = b /\ task[t].ev = d
  BY DEF Others, SamePlace, At
<1>2. c # b \/ e # d
  <2>1. InFlight(b, d)'
    BY <1>1 DEF InFlight, At, Owning
  <2> QED
    BY <2>1 DEF LostPair, Covered
<1>3. consumption'[c][e] = consumption[c][e]
  BY <1>2 DEF TypeOK
<1>4. InFlight(c, e) => InFlight(c, e)'
  BY <1>1, <1>2 DEF InFlight, At
<1>5. Covered(c, e) => Covered(c, e)'
  BY <1>3, <1>4, EntriesStay DEF Covered
<1>6. \A u \in Tasks : Passes(u, c, e)' => Passes(u, c, e)
  BY <1>1 DEF Passes, Forced, Owning
<1> QED
  BY <1>3, <1>5, <1>6 DEF LostPair, Passed, Left

(* No step but a failed query loses a pair.                                *)
LEMMA NothingElseLoses ==
  ASSUME OneReplica, TypeOK, Positioned, Claims, Next,
         \A t \in Tasks : ~QueryFails(t),
         NEW c \in ConsumerIds, NEW e \in Events, LostPair(c, e)'
  PROVE  LostPair(c, e)
<1> USE DEF tables, boot, history
<1>1. ASSUME NEW t \in Tasks, NEW ok \in BOOLEAN, AfterConsumer(t, ok), Standing(t),
             task[t].stage \in Placed, UNCHANGED <<outbox, consumption, up, orphans>>,
             At(t, c, e) => Left(c, e) \/ Covered(c, e)',
             Works(t, c, e) => Covered(c, e)'
      PROVE  LostPair(c, e)
  <2>1. task[t].con \in ConsumerIds /\ task[t].ev \in Events
    BY <1>1 DEF Standing
  <2>2. Passes(t, c, e)' => Passed(c, e) \/ Left(c, e) \/ Covered(c, e)'
    <3>1. SUFFICES ASSUME ~Forced(t), task'[t].ev = e,
                          task'[t].stage = "settle" \/ c < task'[t].con
                   PROVE  Passed(c, e) \/ Left(c, e) \/ Covered(c, e)'
      BY DEF Passes, Forced
    <3>2. task[t].ev = e /\ c <= task[t].con
      BY <1>1, <2>1, <3>1, AfterConsumerPlace, Parameters DEF ConsumerIds, SamePlace
    <3>3. CASE c = task[t].con
      BY <1>1, <3>2, <3>3 DEF At
    <3>4. CASE c # task[t].con
      <4>1. c < task[t].con
        BY <2>1, <3>2, <3>4 DEF ConsumerIds
      <4>2. Passes(t, c, e)
        BY <1>1, <3>1, <3>2, <4>1 DEF Passes, Placed, Standing
      <4> QED
        BY <4>2 DEF Passed
    <3> QED
      BY <3>3, <3>4
  <2>3. Others(t)
    BY <1>1, AfterConsumerPlace
  <2> QED
    BY <1>1, <2>2, <2>3, LostKept DEF Passed
<1>2. ASSUME NEW t \in Tasks, Others(t), task'[t].stage \notin Owning \cup {"claim", "settle"},
             UNCHANGED <<consumption, up, orphans>>, outbox'[e] = "dispatched" => Passed(c, e),
             Works(t, c, e) => Covered(c, e)'
      PROVE  LostPair(c, e)
  <2>1. ~Passes(t, c, e)'
    BY <1>2 DEF Passes
  <2> QED
    BY <1>2, <2>1, LostKept
<1>3. ASSUME NEW t \in Tasks, Others(t), task'[t].stage = "claim",
             Forced(t) \/ task'[t].con = 1, task[t].stage \notin Owning \cup {"report"},
             UNCHANGED <<consumption, up, orphans>>, outbox'[e] = "dispatched" => Passed(c, e)
      PROVE  LostPair(c, e)
  <2>1. ~Passes(t, c, e)'
    BY <1>3, Parameters DEF Passes, Forced, ConsumerIds, Owning
  <2>2. ~Works(t, c, e)
    BY <1>3 DEF Works
  <2> QED
    BY <1>3, <2>1, <2>2, LostKept
<1>4. ASSUME NEW t \in Tasks, Others(t), SamePlace(t), task[t].stage \in Owning,
             task'[t].stage \in Owning, UNCHANGED <<outbox, consumption, up, orphans>>
      PROVE  LostPair(c, e)
  <2>1. Passes(t, c, e)' => Passed(c, e)
    BY <1>4 DEF Passes, Forced, SamePlace, Owning, Passed
  <2>2. Works(t, c, e) => Covered(c, e)'
    BY <1>4 DEF Works, At, SamePlace, Covered, InFlight, Owning
  <2> QED
    BY <1>4, <2>1, <2>2, LostKept DEF Passed
<1>5. ASSUME NEW t \in Tasks, TaskStep(t) PROVE LostPair(c, e)
  <2>1. Standing(t) /\ Owns(t)
    BY DEF Positioned, Claims
  <2>2. CASE Claim(t)
    <3>1. /\ task[t].stage = "claim" /\ UNCHANGED <<outbox, up, orphans>>
          /\ task[t].con \in ConsumerIds /\ task[t].ev \in Events
      BY <2>1, <2>2 DEF Claim, Standing, Placed
    <3>2. CASE /\ ~Claimable(t, consumption[task[t].con][task[t].ev])
               /\ AfterConsumer(t, FALSE) /\ UNCHANGED consumption
      <4>1. consumption[task[t].con][task[t].ev] \in {"processing", "processed"}
        BY <3>1, <3>2 DEF Claimable, TypeOK
      <4>2. up # {}
        BY <2>1, <3>1 DEF Standing
      <4>3. At(t, c, e) => Left(c, e) \/ Covered(c, e)'
        BY <3>2, <4>1, <4>2 DEF At, Left, Covered
      <4>4. ~Works(t, c, e)
        BY <3>1 DEF Works, Owning
      <4> QED
        BY <2>1, <3>1, <3>2, <4>3, <4>4, <1>1 DEF Placed
    <3>3. CASE /\ Others(t) /\ SamePlace(t) /\ task'[t].stage = "handle"
               /\ consumption' = [consumption EXCEPT ![task[t].con][task[t].ev] = "processing"]
      <4>1. /\ task[t].stage \in Owning \cup {"claim"} /\ task'[t].stage \in Owning
            /\ At(t, task[t].con, task[t].ev)
        BY <3>1, <3>3 DEF Owning, At
      <4> QED
        BY <3>1, <3>3, <4>1, LostWritten
    <3> QED
      BY <2>2, <3>2, <3>3, ClaimPlace
  <2>3. CASE HandlerSucceeds(t)
    BY <2>3, <1>4, MovePlace DEF HandlerSucceeds, Owning
  <2>4. CASE HandlerThrows(t)
    BY <2>4, <1>4, FailAttemptPlace DEF HandlerThrows, Owning
  <2>5. CASE MarkProcessed(t)
    <3>1. /\ Others(t) /\ SamePlace(t) /\ task'[t].stage = "clear" /\ task[t].stage = "mark"
          /\ UNCHANGED <<outbox, up, orphans>>
          /\ consumption' = [consumption EXCEPT ![task[t].con][task[t].ev] = "processed"]
      BY <2>5, MovePlace DEF MarkProcessed
    <3>2. /\ task[t].con \in ConsumerIds /\ task[t].ev \in Events
          /\ task[t].stage \in Owning /\ task'[t].stage \in Owning
          /\ At(t, task[t].con, task[t].ev)
      BY <2>1, <3>1 DEF Standing, Placed, Owning, At
    <3> QED
      BY <3>1, <3>2, LostWritten
  <2>6. CASE ClearDeadLetter(t)
    <3>1. At(t, c, e) => Covered(c, e)'
      BY <2>1, <2>6, EntriesStay DEF ClearDeadLetter, Owns, At, Covered, Overridden
    <3> QED
      BY <2>1, <2>6, <3>1, <1>1 DEF ClearDeadLetter, Placed, Owning, Works
  <2>7. CASE MarkFailed(t)
    <3>1. /\ Others(t) /\ SamePlace(t) /\ task'[t].stage = "deadLetter" /\ task[t].stage = "markFailed"
          /\ UNCHANGED <<outbox, up, orphans>>
          /\ consumption' = [consumption EXCEPT ![task[t].con][task[t].ev] = "failed"]
      BY <2>7, MovePlace DEF MarkFailed
    <3>2. /\ task[t].con \in ConsumerIds /\ task[t].ev \in Events
          /\ task[t].stage \in Owning /\ task'[t].stage \in Owning
          /\ At(t, task[t].con, task[t].ev)
      BY <2>1, <3>1 DEF Standing, Placed, Owning, At
    <3> QED
      BY <3>1, <3>2, LostWritten
  <2>8. CASE DeadLetter(t)
    <3>1. At(t, c, e) => Covered(c, e)'
      BY <2>8 DEF DeadLetter, At, Covered, Touched, TypeOK
    <3> QED
      BY <2>1, <2>8, <3>1, <1>1 DEF DeadLetter, Placed, Owning, Works
  <2>9. CASE Settle(t)
    <3>1. Others(t) /\ task'[t].stage \in {"idle", "next"} /\ task[t].stage = "settle"
      BY <2>9, SettledPlace DEF Settle
    <3>2. ~Works(t, c, e)
      BY <3>1 DEF Works, Owning
    <3>3. outbox'[e] = "dispatched" => outbox[e] = "dispatched" \/ task[t].ev = e
      BY <2>9 DEF Settle, TypeOK
    <3>4. outbox'[e] = "dispatched" => Passed(c, e)
      BY <2>1, <3>1, <3>3 DEF Passed, Passes, Standing
    <3> QED
      BY <2>9, <3>1, <3>2, <3>4, <1>2 DEF Settle, Owning
  <2>10. CASE ReportReplay(t)
    <3>1. Others(t) /\ task'[t].stage = "idle"
      BY <2>10 DEF ReportReplay, Others, Idle, TypeOK
    <3>2. At(t, c, e) => Covered(c, e)'
      BY <2>1, <2>10, EntriesStay DEF ReportReplay, Standing, At, Covered, Overridden
    <3> QED
      BY <2>10, <3>1, <3>2, <1>2 DEF ReportReplay, Owning, Works, Passed
  <2> QED
    BY <1>5, <2>2, <2>3, <2>4, <2>5, <2>6, <2>7, <2>8, <2>9, <2>10 DEF TaskStep
<1>6. ASSUME NEW t \in Tasks, NEW d \in Events, CommitMutation(t, d) PROVE LostPair(c, e)
  <2>1. Others(t) /\ task'[t].stage = "claim" /\ task'[t].con = 1 /\ task[t].stage = "idle"
    BY <1>6, DeliverPlace DEF CommitMutation
  <2>2. outbox'[e] = "dispatched" => Passed(c, e)
    BY <1>6 DEF CommitMutation, Passed, TypeOK
  <2> QED
    BY <1>6, <2>1, <2>2, <1>3 DEF CommitMutation, Owning
<1>7. ASSUME NEW t \in Tasks, NEW b \in ConsumerIds, NEW d \in Events, Replay(t, b, d)
      PROVE  LostPair(c, e)
  <2>1. Others(t) /\ task'[t].stage = "claim" /\ Forced(t) /\ task[t].stage = "idle"
    BY <1>7 DEF Replay, Others, Forced, TypeOK
  <2> QED
    BY <1>7, <2>1, <1>3 DEF Replay, Owning, Passed
<1>8. ASSUME NEW r \in Replicas, Start(r) PROVE LostPair(c, e)
  <2>1. up = {} /\ \A t \in Tasks : task[t].stage = "idle"
    BY <1>8, Alone
  <2>2. \A t \in Tasks : task'[t].stage \in {"idle", "select"}
    BY <1>8, <2>1 DEF Start, TypeOK, TaskType
  <2>3. /\ consumption'[c][e] # "processing"
        /\ consumption[c][e] = "processed" => consumption'[c][e] = "processed"
    BY <1>8 DEF Start, Reclaimed
  <2>4. Passed(c, e)' => Passed(c, e)
    BY <1>8, <2>2 DEF Start, Passed, Passes, Owning
  <2>5. Covered(c, e) => Covered(c, e)'
    BY <2>1, <2>3, EntriesStay DEF Covered, InFlight
  <2> QED
    BY <1>8, <2>3, <2>4, <2>5 DEF LostPair, Left, Start
<1>9. ASSUME NEW r \in Replicas, RecoveryStep(r) PROVE LostPair(c, e)
  <2> DEFINE t == <<r, Recovery>>
  <2>1. /\ t \in Tasks /\ UNCHANGED <<outbox, consumption, up, orphans>>
        /\ task[t].stage \in {"select", "next"}
    BY <1>9, RecoveryTask DEF RecoveryStep, SelectPending, NextPending
  <2>2. /\ Others(t) /\ task'[t].stage \in {"select", "next", "claim", "idle"}
        /\ task'[t].stage = "claim" => task'[t].con = 1
    BY <1>9, RecoveryPlace
  <2>3. ~Works(t, c, e)
    BY <2>1 DEF Works, Owning
  <2>4. CASE task'[t].stage = "claim"
    BY <2>1, <2>2, <2>4, <1>3 DEF Owning, Passed
  <2>5. CASE task'[t].stage # "claim"
    BY <2>1, <2>2, <2>3, <2>5, <1>2 DEF Owning, Passed
  <2> QED
    BY <2>4, <2>5
<1>10. ASSUME NEW r \in Replicas, Crash(r) PROVE LostPair(c, e)
  <2>1. up' = {} /\ \A t \in Tasks : task'[t].stage = "idle"
    BY <1>10, Alone
  <2>2. outbox' = outbox /\ consumption' = consumption /\ deadLetters' = deadLetters
    BY <1>10 DEF Crash
  <2>3. outbox[e] = "dispatched"
    BY <2>1, <2>2 DEF LostPair, Left, Passed, Passes, Owning
  <2>4. ASSUME NEW t \in Tasks, Works(t, c, e) PROVE Touched(c, e)
    <3>1. t[1] = r
      BY <2>4 DEF Works, Tasks, OneReplica
    <3>2. task[t].stage = "report"
      <4>1. task[t].stage \in Owning => <<c, e>> \in orphans'
        BY <1>10, <2>3, <2>4, <3>1 DEF Crash, Works, At
      <4> QED
        BY <2>4, <4>1 DEF Works, LostPair
    <3> QED
      BY <2>4, <3>2 DEF Positioned, Standing, Works, At, Overridden
  <2>5. ~Covered(c, e)
    BY <2>2, <2>4, WorkIsFlight DEF LostPair, Covered, Touched
  <2>6. <<c, e>> \notin orphans
    BY <1>10 DEF Crash, LostPair
  <2> QED
    BY <2>3, <2>5, <2>6 DEF LostPair, Passed
<1>11. ASSUME NEW b \in ConsumerIds, NEW d \in Events, Discard(b, d) PROVE LostPair(c, e)
  <2>1. UNCHANGED <<outbox, consumption, task, up, orphans>>
    BY <1>11 DEF Discard
  <2>2. InFlight(c, e)' <=> InFlight(c, e)
    BY <2>1 DEF InFlight, At
  <2>3. Passed(c, e)' <=> Passed(c, e)
    BY <2>1 DEF Passed, Passes, Forced
  <2> QED
    BY <2>1, <2>2, <2>3, EntriesStay DEF LostPair, Covered, Left
<1> QED
  BY <1>5, <1>6, <1>7, <1>8, <1>9, <1>10, <1>11 DEF Next

(* A failed query loses its own pair at most.                              *)
LEMMA FaultLosesOne ==
  ASSUME TypeOK, Positioned, Next, NEW t \in Tasks, QueryFails(t),
         NEW c \in ConsumerIds, NEW e \in Events, LostPair(c, e)'
  PROVE  LostPair(c, e) \/ At(t, c, e)
<1> SUFFICES ASSUME ~At(t, c, e) PROVE LostPair(c, e)
  OBVIOUS
<1> USE DEF tables, boot, history
<1>1. /\ Standing(t)
      /\ UNCHANGED <<consumption, up, orphans>>
      /\ ~Works(t, c, e)
  BY DEF QueryFails, Positioned, Works
<1>2. CASE task[t].stage \in {"mark", "clear"}
  <2>1. Others(t) /\ SamePlace(t) /\ task'[t].stage \in Owning /\ outbox' = outbox
    BY <1>2, FailAttemptPlace DEF QueryFails, Owning
  <2>2. Passes(t, c, e)' => Passed(c, e)
    BY <1>2, <2>1 DEF Passes, Passed, Forced, SamePlace, Owning
  <2> QED
    BY <1>1, <2>1, <2>2, LostKept DEF Passed
<1>3. CASE task[t].stage = "settle"
  <2>1. Others(t) /\ task'[t].stage \in {"idle", "next"}
    BY <1>3, SettledPlace DEF QueryFails
  <2>2. outbox' = [outbox EXCEPT ![task[t].ev] = "pending"]
    BY <1>3 DEF QueryFails
  <2>3. outbox'[e] = "dispatched" => Passed(c, e)
    BY <2>2 DEF Passed, TypeOK
  <2>4. ~Passes(t, c, e)'
    BY <2>1 DEF Passes, Owning
  <2> QED
    BY <1>1, <2>1, <2>3, <2>4, LostKept
<1>4. CASE task[t].stage \in {"claim", "markFailed", "deadLetter", "report"} /\ ~Forced(t)
  <2>1. AfterConsumer(t, FALSE) /\ outbox' = outbox
    BY <1>4 DEF QueryFails, EndDispatch
  <2>2. task[t].con \in ConsumerIds /\ task[t].ev \in Events
    BY <1>1, <1>4 DEF Standing, Placed, Owning
  <2>3. Passes(t, c, e)' => Passed(c, e)
    <3>1. SUFFICES ASSUME task'[t].ev = e, task'[t].stage = "settle" \/ c < task'[t].con
                   PROVE  Passed(c, e)
      BY DEF Passes
    <3>2. /\ task'[t].ev = task[t].ev
          /\ \/ task'[t].stage = "claim" /\ task'[t].con = task[t].con + 1
             \/ ~(task[t].con < Len(Consumers))
      BY <1>1, <1>4, <2>1, AfterConsumerPlace
    <3>3. task[t].ev = e /\ c <= task[t].con
      BY <2>2, <3>1, <3>2, Parameters DEF ConsumerIds
    <3>4. c # task[t].con
      BY <3>3 DEF At
    <3>5. c < task[t].con
      BY <2>2, <3>3, <3>4 DEF ConsumerIds
    <3> QED
      BY <1>1, <1>4, <3>3, <3>5 DEF Passed, Passes, Owning, Standing
  <2> QED
    BY <1>1, <2>1, <2>3, AfterConsumerPlace, LostKept DEF Passed
<1>5. CASE task[t].stage \in {"claim", "markFailed", "deadLetter", "report"} /\ Forced(t)
  <2>1. task' = [task EXCEPT ![t] = Idle] /\ outbox' = outbox
    BY <1>5 DEF QueryFails, EndDispatch
  <2>2. Others(t) /\ ~Passes(t, c, e)'
    BY <2>1 DEF Others, Passes, Idle, Owning, TypeOK
  <2> QED
    BY <1>1, <2>1, <2>2, LostKept DEF Passed
<1> QED
  BY <1>2, <1>3, <1>4, <1>5 DEF QueryFails

LEMMA LossInit == Init => LossInv
<1> SUFFICES ASSUME Init PROVE Lost = {} /\ faults = 0
  BY FS_EmptySet DEF LossInv
<1> QED
  BY DEF Init, Idle, Lost, LostPair, Passed, Passes, Left, Owning

LEMMA LossNext ==
  ASSUME OneReplica, TypeOK, Positioned, Claims, LossInv, [Next]_vars
  PROVE  LossInv'
<1>1. CASE UNCHANGED vars
  <2>1. Lost' = Lost
    BY <1>1 DEF vars, tables, boot, history, budget, Lost, LostPair, Covered, Touched, InFlight, At,
                Passed, Passes, Forced, Left
  <2> QED
    BY <1>1, <2>1 DEF LossInv, vars, budget
<1>2. CASE Next /\ \A t \in Tasks : ~QueryFails(t)
  <2>1. Lost' \subseteq Lost
    BY <1>2, NothingElseLoses DEF Lost
  <2>2. IsFiniteSet(Lost') /\ Cardinality(Lost') <= Cardinality(Lost)
    BY <2>1, FS_Subset DEF LossInv
  <2>3. faults' = faults
    BY <1>2 DEF Next, TaskStep, Claim, HandlerSucceeds, HandlerThrows, MarkProcessed,
                ClearDeadLetter, MarkFailed, DeadLetter, Settle, ReportReplay, CommitMutation,
                Replay, Start, RecoveryStep, SelectPending, NextPending, Crash, Discard, budget
  <2>4. Cardinality(Lost') \in Nat /\ Cardinality(Lost) \in Nat /\ faults \in Nat
    BY <2>2, FS_CardinalityType DEF LossInv, TypeOK
  <2> QED
    BY <2>2, <2>3, <2>4 DEF LossInv
<1>3. ASSUME Next, NEW t \in Tasks, QueryFails(t) PROVE LossInv'
  <2> DEFINE p == <<task[t].con, task[t].ev>>
  <2>1. Lost' \subseteq Lost \cup {p}
    BY <1>3, FaultLosesOne DEF Lost, At
  <2>2. /\ IsFiniteSet(Lost \cup {p})
        /\ Cardinality(Lost \cup {p}) <= Cardinality(Lost) + 1
    <3>1. /\ IsFiniteSet(Lost \cup {p})
          /\ Cardinality(Lost \cup {p}) = IF p \in Lost THEN Cardinality(Lost) ELSE Cardinality(Lost) + 1
      BY FS_AddElement DEF LossInv
    <3>2. Cardinality(Lost) \in Nat
      BY FS_CardinalityType DEF LossInv
    <3> QED
      BY <3>1, <3>2
  <2>3. IsFiniteSet(Lost') /\ Cardinality(Lost') <= Cardinality(Lost \cup {p})
    BY <2>1, <2>2, FS_Subset
  <2>4. /\ Cardinality(Lost') \in Nat /\ Cardinality(Lost) \in Nat
        /\ Cardinality(Lost \cup {p}) \in Nat /\ faults \in Nat
    BY <2>2, <2>3, FS_CardinalityType DEF LossInv, TypeOK
  <2>5. faults' = faults + 1
    BY <1>3 DEF QueryFails
  <2> QED
    BY <2>2, <2>3, <2>4, <2>5 DEF LossInv
<1> QED
  BY <1>1, <1>2, <1>3

LEMMA LossBounded ==
  ASSUME TypeOK, LossInv
  PROVE  LossIsIsolated
<1> DEFINE U == {p \in ConsumerIds \X Events : Unhandled(p[1], p[2])} \ orphans
<1>1. U \subseteq Lost
  BY DEF Lost, LostPair, Unhandled, Passed, Covered, Touched
<1>2. IsFiniteSet(U) /\ Cardinality(U) <= Cardinality(Lost)
  BY <1>1, FS_Subset DEF LossInv
<1>3. Cardinality(U) \in Nat /\ Cardinality(Lost) \in Nat /\ faults \in Nat
  BY <1>2, FS_CardinalityType DEF LossInv, TypeOK
<1> QED
  BY <1>2, <1>3 DEF LossInv, LossIsIsolated

(* event-bus.ts:69-81 and consumer-registry.service.ts:78-86: each failed  *)
(* query costs one consumer at most, and only a crash orphans a claim.     *)
THEOREM LossesAreIsolated == OneReplica => (Spec => []LossIsIsolated)
<1> SUFFICES ASSUME OneReplica PROVE Spec => []LossIsIsolated
  OBVIOUS
<1> DEFINE I == TypeOK /\ Positioned /\ Claims /\ LossInv
<1>1. Init => I
  BY TypeInit, PositionedInit, ClaimsInit, LossInit
<1>2. I /\ [Next]_vars => I'
  BY TypeNext, PositionedNext, ClaimsNext, LossNext
<1>3. I => LossIsIsolated
  BY LossBounded
<1> QED
  BY <1>1, <1>2, <1>3, PTL DEF Spec
=============================================================================
