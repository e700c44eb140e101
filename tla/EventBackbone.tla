---------------------------- MODULE EventBackbone ----------------------------
(***************************************************************************)
(* The event backbone of Cadena: the transactional outbox                  *)
(* (event-outbox.service.ts), sequential delivery to the registered        *)
(* consumers (event-bus.ts), the claim / retry / dead-letter protocol of   *)
(* EventConsumerRegistry, and the operator's replay and discard of         *)
(* DeadLetterService.                                                      *)
(*                                                                         *)
(* Every API replica runs tasks: its start-up recovery, publishers (a      *)
(* request handler or scheduler tick that commits a mutation and then      *)
(* dispatches its event) and operators.  All replicas share the tables.    *)
(* Each awaited query or handler call of a task is a step of its own.      *)
(***************************************************************************)
EXTENDS Naturals, Sequences, FiniteSets

CONSTANTS Replicas,        \* API processes over one database
          Publishers,      \* concurrent mutations per process
          Operators,       \* concurrent dead-letter replays per process
          Events,          \* events that may be committed
          Consumers,       \* the registered consumers, in subscription order
          MaxAttempts,     \* maxAttempts of a consumer definition
          RecoveryPasses,  \* bootstrap hooks that call recoverPending
          RecoveryLimit,   \* the row limit of recoverPending
          MaxCrashes,      \* bound: process crashes in a behaviour
          MaxFaults,       \* bound: failed queries in a behaviour
          MaxReplays,      \* bound: operator replays in a behaviour
          MaxTrouble       \* bound: crashes, failed queries and replays together

Recovery == "recovery"
Tasks == Replicas \X (Publishers \cup Operators \cup {Recovery})
ConsumerIds == 1 .. Len(Consumers)

ASSUME TaskAssumption == /\ Recovery \notin Publishers \cup Operators
                         /\ Publishers \cap Operators = {}
ASSUME ConsumerAssumption == Len(Consumers) \in Nat \ {0}
ASSUME AttemptAssumption == MaxAttempts \in Nat \ {0}
ASSUME RecoveryAssumption == RecoveryPasses \in Nat \ {0} /\ RecoveryLimit \in Nat \ {0}
ASSUME BoundAssumption == MaxCrashes \in Nat /\ MaxFaults \in Nat /\ MaxReplays \in Nat
                          /\ MaxTrouble \in Nat

VARIABLES outbox,       \* event_outbox.status of each event
          created,      \* committed events in created_at order
          consumption,  \* event_consumptions.status per consumer and event
          deadLetters,  \* dead_letter_events.status per consumer and event
          up,           \* the processes that run
          task,         \* where each task of each process is
          todo,         \* pending rows its recovery has selected
          pass,         \* recovery passes still to run after this one
          handled,      \* history: completed handler runs, counted to 2
          orphans,      \* history: claims a crash cut short although the
                        \* event was already settled
          crashes, faults, replays

tables == <<outbox, created, consumption, deadLetters>>
boot == <<up, todo, pass>>
history == <<handled, orphans>>
budget == <<crashes, faults, replays>>
vars == <<tables, task, boot, history, budget>>

NoEvent == "none"
Idle == [stage |-> "idle", ev |-> NoEvent, con |-> 0, attempt |-> 0, ok |-> FALSE]

(* Stages of a task while it owns the claim of its consumer and event.     *)
Owning == {"handle", "mark", "clear", "markFailed", "deadLetter"}

Forced(t) == t[2] \in Operators
MayHappen == crashes + faults + replays < MaxTrouble
At(t, c, e) == task[t].con = c /\ task[t].ev = e
Move(t, stage) == task' = [task EXCEPT ![t].stage = stage]

-----------------------------------------------------------------------------
Init == /\ outbox = [e \in Events |-> "none"]
        /\ created = << >>
        /\ consumption = [c \in ConsumerIds |-> [e \in Events |-> "none"]]
        /\ deadLetters = [c \in ConsumerIds |-> [e \in Events |-> "none"]]
        /\ up = {}
        /\ task = [t \in Tasks |-> Idle]
        /\ todo = [r \in Replicas |-> {}]
        /\ pass = [r \in Replicas |-> 0]
        /\ handled = [c \in ConsumerIds |-> [e \in Events |-> 0]]
        /\ orphans = {}
        /\ crashes = 0
        /\ faults = 0
        /\ replays = 0

(***************************************************************************)
(* Starting, recovering and stopping a process.                            *)
(***************************************************************************)

(* EventConsumerRegistry.onModuleInit makes every row left in 'processing' *)
(* claimable again ...                                                     *)
ReclaimedMutant(status) == status
Reclaimed(status) == IF status = "processing" THEN "failed" ELSE status

(* ... then the bootstrap hooks begin to recover.                          *)
Start(r) ==
  /\ r \notin up
  /\ up' = up \cup {r}
  /\ consumption' = [c \in ConsumerIds |-> [e \in Events |-> Reclaimed(consumption[c][e])]]
  /\ task' = [task EXCEPT ![<<r, Recovery>>].stage = "select"]
  /\ pass' = [pass EXCEPT ![r] = RecoveryPasses - 1]
  /\ UNCHANGED <<outbox, created, deadLetters, todo, history, budget>>

(* Deliver(t, e): dispatch publishes e to the first consumer.              *)
Deliver(t, e) ==
  task' = [task EXCEPT ![t] = [stage |-> "claim", ev |-> e, con |-> 1,
                               attempt |-> 0, ok |-> FALSE]]

(* recoverPending selects the pending rows, oldest first, up to its limit. *)
Pending == {e \in Events : outbox[e] = "pending"}
Older(d, e) == \E i, j \in DOMAIN created : i < j /\ created[i] = d /\ created[j] = e

LimitedMutant(rows) == {e \in rows : \E d \in rows : Older(d, e)}
Limited(rows) == {e \in rows : Cardinality({d \in rows : Older(d, e)}) < RecoveryLimit}

SelectPending(r) ==
  /\ task[<<r, Recovery>>].stage = "select"
  /\ todo' = [todo EXCEPT ![r] = Limited(Pending)]
  /\ Move(<<r, Recovery>>, "next")
  /\ UNCHANGED <<tables, up, pass, history, budget>>

(* It dispatches them one after another; then the next hook's pass runs.   *)
NextPending(r) ==
  LET t == <<r, Recovery>>
  IN  /\ task[t].stage = "next"
      /\ \/ \E e \in todo[r] :
              /\ \A d \in todo[r] : ~Older(d, e)
              /\ Deliver(t, e)
              /\ todo' = [todo EXCEPT ![r] = @ \ {e}]
              /\ UNCHANGED pass
         \/ /\ todo[r] = {} /\ pass[r] > 0
            /\ pass' = [pass EXCEPT ![r] = @ - 1]
            /\ Move(t, "select")
            /\ UNCHANGED todo
         \/ /\ todo[r] = {} /\ pass[r] = 0
            /\ task' = [task EXCEPT ![t] = Idle]
            /\ UNCHANGED <<todo, pass>>
      /\ UNCHANGED <<tables, up, history, budget>>

(* The process stops between two steps: its tasks are gone, its tables     *)
(* stay.  A claim it held on an event that is already settled is orphaned. *)
Crash(r) ==
  /\ r \in up
  /\ crashes < MaxCrashes /\ MayHappen
  /\ crashes' = crashes + 1
  /\ up' = up \ {r}
  /\ orphans' = orphans \cup
       {<<task[t].con, task[t].ev>> :
          t \in {t \in Tasks : t[1] = r /\ task[t].stage \in Owning
                               /\ outbox[task[t].ev] = "dispatched"}}
  /\ task' = [t \in Tasks |-> IF t[1] = r THEN Idle ELSE task[t]]
  /\ todo' = [todo EXCEPT ![r] = {}]
  /\ pass' = [pass EXCEPT ![r] = 0]
  /\ UNCHANGED <<tables, handled, faults, replays>>

(***************************************************************************)
(* Publishing and delivering.                                              *)
(***************************************************************************)

(* The mutation, its event and its outbox row commit together; after the   *)
(* commit the same request dispatches the event.  Scheduler ticks publish  *)
(* as soon as their module is initialized, so also while others recover.   *)
(* created_at is taken before the transaction commits, so a later commit   *)
(* may carry an earlier time.                                              *)
CommitMutation(t, e) ==
  /\ t[1] \in up
  /\ t[2] \in Publishers
  /\ task[t].stage = "idle"
  /\ outbox[e] = "none"
  /\ outbox' = [outbox EXCEPT ![e] = "pending"]
  /\ \E i \in 0 .. Len(created) :
       created' = SubSeq(created, 1, i) \o <<e>> \o SubSeq(created, i + 1, Len(created))
  /\ Deliver(t, e)
  /\ UNCHANGED <<consumption, deadLetters, boot, history, budget>>

AfterConsumerMutant(t, ok) ==
  task' = [task EXCEPT ![t] =
    IF Forced(t) THEN [task[t] EXCEPT !.stage = "report", !.ok = ok]
    ELSE IF ok /\ task[t].con < Len(Consumers)
      THEN [task[t] EXCEPT !.stage = "claim", !.con = @ + 1, !.attempt = 0]
      ELSE [task[t] EXCEPT !.stage = "settle", !.attempt = 0]]

(* The bus goes on to the next consumer.  dispatch settles the outbox row  *)
(* after the last one; a replay serves one consumer only.                  *)
AfterConsumer(t, ok) ==
  task' = [task EXCEPT ![t] =
    IF Forced(t) THEN [task[t] EXCEPT !.stage = "report", !.ok = ok]
    ELSE IF task[t].con < Len(Consumers)
      THEN [task[t] EXCEPT !.stage = "claim", !.con = @ + 1, !.attempt = 0]
      ELSE [task[t] EXCEPT !.stage = "settle", !.attempt = 0]]

(* claim: one upsert, won when the pair is new or 'failed', or by force.   *)
ClaimableMutantProcessing(t, status) == Forced(t) \/ status # "processed"
ClaimableMutantProcessed(t, status) == Forced(t) \/ status # "processing"
Claimable(t, status) == Forced(t) \/ status \in {"none", "failed"}

Claim(t) ==
  LET c == task[t].con
      e == task[t].ev
  IN  /\ task[t].stage = "claim"
      /\ IF Claimable(t, consumption[c][e])
           THEN /\ consumption' = [consumption EXCEPT ![c][e] = "processing"]
                /\ task' = [task EXCEPT ![t].stage = "handle", ![t].attempt = 1]
           ELSE /\ AfterConsumer(t, FALSE)
                /\ UNCHANGED consumption
      /\ UNCHANGED <<outbox, created, deadLetters, boot, history, budget>>

FailAttemptMutant(t) ==
  task' = [task EXCEPT ![t] =
    IF task[t].attempt <= MaxAttempts
      THEN [task[t] EXCEPT !.stage = "handle", !.attempt = @ + 1]
      ELSE [task[t] EXCEPT !.stage = "markFailed"]]

(* The catch of the retry loop: another attempt, or the attempts are spent.*)
FailAttempt(t) ==
  task' = [task EXCEPT ![t] =
    IF task[t].attempt < MaxAttempts
      THEN [task[t] EXCEPT !.stage = "handle", !.attempt = @ + 1]
      ELSE [task[t] EXCEPT !.stage = "markFailed"]]

(* definition.handle(event) succeeds ...                                   *)
HandlerSucceeds(t) ==
  LET c == task[t].con
      e == task[t].ev
  IN  /\ task[t].stage = "handle"
      /\ handled' = [handled EXCEPT ![c][e] = IF @ < 2 THEN @ + 1 ELSE @]
      /\ Move(t, "mark")
      /\ UNCHANGED <<tables, boot, orphans, budget>>

(* ... or throws.                                                          *)
HandlerThrows(t) ==
  /\ task[t].stage = "handle"
  /\ FailAttempt(t)
  /\ UNCHANGED <<tables, boot, history, budget>>

MarkProcessed(t) ==
  /\ task[t].stage = "mark"
  /\ consumption' = [consumption EXCEPT ![task[t].con][task[t].ev] = "processed"]
  /\ Move(t, "clear")
  /\ UNCHANGED <<outbox, created, deadLetters, boot, history, budget>>

(* clearDeadLetter resolves a dead entry of this consumer and event.       *)
ClearDeadLetter(t) ==
  /\ task[t].stage = "clear"
  /\ deadLetters' = [deadLetters EXCEPT ![task[t].con][task[t].ev] =
                       IF @ = "dead" THEN "replayed" ELSE @]
  /\ AfterConsumer(t, TRUE)
  /\ UNCHANGED <<outbox, created, consumption, boot, history, budget>>

MarkFailed(t) ==
  /\ task[t].stage = "markFailed"
  /\ consumption' = [consumption EXCEPT ![task[t].con][task[t].ev] = "failed"]
  /\ Move(t, "deadLetter")
  /\ UNCHANGED <<outbox, created, deadLetters, boot, history, budget>>

(* deadLetter: the entry is (again) 'dead', whatever it was before.  The   *)
(* tenant it resolves before and the alert it raises after change none of  *)
(* these rows and are part of the step; an error in them leaves what       *)
(* QueryFails leaves, or this.                                             *)
DeadLetter(t) ==
  /\ task[t].stage = "deadLetter"
  /\ deadLetters' = [deadLetters EXCEPT ![task[t].con][task[t].ev] = "dead"]
  /\ AfterConsumer(t, FALSE)
  /\ UNCHANGED <<outbox, created, consumption, boot, history, budget>>

(* dispatch marks the outbox row, whoever handled the event; the recovery  *)
(* goes on with its next row, a publisher is done.                         *)
Settled(t) == IF t[2] = Recovery
                THEN task' = [task EXCEPT ![t] = [Idle EXCEPT !.stage = "next"]]
                ELSE task' = [task EXCEPT ![t] = Idle]

Settle(t) ==
  /\ task[t].stage = "settle"
  /\ outbox' = [outbox EXCEPT ![task[t].ev] = "dispatched"]
  /\ Settled(t)
  /\ UNCHANGED <<created, consumption, deadLetters, boot, history, budget>>

(* A query of a task fails.  Inside the retry loop that is a failed        *)
(* attempt.  Outside it the error ends the consumer's dispatch: the        *)
(* subscription swallows it, an operator is told of it.  A failed settle   *)
(* leaves the row 'pending'.  (A recovery whose SELECT fails ends the      *)
(* start of its process: Crash.)                                           *)
EndDispatch(t) == IF Forced(t) THEN task' = [task EXCEPT ![t] = Idle] ELSE AfterConsumer(t, FALSE)

QueryFails(t) ==
  /\ task[t].stage \in {"claim", "mark", "clear", "markFailed", "deadLetter", "settle", "report"}
  /\ faults < MaxFaults /\ MayHappen
  /\ faults' = faults + 1
  /\ CASE task[t].stage \in {"mark", "clear"} -> FailAttempt(t) /\ UNCHANGED outbox
       [] task[t].stage = "settle" ->
            /\ outbox' = [outbox EXCEPT ![task[t].ev] = "pending"]
            /\ Settled(t)
       [] OTHER -> EndDispatch(t) /\ UNCHANGED outbox
  /\ UNCHANGED <<created, consumption, deadLetters, boot, history, crashes, replays>>

(***************************************************************************)
(* The operator's dead-letter queue.                                       *)
(***************************************************************************)

(* replay reads the entry, refuses a discarded one, and dispatches the     *)
(* event to its consumer by force.                                         *)
Replay(t, c, e) ==
  /\ t[1] \in up
  /\ t[2] \in Operators
  /\ task[t].stage = "idle"
  /\ deadLetters[c][e] \in {"dead", "replayed"}
  /\ replays < MaxReplays /\ MayHappen
  /\ replays' = replays + 1
  /\ task' = [task EXCEPT ![t] = [stage |-> "claim", ev |-> e, con |-> c,
                                  attempt |-> 0, ok |-> FALSE]]
  /\ UNCHANGED <<tables, boot, history, crashes, faults>>

(* The last UPDATE of replay writes its outcome into the entry.            *)
ReportReplay(t) ==
  /\ task[t].stage = "report"
  /\ deadLetters' = [deadLetters EXCEPT ![task[t].con][task[t].ev] =
                       IF task[t].ok THEN "replayed" ELSE "dead"]
  /\ task' = [task EXCEPT ![t] = Idle]
  /\ UNCHANGED <<outbox, created, consumption, boot, history, budget>>

Discard(c, e) ==
  /\ Operators # {}
  /\ up # {}
  /\ deadLetters[c][e] \in {"dead", "replayed"}
  /\ deadLetters' = [deadLetters EXCEPT ![c][e] = "discarded"]
  /\ UNCHANGED <<outbox, created, consumption, task, boot, history, budget>>

-----------------------------------------------------------------------------
TaskStep(t) == \/ Claim(t)
               \/ HandlerSucceeds(t)
               \/ HandlerThrows(t)
               \/ MarkProcessed(t)
               \/ ClearDeadLetter(t)
               \/ MarkFailed(t)
               \/ DeadLetter(t)
               \/ Settle(t)
               \/ ReportReplay(t)

RecoveryStep(r) == SelectPending(r) \/ NextPending(r)

Next == \/ \E t \in Tasks : \/ TaskStep(t)
                            \/ QueryFails(t)
                            \/ \E e \in Events : CommitMutation(t, e)
                            \/ \E c \in ConsumerIds, e \in Events : Replay(t, c, e)
        \/ \E r \in Replicas : Start(r) \/ RecoveryStep(r) \/ Crash(r)
        \/ \E c \in ConsumerIds, e \in Events : Discard(c, e)

Spec == Init /\ [][Next]_vars

(* A running task gets its turn, and a stopped process is started again.   *)
Fairness == /\ \A t \in Tasks : WF_vars(TaskStep(t))
            /\ \A r \in Replicas : WF_vars(RecoveryStep(r)) /\ WF_vars(Start(r))
FairSpec == Spec /\ Fairness

-----------------------------------------------------------------------------
(***************************************************************************)
(* Properties.                                                             *)
(***************************************************************************)

TaskType == [stage : Owning \cup {"idle", "select", "next", "claim", "settle", "report"},
             ev : Events \cup {NoEvent},
             con : 0 .. Len(Consumers),
             attempt : 0 .. MaxAttempts,
             ok : BOOLEAN]

(* Every column holds one of the statuses the schema names, and every task *)
(* is at one of the code's await points.                                   *)
TypeOK ==
  /\ outbox \in [Events -> {"none", "pending", "dispatched"}]
  /\ created \in Seq(Events)
  /\ consumption \in [ConsumerIds -> [Events -> {"none", "processing", "processed", "failed"}]]
  /\ deadLetters \in [ConsumerIds -> [Events -> {"none", "dead", "replayed", "discarded"}]]
  /\ up \subseteq Replicas
  /\ task \in [Tasks -> TaskType]
  /\ todo \in [Replicas -> SUBSET Events]
  /\ pass \in [Replicas -> 0 .. RecoveryPasses]
  /\ handled \in [ConsumerIds -> [Events -> 0 .. 2]]
  /\ orphans \subseteq ConsumerIds \X Events
  /\ crashes \in 0 .. MaxCrashes
  /\ faults \in 0 .. MaxFaults
  /\ replays \in 0 .. MaxReplays

InFlight(c, e) == \E t \in Tasks : task[t].stage # "idle" /\ At(t, c, e)
                                   /\ task[t].stage \in Owning \cup {"report"}

(* The claim of consumer-registry.service.ts:150-160: of the deliveries of *)
(* one event to one consumer (a publisher, three recovery passes) exactly  *)
(* one caller wins, so the side effect never runs twice at the same time,  *)
(* unless an operator's replay takes the claim by force.                   *)
OneCallerWins ==
  replays = 0 => \A c \in ConsumerIds, e \in Events :
    Cardinality({t \in Tasks : task[t].stage \in {"handle", "mark", "clear"}
                               /\ At(t, c, e)}) <= 1

(* Without a crash in the middle of a handler the side effect happens at   *)
(* most once, however many deliveries of the event there are.              *)
EffectOnce ==
  crashes + faults + replays = 0 => \A c \in ConsumerIds, e \in Events : handled[c][e] <= 1

Unhandled(c, e) == /\ outbox[e] = "dispatched"
                   /\ consumption[c][e] # "processed"
                   /\ deadLetters[c][e] = "none"
                   /\ ~InFlight(c, e)

(* The bus isolates the consumers of an event: each failed query costs the *)
(* delivery to one consumer at most.  Without one, the only way to lose an *)
(* event is a crash that cuts a handler short after another delivery,      *)
(* having lost the claim, already settled the event.                       *)
LossIsIsolated ==
  Cardinality({p \in ConsumerIds \X Events : Unhandled(p[1], p[2])} \ orphans) <= faults

(* Delivered in the end, by its own publisher or by a later start.         *)
EveryEventDelivered ==
  \A e \in Events : outbox[e] = "pending" ~> outbox[e] = "dispatched" \/ faults > 0

(* In the end no claim is left hanging: an event some consumer took is     *)
(* processed, dead-lettered, or one of the orphans.                        *)
EveryClaimConcludes ==
  \A c \in ConsumerIds, e \in Events :
    consumption[c][e] = "processing" ~>
      \/ consumption[c][e] = "processed"
      \/ deadLetters[c][e] # "none"
      \/ <<c, e>> \in orphans
      \/ faults > 0

(* event-outbox.service.ts:22-25: every committed event is delivered in    *)
(* the end, and no claim on one is left hanging, unless a query fails (a   *)
(* failed settlement waits for the next start of a process).               *)
EveryEventConcludes == EveryEventDelivered /\ EveryClaimConcludes
=============================================================================
