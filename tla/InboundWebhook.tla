--------------------------- MODULE InboundWebhook ---------------------------
(***************************************************************************)
(* The ingestion queue behind HTTP 202 (integrations/inbound-webhook-      *)
(* queue.service.ts), the Git gateway it feeds (integration.service.ts,    *)
(* integration-support.ts) and the registry and outbox that drive it       *)
(* (events/consumer-registry.service.ts, event-outbox.service.ts,          *)
(* dead-letter.service.ts): a delivery and its event are stored together,  *)
(* the registry claims the event and calls the handler, which waits in a   *)
(* serial line, retries it and keeps what it gives up for an operator.     *)
(* One process, which may stop, and recovery passes of others.             *)
(***************************************************************************)
EXTENDS Naturals, Sequences, FiniteSets, Functions

CONSTANTS Deliveries,   \* delivery ids of one tenant and provider
          Operators,    \* who may replay a dead letter
          Items,        \* stories
          Mentions,     \* the stories a delivery mentions and asks to move
          MaxAttempts,  \* MAX_PROCESSING_ATTEMPTS
          Budgets       \* bound: troubles a behaviour may meet, by kind

VARIABLES delivery,    \* the rows of integration_deliveries
          event,       \* their InboundWebhookAccepted events in event_outbox
          consumption, \* their rows of event_consumptions
          letter,      \* their rows of dead_letter_events
          task,        \* the dispatch of each event, and each operator's replay
          line,        \* processingTail: the tasks whose handler was called
          worker,      \* the handler at the head of the line
          item,        \* status of each story
          links,       \* rows of external_artifact_links
          moved,       \* history: transitions this consumer applied
          troubled,    \* history: deliveries whose handling was cut short
          dropped,     \* history: events settled with nobody left to handle them
          trouble      \* troubles still to come

stored == <<delivery, event, consumption, letter>>
effects == <<item, links, moved>>
vars == <<stored, task, line, worker, effects, troubled, dropped, trouble>>

NoRow == [status |-> "none", attempts |-> 0, applied |-> {}]
Rest == [stage |-> "rest", todo |-> {}, applied |-> {}]
Tasks == Deliveries \cup Operators
Forced(t) == t \in Operators
Free == [stage |-> "idle", of |-> "none", tries |-> 0, processed |-> FALSE]
AtWork == line # << >>
Hit(kind) == /\ kind \in DOMAIN trouble /\ trouble[kind] > 0
             /\ trouble' = [trouble EXCEPT ![kind] = @ - 1]

Init == /\ delivery = [d \in Deliveries |-> NoRow]
        /\ event = [d \in Deliveries |-> "none"]
        /\ consumption = [d \in Deliveries |-> "none"]
        /\ letter = [d \in Deliveries |-> "none"]
        /\ task = [t \in Tasks |-> Free]
        /\ line = << >>
        /\ worker = Rest
        /\ item \in [Items -> {"InProgress", "Planned"}]
        /\ links = {}
        /\ moved = {}
        /\ troubled = {}
        /\ dropped = {}
        /\ trouble \in Budgets

(***************************************************************************)
(* Acceptance: the row and its event in one transaction, once per id.      *)
(***************************************************************************)

AcceptMutant(d) == /\ delivery[d].status = "none"
                   /\ delivery' = [delivery EXCEPT ![d].status = "queued"]
                   /\ event' \in {event, [event EXCEPT ![d] = "pending"]}
                   /\ UNCHANGED <<consumption, letter, task, line, worker, effects, troubled, dropped, trouble>>
Accept(d) == /\ delivery[d].status = "none"
             /\ delivery' = [delivery EXCEPT ![d].status = "queued"]
             /\ event' = [event EXCEPT ![d] = "pending"]
             /\ UNCHANGED <<consumption, letter, task, line, worker, effects, troubled, dropped, trouble>>

(***************************************************************************)
(* The registry's dispatch, its claim, attempts and outcome, for the       *)
(* outbox, which then settles the event, or for an operator's replay.      *)
(***************************************************************************)

Begin(t, d) == task' = [task EXCEPT ![t] = [Free EXCEPT !.stage = "claim", !.of = d]]
At(t, stage) == task' = [task EXCEPT ![t].stage = stage]
Ends(t) == task' = [task EXCEPT ![t] = Free]

(* The detached dispatch, or a recovery pass that finds the event pending. *)
Dispatch(d) == /\ event[d] = "pending" /\ task[d].stage = "idle"
               /\ Begin(d, d)
               /\ UNCHANGED <<stored, line, worker, effects, troubled, dropped, trouble>>
Replay(o, d) == /\ task[o].stage = "idle" /\ letter[d] \in {"dead", "replayed"}
                /\ Hit("replay")
                /\ Begin(o, d)
                /\ UNCHANGED <<stored, line, worker, effects, troubled, dropped>>
Discard(d) == /\ letter[d] \in {"dead", "replayed"}
              /\ letter' = [letter EXCEPT ![d] = "discarded"]
              /\ UNCHANGED <<delivery, event, consumption, task, line, worker, effects, troubled, dropped, trouble>>

Queue(t) == /\ line' = Append(line, t)
            /\ At(t, "line")
ClaimEvent(t) ==
  LET d == task[t].of IN
  /\ task[t].stage = "claim"
  /\ IF Forced(t) \/ consumption[d] \in {"none", "failed"}
       THEN consumption' = [consumption EXCEPT ![d] = "processing"] /\ Queue(t)
       ELSE At(t, "settle") /\ UNCHANGED <<consumption, line>>
  /\ UNCHANGED <<delivery, event, letter, worker, effects, troubled, dropped, trouble>>

(* A pass that loses the claim to the task at work settles the event.      *)
Overtake(d) == /\ event[d] = "pending" /\ task[d].stage # "idle"
               /\ consumption[d] \in {"processing", "processed"}
               /\ event' = [event EXCEPT ![d] = "dispatched"]
               /\ UNCHANGED <<delivery, consumption, letter, task, line, worker, effects, troubled, dropped, trouble>>

Retry(t) == /\ task[t].stage = "again"
            /\ Queue(t)
            /\ UNCHANGED <<stored, worker, effects, troubled, dropped, trouble>>
AfterFailureMutant(t) == [task[t] EXCEPT !.stage = "again", !.tries = @ + 1]
AfterFailure(t) == IF task[t].tries + 1 < MaxAttempts
                     THEN [task[t] EXCEPT !.stage = "again", !.tries = @ + 1]
                     ELSE [task[t] EXCEPT !.stage = "markFailed"]

MarkProcessed(t) == /\ task[t].stage = "mark"
                    /\ consumption' = [consumption EXCEPT ![task[t].of] = "processed"]
                    /\ At(t, "clear")
                    /\ UNCHANGED <<delivery, event, letter, line, worker, effects, troubled, dropped, trouble>>
MarkFailed(t) == /\ task[t].stage = "markFailed"
                 /\ consumption' = [consumption EXCEPT ![task[t].of] = "failed"]
                 /\ At(t, "letter")
                 /\ UNCHANGED <<delivery, event, letter, line, worker, effects, troubled, dropped, trouble>>
Outcome(t, processed) ==
  task' = [task EXCEPT ![t].stage = IF Forced(t) THEN "report" ELSE "settle", ![t].processed = processed]
ClearDeadLetter(t) == /\ task[t].stage = "clear"
                      /\ letter' = [letter EXCEPT ![task[t].of] = IF @ = "dead" THEN "replayed" ELSE @]
                      /\ Outcome(t, TRUE)
                      /\ UNCHANGED <<delivery, event, consumption, line, worker, effects, troubled, dropped, trouble>>
DeadLetter(t) == /\ task[t].stage = "letter"
                 /\ letter' = [letter EXCEPT ![task[t].of] = "dead"]
                 /\ Outcome(t, FALSE)
                 /\ UNCHANGED <<delivery, event, consumption, line, worker, effects, troubled, dropped, trouble>>

(* The outbox settles the event; the replay writes its outcome.            *)
Settle(t) == /\ task[t].stage = "settle"
             /\ event' = [event EXCEPT ![task[t].of] = "dispatched"]
             /\ Ends(t)
             /\ UNCHANGED <<delivery, consumption, letter, line, worker, effects, troubled, dropped, trouble>>
Report(t) == /\ task[t].stage = "report"
             /\ letter' = [letter EXCEPT ![task[t].of] = IF task[t].processed THEN "replayed" ELSE "dead"]
             /\ Ends(t)
             /\ UNCHANGED <<delivery, event, consumption, line, worker, effects, troubled, dropped, trouble>>

(* A failing query is a failed attempt after the handler, is swallowed     *)
(* before the outbox settles the event, is told to the operator otherwise; *)
(* an event that could not be settled waits for a recovery pass.           *)
AttemptFails(t) == /\ task[t].stage \in {"mark", "clear"}
                   /\ Hit("fault")
                   /\ task' = [task EXCEPT ![t] = AfterFailure(t)]
                   /\ UNCHANGED <<stored, line, worker, effects, troubled, dropped>>
RegistryFails(t) == /\ task[t].stage \in {"claim", "markFailed", "letter"}
                    /\ Hit("fault")
                    /\ IF Forced(t) THEN Ends(t) /\ UNCHANGED dropped
                                    ELSE At(t, "settle") /\ dropped' = dropped \cup {task[t].of}
                    /\ UNCHANGED <<stored, line, worker, effects, troubled>>
SettleFails(t) == /\ task[t].stage \in {"settle", "report"}
                  /\ Hit("fault")
                  /\ Ends(t)
                  /\ UNCHANGED <<stored, line, worker, effects, troubled, dropped>>

(***************************************************************************)
(* The serial consumer, processEvent and processQueuedGitWebhook.          *)
(***************************************************************************)

D == task[Head(line)].of

(* The handler returned, or threw: its task leaves the line.               *)
Return == /\ line' = Tail(line)
          /\ At(Head(line), "mark")
          /\ worker' = Rest
Throw == /\ line' = Tail(line)
         /\ task' = [task EXCEPT ![Head(line)] = AfterFailure(Head(line))]
         /\ worker' = Rest

(* A row that another task completed is not claimed, and no error.         *)
Claimable(d) == delivery[d].status \in {"queued", "processing", "failed"}
Skip == /\ AtWork /\ worker.stage = "rest" /\ ~Claimable(D)
        /\ Return
        /\ UNCHANGED <<stored, effects, troubled, dropped, trouble>>
Claim == /\ AtWork /\ worker.stage = "rest" /\ Claimable(D)
         /\ delivery' = [delivery EXCEPT ![D].status = "processing", ![D].attempts = @ + 1]
         /\ worker' = [stage |-> "link", todo |-> Mentions[D], applied |-> {}]
         /\ UNCHANGED <<event, consumption, letter, task, line, effects, troubled, dropped, trouble>>
ClaimFails == /\ AtWork /\ worker.stage = "rest"
              /\ Hit("fault")
              /\ Throw
              /\ UNCHANGED <<stored, effects, troubled, dropped>>

(* The artifact is upserted, each story linked to it, on no conflict.      *)
Linked(d) == {d} \X Mentions[d]
Link == /\ worker.stage = "link"
        /\ links' = links \cup Linked(D)
        /\ worker' = [worker EXCEPT !.stage = "move"]
        /\ UNCHANGED <<stored, task, line, item, moved, troubled, dropped, trouble>>

(* attemptTransition: any error, of the workflow or of the database, is a  *)
(* skipped transition.                                                     *)
MoveMutant(i) ==
  /\ worker.stage = "move" /\ i \in worker.todo
  /\ item' = [item EXCEPT ![i] = IF @ = "InProgress" THEN "InReview" ELSE @]
  /\ moved' = IF item[i] = "InProgress" THEN moved \cup {<<D, i>>} ELSE moved
  /\ worker' = [worker EXCEPT !.todo = @ \ {i}, !.applied = @ \cup {i}]
  /\ UNCHANGED <<stored, task, line, links, troubled, dropped, trouble>>
Move(i) ==
  /\ worker.stage = "move" /\ i \in worker.todo
  /\ IF item[i] = "InProgress"
       THEN /\ item' = [item EXCEPT ![i] = "InReview"]
            /\ moved' = moved \cup {<<D, i>>}
            /\ worker' = [worker EXCEPT !.todo = @ \ {i}, !.applied = @ \cup {i}]
       ELSE /\ UNCHANGED <<item, moved>>
            /\ worker' = [worker EXCEPT !.todo = @ \ {i}]
  /\ UNCHANGED <<stored, task, line, links, troubled, dropped, trouble>>
MoveFails(i) ==
  /\ worker.stage = "move" /\ i \in worker.todo
  /\ Hit("fault")
  /\ worker' = [worker EXCEPT !.todo = @ \ {i}]
  /\ troubled' = troubled \cup {D}
  /\ UNCHANGED <<stored, task, line, effects, dropped>>

Complete == /\ worker.stage = "move" /\ worker.todo = {}
            /\ delivery' = [delivery EXCEPT ![D].status = "completed", ![D].applied = worker.applied]
            /\ worker' = [worker EXCEPT !.stage = "publish"]
            /\ UNCHANGED <<event, consumption, letter, task, line, effects, troubled, dropped, trouble>>

Publish == /\ worker.stage = "publish"
           /\ Return
           /\ UNCHANGED <<stored, effects, troubled, dropped, trouble>>

(* An error is stored on the row, whatever it was, unless that fails too,  *)
(* and thrown on.                                                          *)
RequeuedMutant(d) == "failed"
Requeued(d) == IF delivery[d].attempts >= MaxAttempts THEN "failed" ELSE "queued"
Fail == /\ AtWork /\ worker.stage # "rest"
        /\ Hit("fault")
        /\ delivery' \in {delivery, [delivery EXCEPT ![D].status = Requeued(D)]}
        /\ Throw
        /\ troubled' = troubled \cup {D}
        /\ UNCHANGED <<event, consumption, letter, effects, dropped>>

(* A person moves a story.                                                 *)
Resume(i) == /\ Hit("person")
             /\ item' = [item EXCEPT ![i] = "InProgress"]
             /\ UNCHANGED <<stored, task, line, worker, links, moved, troubled, dropped>>

(* The process stops and starts: rows in processing are queued again, and  *)
(* claims are given up.  A task whose event was settled before is lost.    *)
Reset(row) == IF row.status = "processing" THEN [row EXCEPT !.status = "queued"] ELSE row
ReopenedMutant(status) == status
Reopened(status) == IF status = "processing" THEN "failed" ELSE status
Unhandled(d) == event[d] = "dispatched" /\ task[d].stage \in {"line", "again", "markFailed", "letter"}
Crash == /\ Hit("crash")
         /\ delivery' = [d \in Deliveries |-> Reset(delivery[d])]
         /\ consumption' = [d \in Deliveries |-> Reopened(consumption[d])]
         /\ task' = [t \in Tasks |-> Free]
         /\ line' = << >>
         /\ worker' = Rest
         /\ troubled' = troubled \cup (IF AtWork THEN {D} ELSE {})
         /\ dropped' = dropped \cup {d \in Deliveries : Unhandled(d)}
         /\ UNCHANGED <<event, letter, effects>>

Next == \/ \E d \in Deliveries : Accept(d) \/ Dispatch(d) \/ Overtake(d) \/ Discard(d)
        \/ \E o \in Operators, d \in Deliveries : Replay(o, d)
        \/ \E t \in Tasks : \/ ClaimEvent(t) \/ Retry(t) \/ MarkProcessed(t) \/ MarkFailed(t)
                            \/ ClearDeadLetter(t) \/ DeadLetter(t) \/ Settle(t) \/ Report(t)
                            \/ AttemptFails(t) \/ RegistryFails(t) \/ SettleFails(t)
        \/ Skip \/ Claim \/ ClaimFails \/ Link \/ Complete \/ Publish \/ Fail \/ Crash
        \/ \E i \in Items : Move(i) \/ MoveFails(i) \/ Resume(i)

Spec == Init /\ [][Next]_vars

-----------------------------------------------------------------------------
TypeOK ==
  /\ delivery \in [Deliveries -> [status : {"none", "queued", "processing", "completed", "failed"},
                                  attempts : Nat, applied : SUBSET Items]]
  /\ event \in [Deliveries -> {"none", "pending", "dispatched"}]
  /\ consumption \in [Deliveries -> {"none", "processing", "processed", "failed"}]
  /\ letter \in [Deliveries -> {"none", "dead", "replayed", "discarded"}]
  /\ task \in [Tasks -> [stage : {"idle", "claim", "line", "again", "mark", "clear", "markFailed", "letter",
                                  "settle", "report"},
                         of : Deliveries \cup {"none"}, tries : 0 .. MaxAttempts - 1, processed : BOOLEAN]]
  /\ line \in Seq(Tasks) /\ IsInjective(line)
  /\ worker \in [stage : {"rest", "link", "move", "publish"}, todo : SUBSET Items, applied : SUBSET Items]
  /\ item \in [Items -> {"Planned", "InProgress", "InReview"}]
  /\ links \subseteq Deliveries \X Items /\ moved \subseteq Deliveries \X Items
  /\ troubled \subseteq Deliveries /\ dropped \subseteq Deliveries

(* An accepted delivery is completed, or its event is still to be handled  *)
(* or being handled, or its dead letter is kept for an operator or was     *)
(* discarded by one, unless a query of the registry failed and was         *)
(* swallowed, or a stop met a delivery whose event a losing pass had       *)
(* already settled.  It is given up only after its attempts, and what the  *)
(* registry calls processed is completed.                                  *)
(* (inbound-webhook-queue.service.ts:114, 219, consumer-registry.service.  *)
(* ts:83, 128)                                                             *)
AcceptedIsAnswered ==
  \A d \in Deliveries :
    /\ delivery[d].status \notin {"none", "completed"} /\ d \notin dropped =>
         event[d] = "pending" \/ task[d].stage # "idle" \/ letter[d] \in {"dead", "discarded"}
    /\ delivery[d].status = "failed" => delivery[d].attempts >= MaxAttempts
    /\ consumption[d] = "processed" => delivery[d].status = "completed"

(* The stored result names exactly the stories this delivery moved.  It    *)
(* takes an error or a stop on the way: a second run finds the story moved *)
(* by the first and reports it skipped, and a failing query is reported as *)
(* a refused transition.  (integration-support.ts:196, 211)                *)
ResultIsHonest ==
  \A d \in Deliveries : delivery[d].status = "completed" =>
    /\ \A i \in delivery[d].applied : <<d, i>> \in moved
    /\ d \notin troubled => delivery[d].applied = {i \in Items : <<d, i>> \in moved}
    /\ Linked(d) \subseteq links
=============================================================================
