--------------------------- MODULE CommentDelivery ---------------------------
(***************************************************************************)
(* Public comments between counterparts (connector.service.ts 1166-1446).  *)
(* A sync reads the comments of a record, stores each once and plans one   *)
(* delivery for every counterpart; syncs of any connector then work off    *)
(* the due deliveries of the tenant.  A copy carries the id of its         *)
(* delivery as a marker in its text, by which a retry finds it again and   *)
(* the sync of the target recognises it as an echo.                        *)
(*                                                                         *)
(* A claim on a delivery expires by time and is never renewed.  The cap of *)
(* 500 deliveries per drain is left out: the next drain goes on.           *)
(***************************************************************************)
EXTENDS Naturals, Sequences, SequencesExt, FiniteSetsExt

CONSTANTS Twins,        \* records, each of a connector of its own
          Counterparts, \* for every record, the records linked to it
          Readers,      \* syncs that read and plan
          Drainers,     \* syncs that deliver: the two parts of a sync may
                        \* meet in any order
          PageLimit,    \* comments a provider returns of one record (1000)
          Batch,        \* deliveries a drain reads at a time (50)
          MaxAttempts,  \* MAX_WORK_ORDER_ATTEMPTS
          Policies,     \* comment policies an administrator may set
          Budgets       \* bound: the troubles, and comments after the first,
                        \* that may happen together, each once

Troubles == {"crash", "stall", "fault", "remote", "lost", "refuse", "shed", "pause",
             "policy", "comment"}

Workers == Readers \cup Drainers
Nobody == "nobody"

ASSUME TwinAssumption == IsFiniteSet(Twins) /\ Counterparts \in [Twins -> SUBSET Twins]
ASSUME WorkerAssumption == Nobody \notin Workers
ASSUME LimitAssumption == {PageLimit, Batch, MaxAttempts} \subseteq Nat \ {0}
ASSUME BudgetAssumption == \A b \in Budgets : b \subseteq Troubles

VARIABLES thread,    \* comments of each provider record: the delivery that
                     \* wrote it, or "user"
          stored,    \* integration_public_comments: <<record, comment>>
          delivery,  \* integration_comment_deliveries
          planned,   \* their ids in the order of creation
          conn,      \* integration_connectors.status, paused or not
          policy,    \* config.commentSync of each connector
          worker,    \* where each sync is and what it has read
          late,      \* deliveries whose claim expired under a live worker
          budget     \* trouble still to come

vars == <<thread, stored, delivery, planned, conn, policy, worker, late, budget>>
config == <<conn, policy>>
tables == <<stored, delivery, planned>>

User == <<"user">>
Posts == Twins \X (1 .. PageLimit)  \* what a sync can see
Ids == {id \in Posts \X Twins : id[2] \in Counterparts[id[1][1]]}
Unplanned == [status |-> "none", attempts |-> 0, owner |-> Nobody, expired |-> FALSE, wait |-> FALSE]
Resting == [stage |-> "idle", todo |-> {}, first |-> "idle", twin |-> User, attempt |-> 0]

(* Comment synchronization is on in both directions, with no author filter *)
(* that matters, before anybody changes that.                              *)
Bidirectional == [read |-> TRUE, write |-> TRUE, permit |-> TRUE]

Source(id) == id[1][1]
Target(id) == id[2]
(* What fetchPublicComments returns of a record: one page, oldest first.    *)
Page(t) == 1 .. Min({PageLimit, Len(thread[t])})

HasCopy(id) == \E i \in DOMAIN thread[Target(id)] : thread[Target(id)][i] = id

Suffer(kind) == kind \in budget /\ budget' = budget \ {kind}

(* What a worker has read and still to handle: comments of a record, by    *)
(* their place in it, or deliveries, by theirs.  It goes by these places.  *)
Task(place, forbidden) == [at |-> place, skip |-> forbidden]
Current(w) == CHOOSE x \in worker[w].todo : \A y \in worker[w].todo : x.at <= y.at

(* A worker goes on with its next item; after the last one a drain reads   *)
(* another batch.                                                          *)
NextItem(w) ==
  LET me == worker[w]
      rest == me.todo \ {Current(w)}
  IN
  worker' = [worker EXCEPT
    ![w] = IF rest # {} THEN [me EXCEPT !.stage = me.first, !.todo = rest]
           ELSE IF me.first = "plan" THEN [Resting EXCEPT !.stage = "fetch", !.twin = me.twin]
           ELSE IF me.first = "item" THEN [Resting EXCEPT !.stage = "select"]
           ELSE Resting]

Init ==
  /\ thread = [t \in Twins |-> << >>]
  /\ stored = {}
  /\ delivery = [id \in Ids |-> Unplanned]
  /\ planned = << >>
  /\ conn = [t \in Twins |-> "active"]
  /\ policy = [t \in Twins |-> Bidirectional]
  /\ worker = [w \in Workers |-> Resting]
  /\ late = {}
  /\ budget \in Budgets

-----------------------------------------------------------------------------
(***************************************************************************)
(* People: users of the providers and administrators of Cadena.            *)
(***************************************************************************)

UserComments == UNION {{t} \X {i \in DOMAIN thread[t] : thread[t][i] = User} : t \in Twins}

Comment(t) ==
  /\ IF UserComments = {} THEN UNCHANGED budget ELSE Suffer("comment")
  /\ thread' = [thread EXCEPT ![t] = Append(@, User)]
  /\ UNCHANGED <<tables, config, worker, late>>

Pause(t) ==
  /\ conn[t] = "active"
  /\ Suffer("pause")
  /\ conn' = [conn EXCEPT ![t] = "paused"]
  /\ UNCHANGED <<thread, tables, policy, worker, late>>

Resume(t) ==
  /\ conn[t] = "paused"
  /\ conn' = [conn EXCEPT ![t] = "active"]
  /\ UNCHANGED <<thread, tables, policy, worker, late, budget>>

ConfigureCommentSync(t, p) ==
  /\ p # policy[t]
  /\ Suffer("policy")
  /\ policy' = [policy EXCEPT ![t] = p]
  /\ UNCHANGED <<thread, tables, conn, worker, late>>

-----------------------------------------------------------------------------
(***************************************************************************)
(* Reading: syncRecordComments and ensureConnectorCommentDeliveries.       *)
(***************************************************************************)

(* A sync of t first goes through the comments it has stored: a            *)
(* counterpart may have been linked, or a crash have come before the       *)
(* planning.                                                               *)
CatchUp(w, t) ==
  /\ worker[w].stage = "idle"
  /\ conn[t] = "active"
  /\ LET known == {Task(r[2], FALSE) : r \in {s \in stored : s[1] = t}}
     IN worker' = [worker EXCEPT
          ![w] = [Resting EXCEPT !.stage = IF known = {} THEN "fetch" ELSE "plan",
                                 !.first = "plan", !.twin = t, !.todo = known]]
  /\ UNCHANGED <<thread, tables, config, late, budget>>

(* Then it fetches one page of comments, oldest first.                     *)
ReadComments(w) ==
  LET t == worker[w].twin IN
  /\ worker[w].stage = "fetch"
  /\ worker' = [worker EXCEPT
       ![w] = IF thread[t] = << >> \/ ~policy[t].read THEN Resting
              ELSE [Resting EXCEPT !.stage = "store", !.first = "store", !.twin = t,
                                   !.todo = {Task(i, FALSE) : i \in Page(t)}]]
  /\ UNCHANGED <<thread, tables, config, late, budget>>

IsEchoMutant(t, i) == FALSE

(* A copy Cadena wrote has a delivery to this record with its marker.      *)
IsEcho(t, i) == /\ thread[t][i] # User
                /\ delivery[thread[t][i]].status # "none"
                /\ Target(thread[t][i]) = t

(* The comment a reader is at.                                             *)
Post(w) == <<worker[w].twin, Current(w).at>>

(* Filter, then store, or find the row that is already there.              *)
StoreComment(w) ==
  LET r == Post(w) IN
  /\ worker[w].stage = "store"
  /\ IF ~policy[r[1]].permit \/ IsEcho(r[1], r[2])
       THEN /\ NextItem(w)
            /\ UNCHANGED stored
       ELSE /\ stored' = stored \cup {r}
            /\ worker' = [worker EXCEPT ![w].stage = "plan"]
  /\ UNCHANGED <<thread, delivery, planned, config, late, budget>>

PlanMutant(w) ==
  LET r == Post(w)
      new == {<<r, u>> : u \in {t \in Counterparts[r[1]] : policy[t].write}}
  IN
  /\ worker[w].stage = "plan"
  /\ delivery' = [id \in Ids |-> IF id \in new THEN [Unplanned EXCEPT !.status = "pending"]
                                               ELSE delivery[id]]
  /\ planned' = planned \o SetToSeq(new)
  /\ NextItem(w)
  /\ UNCHANGED <<thread, stored, config, late, budget>>

(* ensureCommentDeliveries: one INSERT per counterpart that may be written *)
(* to, ON CONFLICT DO NOTHING.                                             *)
Plan(w) ==
  LET r == Post(w)
      new == {<<r, u>> : u \in {t \in Counterparts[r[1]] : policy[t].write}} \ Range(planned)
  IN
  /\ worker[w].stage = "plan"
  /\ delivery' = [id \in Ids |-> IF id \in new THEN [Unplanned EXCEPT !.status = "pending"]
                                               ELSE delivery[id]]
  /\ planned' = planned \o SetToSeq(new)
  /\ NextItem(w)
  /\ UNCHANGED <<thread, stored, config, late, budget>>

-----------------------------------------------------------------------------
(***************************************************************************)
(* Delivering: processDueCommentDeliveries and executeCommentDelivery.     *)
(***************************************************************************)

ClaimableMutant(id) == delivery[id].status \in {"pending", "failed"}
Claimable(id) == \/ delivery[id].status \in {"pending", "failed"}
                 \/ delivery[id].status = "processing" /\ delivery[id].expired
Due(id) == Claimable(id) /\ ~delivery[id].wait

OnHold(id) == conn[Target(id)] = "paused" \/ ~policy[Target(id)].write
Forbidden(id) == \/ ~policy[Source(id)].read
                 \/ ~policy[Source(id)].permit
                 \/ ~policy[Target(id)].permit

StartDrain(w) ==
  /\ worker[w].stage = "idle"
  /\ \E t \in Twins : conn[t] = "active"
  /\ worker' = [worker EXCEPT ![w].stage = "select"]
  /\ UNCHANGED <<thread, tables, config, late, budget>>

(* The oldest due deliveries, with the status and the policies of this     *)
(* moment.  The drain ends when none of the batch can move.                *)
DueBatch == LET due == {k \in DOMAIN planned : Due(planned[k])}
            IN {k \in due : Cardinality({j \in due : j < k}) < Batch}

SelectDue(w) ==
  /\ worker[w].stage = "select"
  /\ LET go == {k \in DueBatch : ~OnHold(planned[k])}
     IN worker' = [worker EXCEPT
          ![w] = IF go = {} THEN Resting
                 ELSE [Resting EXCEPT !.stage = "item", !.first = "item",
                                      !.todo = {Task(k, Forbidden(planned[k])) : k \in go}]]
  /\ UNCHANGED <<thread, tables, config, late, budget>>

Item(w) == planned[Current(w).at]

(* The UPDATE names the row only: neither its status nor its claim.        *)
Skip(w) ==
  /\ worker[w].stage = "item" /\ Current(w).skip
  /\ delivery' = [delivery EXCEPT ![Item(w)].status = "skipped"]
  /\ NextItem(w)
  /\ UNCHANGED <<thread, stored, planned, config, late, budget>>

Claim(w) ==
  LET row == delivery[Item(w)] IN
  /\ worker[w].stage = "item" /\ ~Current(w).skip
  /\ IF Claimable(Item(w))
       THEN /\ delivery' = [delivery EXCEPT
                 ![Item(w)] = [row EXCEPT !.status = "processing", !.attempts = row.attempts + 1,
                                          !.owner = w, !.expired = FALSE]]
            /\ worker' = [worker EXCEPT ![w].stage = "search", ![w].attempt = row.attempts + 1]
       ELSE /\ NextItem(w)
            /\ UNCHANGED delivery
  /\ UNCHANGED <<thread, stored, planned, config, late, budget>>

Goto(w, stage) == worker' = [worker EXCEPT ![w].stage = stage]

(* How a call to the provider may fail before it does anything.            *)
CallFails(w) ==
  /\ \/ Suffer("remote") /\ Goto(w, "retry")
     \/ Suffer("refuse") /\ Goto(w, "give up")
     \/ Suffer("shed") /\ Goto(w, "defer")
  /\ UNCHANGED thread

SearchMutant(w) ==
  /\ worker[w].stage = "search"
  /\ \/ CallFails(w)
     \/ Goto(w, "push") /\ UNCHANGED <<thread, budget>>
  /\ UNCHANGED <<tables, config, late>>

(* The page of the target's comments is searched for the marker.           *)
Search(w) ==
  /\ worker[w].stage = "search"
  /\ \/ CallFails(w)
     \/ /\ Goto(w, IF \E i \in Page(Target(Item(w))) : thread[Target(Item(w))][i] = Item(w)
                     THEN "record" ELSE "push")
        /\ UNCHANGED <<thread, budget>>
  /\ UNCHANGED <<tables, config, late>>

Write(id) == thread' = [thread EXCEPT ![Target(id)] = Append(@, id)]

Push(w) ==
  /\ worker[w].stage = "push"
  /\ \/ CallFails(w)
     \/ Suffer("lost") /\ Write(Item(w)) /\ Goto(w, "retry")
     \/ Write(Item(w)) /\ Goto(w, "record") /\ UNCHANGED budget
  /\ UNCHANGED <<tables, config, late>>

Mine(w) == delivery[Item(w)].owner = w
Conclude(w, row) ==
  /\ delivery' = IF Mine(w) THEN [delivery EXCEPT ![Item(w)] = row] ELSE delivery
  /\ NextItem(w)
  /\ UNCHANGED <<thread, stored, planned, config, late, budget>>

Released(w) == [delivery[Item(w)] EXCEPT !.owner = Nobody, !.expired = FALSE]

Record(w) ==
  /\ worker[w].stage = "record"
  /\ Conclude(w, [Released(w) EXCEPT !.status = "executed", !.wait = FALSE])

Fail(w) ==
  /\ worker[w].stage \in {"retry", "give up"}
  /\ LET again == worker[w].stage = "retry" /\ worker[w].attempt < MaxAttempts
     IN Conclude(w, [Released(w) EXCEPT !.status = IF again THEN "failed" ELSE "dead",
                                        !.wait = again])

DeferMutant(w) ==
  /\ worker[w].stage = "defer"
  /\ Conclude(w, [Released(w) EXCEPT !.status = "pending", !.wait = TRUE, !.attempts = 0])

(* deferShedWork gives the attempt back.                                   *)
Defer(w) ==
  /\ worker[w].stage = "defer"
  /\ Conclude(w, [Released(w) EXCEPT !.status = "pending", !.wait = TRUE,
                                     !.attempts = IF @ > 0 THEN @ - 1 ELSE 0])

BackoffEnds(id) ==
  /\ delivery[id].wait
  /\ delivery' = [delivery EXCEPT ![id].wait = FALSE]
  /\ UNCHANGED <<thread, stored, planned, config, worker, late, budget>>

-----------------------------------------------------------------------------
(***************************************************************************)
(* Faults.                                                                 *)
(***************************************************************************)

Handling == {"search", "push", "record", "retry", "give up", "defer"}
Busy(w, id) == worker[w].stage \in Handling /\ Item(w) = id

(* A process stops; a comment it was just sending may still arrive.        *)
Crash(w) ==
  /\ worker[w].stage # "idle"
  /\ Suffer("crash")
  /\ worker' = [worker EXCEPT ![w] = Resting]
  /\ \/ UNCHANGED thread
     \/ worker[w].stage = "push" /\ Write(Item(w))
  /\ UNCHANGED <<tables, config, late>>

(* A query fails.  Reading the connector (1348) and the UPDATEs of the     *)
(* catch block end the whole drain; a failing completion is caught.        *)
QueryFails(w) ==
  /\ worker[w].stage \in {"search", "record", "retry", "give up", "defer"}
  /\ Suffer("fault")
  /\ IF worker[w].stage = "record" THEN Goto(w, "give up")
                                   ELSE worker' = [worker EXCEPT ![w] = Resting]
  /\ UNCHANGED <<thread, tables, config, late>>

(* No heartbeat: a slow worker outlives its claim.                         *)
Working(id) == \E w \in Workers : delivery[id].owner = w /\ Busy(w, id)
ClaimExpires(id) ==
  /\ delivery[id].status = "processing" /\ ~delivery[id].expired
  /\ IF Working(id) THEN Suffer("stall") /\ late' = late \cup {id}
                    ELSE UNCHANGED <<budget, late>>
  /\ delivery' = [delivery EXCEPT ![id].expired = TRUE]
  /\ UNCHANGED <<thread, stored, planned, config, worker>>

-----------------------------------------------------------------------------
WorkerStep(w) ==
  \/ ReadComments(w) \/ StoreComment(w) \/ Plan(w)
  \/ SelectDue(w) \/ Skip(w) \/ Claim(w) \/ Search(w) \/ Push(w)
  \/ Record(w) \/ Fail(w) \/ Defer(w)

Next ==
  \/ \E t \in Twins : \/ Comment(t) \/ Pause(t) \/ Resume(t)
                      \/ \E p \in Policies : ConfigureCommentSync(t, p)
  \/ \E w \in Workers : WorkerStep(w) \/ Crash(w) \/ QueryFails(w)
  \/ \E w \in Readers, t \in Twins : CatchUp(w, t)
  \/ \E w \in Drainers : StartDrain(w)
  \/ \E id \in Ids : BackoffEnds(id) \/ ClaimExpires(id)

Spec == Init /\ [][Next]_vars

(* Syncs are started again and again; an awaited call ends; time passes.   *)
Fairness ==
  /\ \A w \in Workers : WF_vars(WorkerStep(w))
  /\ \A t \in Twins : SF_vars(\E w \in Readers : CatchUp(w, t))
  /\ SF_vars(\E w \in Drainers : StartDrain(w))
  /\ WF_vars(\E id \in Ids : BackoffEnds(id))
  /\ WF_vars(\E id \in Ids : ClaimExpires(id) /\ ~Working(id))
FairSpec == Spec /\ Fairness

-----------------------------------------------------------------------------
(***************************************************************************)
(* Properties.                                                             *)
(***************************************************************************)

Stages == Handling \cup {"idle", "fetch", "store", "plan", "select", "item"}
DeliveryType == [status : {"none", "pending", "processing", "failed", "dead", "skipped", "executed"},
                 attempts : Nat, owner : Workers \cup {Nobody},
                 expired : BOOLEAN, wait : BOOLEAN]

(* Rows hold values of the schema; workers stand at their awaits.          *)
TypeOK == /\ \A t \in Twins : Range(thread[t]) \subseteq Ids \cup {User}
          /\ stored \subseteq Posts
          /\ delivery \in [Ids -> DeliveryType]
          /\ IsInjective(planned)
          /\ Range(planned) = {id \in Ids : delivery[id].status # "none"}
          /\ conn \in [Twins -> {"active", "paused"}]
          /\ policy \in [Twins -> Policies \cup {Bidirectional}]
          /\ \A w \in Workers : worker[w].stage \in Stages
          /\ late \subseteq Ids
          /\ budget \subseteq Troubles

(* connector.service.ts:1360-1361: the marker makes "the retry a           *)
(* completion, not a duplicate comment", whatever crashes, lost answers    *)
(* and failing queries come in between.  It does so as long as the worker  *)
(* is done before its claim expires and the thread fits one page.  Nor     *)
(* does a copy come back as a comment of a user (1194).                    *)
Copies(id) == {i \in DOMAIN thread[Target(id)] : thread[Target(id)][i] = id}
OneCopy ==
  /\ stored \subseteq UserComments
  /\ \A id \in Ids : \/ Cardinality(Copies(id)) <= 1
                     \/ id \in late
                     \/ Len(thread[Target(id)]) > PageLimit

(* The status tells what happened: an executed delivery has its copy, and  *)
(* one whose attempts were all given back has left no trace.               *)
StatusIsHonest ==
  \A id \in Ids : /\ delivery[id].status = "executed" => HasCopy(id)
                  /\ delivery[id].attempts = 0 => ~HasCopy(id)

Finished == {"executed", "dead", "skipped"}

(* A comment of a user reaches every counterpart, or its delivery is       *)
(* skipped or dead, unless a target stays on hold or older deliveries on   *)
(* hold fill every batch again and again (1303, 1330).                     *)
Starving ==
  Cardinality({k \in DOMAIN planned : Due(planned[k]) /\ OnHold(planned[k])}) >= Batch
Hindered(id) ==
  \/ OnHold(id) \/ Starving \/ ~policy[Source(id)].read \/ ~policy[Source(id)].permit
  \/ conn[Source(id)] = "paused"
EveryCommentArrives ==
  \A id \in Ids : \/ []<>Hindered(id)
                  \/ id[1] \in UserComments ~> delivery[id].status \in Finished
====
