------------------------------ MODULE Backfill ------------------------------
(***************************************************************************)
(* Historical backfill jobs: operators create, start, pause, cancel and    *)
(* retry them; workers hold a leased job, read its chunks a page at a time *)
(* and commit every page together with the progress of its chunk.  A page  *)
(* holds one record; a record is known by the time of its last update.     *)
(***************************************************************************)
EXTENDS Naturals, Sequences, FiniteSets

CONSTANTS Workers,     \* executions of execute(): scheduler ticks and operators' runJob
          Jobs,        \* jobs of one connector
          Times,       \* times of last update of the provider's records
          Ranges,      \* triples <<from, to, chunk length>> an operator asks for
          Minute,      \* units of time a provider query cannot tell apart
          MaxChunks, MaxConcurrency, MaxAttempts, Successes,
          Budgets      \* initial values of budget

VARIABLES job,      \* integration_backfill_jobs
          chunk,    \* integration_backfill_chunks: per job a sequence
          record,   \* integration_backfill_records: per job how often each record is listed
          worker,   \* local variables of the executions
          op,       \* what an operator has read of a job and is about to write
          stray,    \* jobs whose chunks a worker wrote to that had lost the lease
          budget    \* trouble still to come

vars == <<job, chunk, record, worker, op, stray, budget>>

Nobody == "nobody"
Idle == [stage |-> "idle", job |-> Nobody, conc |-> 1, streak |-> 0, took |-> << >>,
         step |-> << >>, ends |-> Nobody]
NoJob == [status |-> "none", owner |-> Nobody, expired |-> FALSE, conc |-> 1, from |-> 0, to |-> 0]
Troubles == {"transient", "fatal", "shed", "fault", "crash", "stall", "pause", "cancel", "retry"}
Suffer(kind) == budget[kind] > 0 /\ budget' = [budget EXCEPT ![kind] = @ - 1]
Held(w) == job[worker[w].job].owner = w
Alive(j) == \E w \in Workers : worker[w].job = j /\ Held(w)

Init == /\ job = [j \in Jobs |-> NoJob]
        /\ chunk = [j \in Jobs |-> << >>]
        /\ record = [j \in Jobs |-> [t \in Times |-> 0]]
        /\ worker = [w \in Workers |-> Idle]
        /\ op = [j \in Jobs |-> Nobody]
        /\ stray = {}
        /\ budget \in Budgets

-----------------------------------------------------------------------------
(***************************************************************************)
(* The plan: consecutive half-open windows that partition the range.       *)
(***************************************************************************)

floorToMinute(t) == (t \div Minute) * Minute
Least(a, b) == IF a < b THEN a ELSE b
Count(span, length) == (span + length - 1) \div length

planChunksMutant(from, to, length) ==
  LET start == floorToMinute(from)
      end == floorToMinute(to)
  IN [i \in 1 .. (end - start) \div length |->
        [start |-> start + (i - 1) * length, end |-> Least(start + i * length, end)]]

planChunks(from, to, length) ==
  LET start == floorToMinute(from)
      end == floorToMinute(to)
  IN [i \in 1 .. Count(end - start, length) |->
        [start |-> start + (i - 1) * length, end |-> Least(start + i * length, end)]]

Plannable(from, to, length) ==
  /\ length % Minute = 0
  /\ floorToMinute(from) < floorToMinute(to)
  /\ Count(floorToMinute(to) - floorToMinute(from), length) <= MaxChunks

Create(j, range) ==
  LET from == range[1]  to == range[2]  length == range[3] IN
  /\ job[j].status = "none"
  /\ Plannable(from, to, length)
  /\ job' = [job EXCEPT ![j] = [NoJob EXCEPT !.status = "pending", !.from = floorToMinute(from),
                                             !.to = floorToMinute(to)]]
  /\ chunk' = [chunk EXCEPT ![j] =
       [i \in DOMAIN planChunks(from, to, length) |->
          [window |-> planChunks(from, to, length)[i], status |-> "pending", token |-> 0,
           pages |-> 0, attempts |-> 0, wait |-> FALSE]]]
  /\ UNCHANGED <<record, worker, op, stray, budget>>

-----------------------------------------------------------------------------
(***************************************************************************)
(* Operators.  The row is read before the transaction that writes it.      *)
(***************************************************************************)

Finals == {"completed", "completed_with_errors", "cancelled"}
NoOtherActive(j) == \A k \in Jobs \ {j} : job[k].status # "running"
Failed(j) == {i \in DOMAIN chunk[j] : chunk[j][i].status = "failed"}

Activate(j) ==
  /\ op[j] = Nobody
  /\ job[j].status \in {"pending", "paused"}
  /\ NoOtherActive(j)
  /\ op' = [op EXCEPT ![j] = job[j].status]
  /\ UNCHANGED <<job, chunk, record, worker, stray, budget>>

(* transition: the UPDATE names the status that was read.                  *)
Run(j) ==
  /\ op[j] \in {"pending", "paused"}
  /\ job' = IF job[j].status = op[j] THEN [job EXCEPT ![j].status = "running"] ELSE job
  /\ op' = [op EXCEPT ![j] = Nobody]
  /\ UNCHANGED <<chunk, record, worker, stray, budget>>

Pause(j) == /\ job[j].status = "running"
            /\ Suffer("pause")
            /\ job' = [job EXCEPT ![j].status = "paused"]
            /\ UNCHANGED <<chunk, record, worker, op, stray>>

Cancel(j) == /\ job[j].status \in {"pending", "running", "paused"}
             /\ Suffer("cancel")
             /\ job' = [job EXCEPT ![j].status = "cancelled", ![j].owner = Nobody,
                                   ![j].expired = FALSE]
             /\ UNCHANGED <<chunk, record, worker, op, stray>>

RetryFailed(j) ==
  /\ op[j] = Nobody
  /\ job[j].status \in {"completed_with_errors", "running", "paused"}
  /\ Failed(j) # {}
  /\ job[j].status = "completed_with_errors" => NoOtherActive(j)
  /\ Suffer("retry")
  /\ op' = [op EXCEPT ![j] = "retry"]
  /\ UNCHANGED <<job, chunk, record, worker, stray>>

(* This transaction does not look at the status again.                     *)
Requeue(j) ==
  /\ op[j] = "retry"
  /\ chunk' = [chunk EXCEPT ![j] =
       [i \in DOMAIN @ |-> IF i \in Failed(j)
                             THEN [@[i] EXCEPT !.status = "pending", !.attempts = 0, !.wait = FALSE]
                             ELSE @[i]]]
  /\ job' = [job EXCEPT ![j].status = IF @ = "paused" THEN "paused" ELSE "running"]
  /\ op' = [op EXCEPT ![j] = Nobody]
  /\ UNCHANGED <<record, worker, stray, budget>>

-----------------------------------------------------------------------------
(***************************************************************************)
(* A worker: claim, execute in rounds, step, finish.                       *)
(***************************************************************************)

At(w, stage) == worker[w].stage = stage
Goto(w, stage) == worker' = [worker EXCEPT ![w].stage = stage]
Mine(w) == worker[w].job
Stray(w) == stray' = IF Held(w) THEN stray ELSE stray \cup {Mine(w)}

Claimable(j) == job[j].status = "running" /\ (job[j].owner = Nobody \/ job[j].expired)
Claim(w, j) ==
  /\ At(w, "idle")
  /\ Claimable(j)
  /\ job' = [job EXCEPT ![j].owner = w, ![j].expired = FALSE]
  /\ worker' = [worker EXCEPT ![w] = [Idle EXCEPT !.stage = "open", !.job = j,
                                                  !.conc = Least(job[j].conc, MaxConcurrency)]]
  /\ UNCHANGED <<chunk, record, op, stray, budget>>

(* The connector may be paused; else the chunks of a worker that died go   *)
(* back to the queue.                                                      *)
Open(w) ==
  /\ At(w, "open")
  /\ \/ Goto(w, "release") /\ UNCHANGED chunk
     \/ /\ Goto(w, "check")
        /\ chunk' = [chunk EXCEPT ![Mine(w)] =
             [i \in DOMAIN @ |-> IF @[i].status = "running" THEN [@[i] EXCEPT !.status = "pending"]
                                                            ELSE @[i]]]
  /\ UNCHANGED <<job, record, op, stray, budget>>

(* Is the job still mine?  Then the lease is extended.                     *)
Check(w) ==
  /\ At(w, "check")
  /\ IF Held(w) /\ job[Mine(w)].status = "running"
       THEN Goto(w, "select") /\ job' = [job EXCEPT ![Mine(w)].expired = FALSE]
       ELSE Goto(w, "finish") /\ UNCHANGED job
  /\ UNCHANGED <<chunk, record, op, stray, budget>>

Pending(j) == {i \in DOMAIN chunk[j] : chunk[j][i].status = "pending"}
Due(j) == {i \in Pending(j) : ~chunk[j][i].wait}
(* Chunks already begun come first, then the oldest.                       *)
Before(j, i, k) == LET begun(c) == chunk[j][c].pages > 0 IN
                   IF begun(i) = begun(k) THEN i < k ELSE begun(i)
Chosen(w) ==
  LET due == Due(Mine(w)) IN
  {some \in SUBSET due : /\ Cardinality(some) = Least(Cardinality(due), worker[w].conc)
                         /\ \A i \in some, k \in due \ some : Before(Mine(w), i, k)}

Select(w) ==
  /\ At(w, "select")
  /\ IF Due(Mine(w)) # {}
       THEN \E some \in Chosen(w) :
              worker' = [worker EXCEPT ![w].stage = "mark",
                                       ![w].took = [i \in some |-> chunk[Mine(w)][i]]]
       ELSE \/ Goto(w, "finish")
            \/ Pending(Mine(w)) # {} /\ Goto(w, "check")
  /\ UNCHANGED <<job, chunk, record, op, stray, budget>>

Mark(w) ==
  LET took == DOMAIN worker[w].took IN
  /\ At(w, "mark")
  /\ chunk' = [chunk EXCEPT ![Mine(w)] =
       [i \in DOMAIN @ |-> IF i \in took THEN [@[i] EXCEPT !.status = "running"] ELSE @[i]]]
  /\ worker' = [worker EXCEPT ![w].stage = "steps", ![w].step = [i \in took |-> "fetch"]]
  /\ Stray(w)
  /\ UNCHANGED <<job, record, op, budget>>

Stepping(w, i, step) == At(w, "steps") /\ i \in DOMAIN worker[w].step /\ worker[w].step[i] = step
Step(w, i, step) == worker' = [worker EXCEPT ![w].step[i] = step]

(* The target answers, fails in some way, or sheds the call.               *)
Fetch(w, i) ==
  /\ Stepping(w, i, "fetch")
  /\ \/ Step(w, i, "commit") /\ UNCHANGED budget
     \/ \E kind \in {"transient", "fatal", "shed"} : Suffer(kind) /\ Step(w, i, kind)
  /\ UNCHANGED <<job, chunk, record, op, stray>>

(* The records of a window in order of time; page n holds the n-th one.    *)
InWindow(window) == {t \in Times : window.start <= t /\ t < window.end}
Page(window, n) == {t \in InWindow(window) : Cardinality({u \in InWindow(window) : u < t}) = n}
HasMore(window, n) == Cardinality(InWindow(window)) > n + 1

(* AdaptiveLimiter.onSuccess and onThrottle.                               *)
Sped(l) == IF l.streak + 1 < Successes THEN [l EXCEPT !.streak = @ + 1]
           ELSE [l EXCEPT !.streak = 0, !.conc = Least(MaxConcurrency, @ + 1)]
Slowed(l) == [l EXCEPT !.streak = 0, !.conc = IF @ < 2 THEN 1 ELSE @ \div 2]

GuardMutant(w) == TRUE
Guard(w) == Held(w) /\ job[Mine(w)].status \in {"running", "paused"}

(* One transaction: the lease is still held, the records are listed, the   *)
(* chunk moves on.  The check takes no lock and the chunk is updated by    *)
(* id, so a takeover in the middle of the transaction would be passed      *)
(* over; here the transaction is one step.                                 *)
Commit(w, i) ==
  LET j == Mine(w)
      taken == worker[w].took[i]
      more == HasMore(taken.window, taken.token)
  IN /\ Stepping(w, i, "commit")
     /\ IF Guard(w)
          THEN /\ record' = [record EXCEPT ![j] =
                    [t \in Times |-> IF t \in Page(taken.window, taken.token) THEN @[t] + 1 ELSE @[t]]]
               /\ chunk' = [chunk EXCEPT ![j][i] =
                    [@ EXCEPT !.status = IF more THEN "pending" ELSE "done",
                              !.token = IF more THEN taken.token + 1 ELSE 0,
                              !.pages = 1, !.attempts = 0, !.wait = FALSE]]
               /\ worker' = [worker EXCEPT ![w] = [Sped(@) EXCEPT !.step[i] = "done"]]
          ELSE Step(w, i, "lost") /\ UNCHANGED <<record, chunk>>
     /\ UNCHANGED <<job, op, stray, budget>>

Fault(w, i) == /\ Stepping(w, i, "commit")
               /\ Suffer("fault")
               /\ Step(w, i, "fatal")
               /\ UNCHANGED <<job, chunk, record, op, stray>>

Lost(w, i) ==
  /\ Stepping(w, i, "lost")
  /\ chunk' = [chunk EXCEPT ![Mine(w)][i].status = IF @ = "running" THEN "pending" ELSE @]
  /\ Step(w, i, "done")
  /\ UNCHANGED <<job, record, op, stray, budget>>

(* recordChunkFailure: a shed call costs no attempt; the update asks for   *)
(* no lease.                                                               *)
FailChunk(w, i) ==
  LET tries == worker[w].took[i].attempts + 1
      row == chunk[Mine(w)][i]
      failing == worker[w].step[i]
  IN /\ At(w, "steps") /\ i \in DOMAIN worker[w].step
     /\ failing \in {"transient", "fatal", "shed"}
     /\ chunk' = [chunk EXCEPT ![Mine(w)][i] =
          IF failing = "shed" THEN [row EXCEPT !.status = "pending", !.wait = TRUE]
          ELSE IF failing = "fatal" \/ tries >= MaxAttempts
            THEN [row EXCEPT !.status = "failed", !.attempts = tries, !.wait = FALSE]
            ELSE [row EXCEPT !.status = "pending", !.attempts = tries, !.wait = TRUE]]
     /\ worker' = [worker EXCEPT ![w] =
          [IF failing = "transient" THEN Slowed(@) ELSE @ EXCEPT !.step[i] = "done"]]
     /\ Stray(w)
     /\ UNCHANGED <<job, record, op, budget>>

(* The limiter's state is kept for the next slice, which may begin now.    *)
EndRound(w) ==
  /\ At(w, "steps")
  /\ \A i \in DOMAIN worker[w].step : worker[w].step[i] = "done"
  /\ job' = IF Held(w) THEN [job EXCEPT ![Mine(w)].conc = worker[w].conc] ELSE job
  /\ \E next \in {"check", "finish"} :
       worker' = [worker EXCEPT ![w].stage = next, ![w].took = << >>, ![w].step = << >>]
  /\ UNCHANGED <<chunk, record, op, stray, budget>>

Unfinished(j) == {i \in DOMAIN chunk[j] : chunk[j][i].status \in {"pending", "running"}}
Finish(w) ==
  LET j == Mine(w) IN
  /\ At(w, "finish")
  /\ IF job[j].status = "running" /\ Unfinished(j) = {}
       THEN worker' = [worker EXCEPT ![w].stage = "conclude", ![w].ends =
                         IF Failed(j) # {} THEN "completed_with_errors" ELSE "completed"]
       ELSE Goto(w, "release")
  /\ UNCHANGED <<job, chunk, record, op, stray, budget>>

Conclude(w) ==
  /\ At(w, "conclude")
  /\ job' = IF Held(w) /\ job[Mine(w)].status = "running"
              THEN [job EXCEPT ![Mine(w)].status = worker[w].ends] ELSE job
  /\ Goto(w, "release")
  /\ UNCHANGED <<chunk, record, op, stray, budget>>

Release(w) ==
  /\ At(w, "release")
  /\ job' = IF Held(w) THEN [job EXCEPT ![Mine(w)].owner = Nobody, ![Mine(w)].expired = FALSE]
                       ELSE job
  /\ worker' = [worker EXCEPT ![w] = Idle]
  /\ UNCHANGED <<chunk, record, op, stray, budget>>

-----------------------------------------------------------------------------
(***************************************************************************)
(* Time and crashes.                                                       *)
(***************************************************************************)

BackoffEnds(j, i) == /\ i \in DOMAIN chunk[j]
                     /\ chunk[j][i].wait
                     /\ chunk' = [chunk EXCEPT ![j][i].wait = FALSE]
                     /\ UNCHANGED <<job, record, worker, op, stray, budget>>

(* A lease runs out while its worker lives only if a round outlasts it.    *)
LeaseExpires(j) ==
  /\ job[j].owner # Nobody
  /\ ~job[j].expired
  /\ IF Alive(j) THEN Suffer("stall") ELSE UNCHANGED budget
  /\ job' = [job EXCEPT ![j].expired = TRUE]
  /\ UNCHANGED <<chunk, record, worker, op, stray>>

Crash(w) == /\ ~At(w, "idle")
            /\ Suffer("crash")
            /\ worker' = [worker EXCEPT ![w] = Idle]
            /\ UNCHANGED <<job, chunk, record, op, stray>>

Next == \/ \E j \in Jobs : \/ \E range \in Ranges : Create(j, range)
                           \/ Activate(j) \/ Run(j) \/ Pause(j) \/ Cancel(j)
                           \/ RetryFailed(j) \/ Requeue(j) \/ LeaseExpires(j)
                           \/ \E i \in 1 .. MaxChunks : BackoffEnds(j, i)
        \/ \E w \in Workers : \/ \E j \in Jobs : Claim(w, j)
                              \/ Open(w) \/ Check(w) \/ Select(w) \/ Mark(w)
                              \/ EndRound(w) \/ Finish(w) \/ Conclude(w) \/ Release(w) \/ Crash(w)
                              \/ \E i \in 1 .. MaxChunks : \/ Fetch(w, i) \/ Commit(w, i)
                                                           \/ Fault(w, i) \/ Lost(w, i)
                                                           \/ FailChunk(w, i)

Spec == Init /\ [][Next]_vars

-----------------------------------------------------------------------------
(***************************************************************************)
(* Properties.                                                             *)
(***************************************************************************)

ChunkType == [window : [start : Nat, end : Nat], status : {"pending", "running", "done", "failed"},
              token : Nat, pages : {0, 1}, attempts : Nat, wait : BOOLEAN]

(* Rows hold values of the schema, a finished job has no lease left but    *)
(* that of the worker that is about to give it up.                         *)
TypeOK == /\ \A j \in Jobs : /\ job[j].owner \in Workers \cup {Nobody}
                             /\ job[j].conc \in 1 .. MaxConcurrency
                             /\ chunk[j] \in Seq(ChunkType)
                             /\ job[j].status = "cancelled" => job[j].owner = Nobody
          /\ \A w \in Workers : At(w, "idle") <=> Mine(w) = Nobody
          /\ stray \subseteq Jobs

(* backfill-planner.ts:24-28 and backfill-runner.service.ts:44: every      *)
(* record of the range is read, "nothing is read twice and nothing is      *)
(* skipped", in any order of chunks and whatever crashes, failures, pauses *)
(* and takeovers come in between; a record is listed twice only after a    *)
(* worker that had lost its lease wrote to a chunk all the same (153, 270).*)
BackfillIsExact ==
  \A j \in Jobs :
    /\ \A i \in DOMAIN chunk[j] :
         chunk[j][i].status = "done" => \A t \in InWindow(chunk[j][i].window) : record[j][t] > 0
    /\ job[j].status = "completed" =>
         \A t \in Times : job[j].from <= t /\ t < job[j].to => record[j][t] > 0
    /\ \A t \in Times : record[j][t] <= (IF job[j].from <= t /\ t < job[j].to THEN 1 ELSE 0) \/ j \in stray
=============================================================================
