----------------------------- MODULE IntakeQueue -----------------------------
(***************************************************************************)
(* How Cadena mirrors a provider (connector.service.ts): a synchronization *)
(* holds the connector's lease, accepts a page of changed records together *)
(* with the watermark, and processes the accepted entries record by record *)
(* into canonical twins.  Backfills and scheduled queries feed the same    *)
(* queue and drain it under the same lease, without its heartbeat.         *)
(*                                                                         *)
(* Version v of the provider's data is the v-th change made to it.  Its    *)
(* timestamp has the provider's precision: Grain changes share one.  Time  *)
(* is abstracted: a backoff may end, and a sync may start, at any moment.  *)
(***************************************************************************)
EXTENDS Naturals, Sequences

CONSTANTS Pollers,      \* calls of syncConnector and drainIngestionQueue that
                        \* may run at the same time, over all processes
          Kinds,        \* which of "sync" and "drain" are called
          Records,      \* records of the provider
          MaxChanges,   \* bound: changes the provider makes
          Grain,        \* changes that may share a timestamp
          MaxAttempts,  \* MAX_WORK_ORDER_ATTEMPTS
          Budget,       \* bound: how often each kind of trouble happens,
                        \* and how much of "any" kind
          Weight        \* bound: how much of "any" one trouble of a kind takes

Troubles == {"any", "crash", "stall", "fault", "poll", "shed", "record", "pause", "backfill",
             "park", "reinject"}

ASSUME KindAssumption == Kinds \subseteq {"sync", "drain"}
ASSUME BoundAssumption == MaxChanges \in Nat /\ Grain \in Nat \ {0} /\ MaxAttempts \in Nat \ {0}
ASSUME BudgetAssumption == Budget \in [Troubles -> Nat] /\ Weight \in [Troubles -> Nat]

VARIABLES changes,  \* the provider's history: change v is of record changes[v]
          cursor,   \* integration_connector_cursors.cursor_value
          entry,    \* integration_connector_ingestion_queue, by version
          nextPos,  \* integration_twin_queue_position_seq
          twin,     \* the version each canonical twin shows, 0 before it exists
          sync,     \* integration_canonical_twins.sync_state
          parked,   \* records whose twin has a dead or held work order
          poller,   \* where each call is and what it has read
          lease,    \* integration_connector_sync_leases
          status,   \* integration_connectors.status
          budget    \* trouble still to come

vars == <<changes, cursor, entry, nextPos, twin, sync, parked, poller, lease, status, budget>>
rows == <<entry, nextPos, twin, sync, parked>>
provider == <<changes, cursor>>

Versions == 1 .. MaxChanges
Stamp(v) == (v + Grain - 1) \div Grain

(* A poll sees the newest version of every record.                         *)
Current == {v \in DOMAIN changes : \A u \in DOMAIN changes : u > v => changes[u] # changes[v]}

NoOwner == "nobody"
ASSUME OwnerAssumption == NoOwner \notin Pollers
Absent == [status |-> "none", pos |-> 0, attempts |-> 0, owner |-> NoOwner, expired |-> FALSE]
Idle == [stage |-> "idle", kind |-> "sync", polled |-> FALSE, row |-> 0, attempt |-> 0,
         seen |-> 0, page |-> {}]
NoLease == [owner |-> NoOwner, expired |-> FALSE]

Processing == {"read", "write", "finish", "fail", "defer"}
Working == Processing \cup {"drain", "claim", "fetch", "accept", "status", "release"}

Spend(trouble) == /\ budget[trouble] > 0
                  /\ budget["any"] >= Weight[trouble]
                  /\ budget' = [budget EXCEPT ![trouble] = @ - 1, !["any"] = @ - Weight[trouble]]
Goto(p, stage) == poller' = [poller EXCEPT ![p].stage = stage]
Leave(p) == poller' = [poller EXCEPT ![p] = Idle]

ClaimableMutant(e) == e.status \in {"pending", "retry"}
Claimable(e) == \/ e.status \in {"pending", "retry"}
                \/ e.status = "processing" /\ e.expired

Blocking == {"pending", "retry", "processing", "dead"}
Older(v) == {u \in DOMAIN changes : /\ changes[u] = changes[v]
                                    /\ entry[u].pos < entry[v].pos
                                    /\ entry[u].status \in Blocking}

-----------------------------------------------------------------------------
Init == /\ changes = << >>
        /\ cursor = 0
        /\ entry = [v \in Versions |-> Absent]
        /\ nextPos = 1
        /\ twin = [r \in Records |-> 0]
        /\ sync = [r \in Records |-> "synced"]
        /\ parked = {}
        /\ poller = [p \in Pollers |-> Idle]
        /\ lease = NoLease
        /\ status = "active"
        /\ budget = Budget

(* A user of the provider changes a record.                                *)
Change(r) == /\ Len(changes) < MaxChanges
             /\ changes' = Append(changes, r)
             /\ UNCHANGED <<cursor, rows, poller, lease, status, budget>>

(***************************************************************************)
(* The lease.                                                              *)
(***************************************************************************)

(* syncConnector refuses a paused connector; drainIngestionQueue does not  *)
(* look.                                                                   *)
Start(p) ==
  /\ poller[p].stage = "idle"
  /\ \E kind \in Kinds :
       /\ kind = "sync" => status # "paused"
       /\ poller' = [poller EXCEPT ![p] = [@ EXCEPT !.stage = "acquire", !.kind = kind]]
  /\ UNCHANGED <<provider, rows, lease, status, budget>>

AcquireMutant(p) ==
  /\ poller[p].stage = "acquire"
  /\ lease' = [owner |-> p, expired |-> FALSE]
  /\ Goto(p, "drain")
  /\ UNCHANGED <<provider, rows, status, budget>>

Acquire(p) ==
  /\ poller[p].stage = "acquire"
  /\ IF lease.owner = NoOwner \/ lease.expired
       THEN /\ lease' = [owner |-> p, expired |-> FALSE]
            /\ Goto(p, "drain")
       ELSE /\ Leave(p)
            /\ UNCHANGED lease
  /\ UNCHANGED <<provider, rows, status, budget>>

Release(p) ==
  /\ poller[p].stage = "release"
  /\ lease' = IF lease.owner = p THEN NoLease ELSE lease
  /\ Leave(p)
  /\ UNCHANGED <<provider, rows, status, budget>>

(* Only syncConnector runs a heartbeat.                                    *)
Beating == \E p \in Pollers : /\ lease.owner = p
                              /\ poller[p].stage \in Working
                              /\ poller[p].kind = "sync"

LeaseExpires ==
  /\ lease.owner # NoOwner
  /\ ~lease.expired
  /\ IF Beating THEN Spend("stall") ELSE UNCHANGED budget
  /\ lease' = [lease EXCEPT !.expired = TRUE]
  /\ UNCHANGED <<provider, rows, poller, status>>

RenewLease ==
  /\ lease.expired
  /\ Beating
  /\ lease' = [lease EXCEPT !.expired = FALSE]
  /\ UNCHANGED <<provider, rows, poller, status, budget>>

(***************************************************************************)
(* Polling the provider.                                                   *)
(***************************************************************************)

(* The due entries of this turn are done, or wait for their next attempt.  *)
DrainDone(p) ==
  /\ poller[p].stage = "drain"
  /\ Goto(p, IF poller[p].kind = "drain" THEN "release"
             ELSE IF poller[p].polled THEN "status" ELSE "fetch")
  /\ UNCHANGED <<provider, rows, lease, status, budget>>

(* A page: the oldest changes since the watermark, all of them or enough   *)
(* to advance it.                                                          *)
Changed == {v \in Current : Stamp(v) >= cursor}
IsPage(P) == /\ \A v \in Changed \ P, u \in P : Stamp(u) <= Stamp(v)
             /\ (P = Changed \/ \E u \in P : Stamp(u) > cursor)

Fetch(p) ==
  /\ poller[p].stage = "fetch"
  /\ \E P \in SUBSET Changed :
       /\ IsPage(P)
       /\ poller' = [poller EXCEPT ![p] = [@ EXCEPT !.stage = "accept", !.page = P, !.seen = cursor]]
  /\ UNCHANGED <<provider, rows, lease, status, budget>>

(* The poll fails: recordPollFailure.                                      *)
FetchFails(p) ==
  /\ poller[p].stage = "fetch"
  /\ Spend("poll")
  /\ status' = "error"
  /\ Goto(p, "release")
  /\ UNCHANGED <<provider, rows, lease>>

(* The target sheds load: the sync skips, or stops, contacting it.         *)
Shed(p) ==
  /\ poller[p].kind = "sync"
  /\ \/ poller[p].stage = "drain" /\ ~poller[p].polled
     \/ poller[p].stage = "fetch"
  /\ Spend("shed")
  /\ Goto(p, "status")
  /\ UNCHANGED <<provider, rows, lease, status>>

(* Entries already present are left alone; the positions drawn for them    *)
(* leave gaps that mean nothing.                                           *)
Enqueued(V) == [v \in Versions |->
  IF v \in V /\ entry[v].status = "none"
    THEN [entry[v] EXCEPT !.status = "pending", !.pos = nextPos]
    ELSE entry[v]]
NextPosition(V) == IF \E v \in V : entry[v].status = "none" THEN nextPos + 1 ELSE nextPos

(* The watermark becomes the newest timestamp of the page.                 *)
Advance(V, since) ==
  \E c \in {Stamp(v) : v \in V} \cup {since} :
    /\ since <= c
    /\ \A v \in V : Stamp(v) <= c
    /\ cursor' = c

(* acceptIngestionPage: the entries and the watermark in one transaction.  *)
AcceptMutant(p) ==
  /\ poller[p].stage = "accept"
  /\ entry' = Enqueued(poller[p].page)
  /\ nextPos' = NextPosition(poller[p].page)
  /\ Advance(DOMAIN changes, cursor)
  /\ poller' = [poller EXCEPT ![p] = [@ EXCEPT !.stage = "drain", !.polled = TRUE, !.page = {}]]
  /\ UNCHANGED <<changes, twin, sync, parked, lease, status, budget>>

Accept(p) ==
  /\ poller[p].stage = "accept"
  /\ entry' = Enqueued(poller[p].page)
  /\ nextPos' = NextPosition(poller[p].page)
  /\ Advance(poller[p].page, poller[p].seen)
  /\ poller' = [poller EXCEPT ![p] = [@ EXCEPT !.stage = "drain", !.polled = TRUE, !.page = {},
                                             !.seen = 0]]
  /\ UNCHANGED <<changes, twin, sync, parked, lease, status, budget>>

(* A backfill or a scheduled query enqueues what it read a while ago; it   *)
(* holds no lease and leaves the watermark alone.                          *)
Backfill(v) ==
  /\ v \in DOMAIN changes
  /\ entry[v].status = "none"
  /\ Spend("backfill")
  /\ entry' = Enqueued({v})
  /\ nextPos' = NextPosition({v})
  /\ UNCHANGED <<provider, twin, sync, parked, poller, lease, status>>

(* The sync ends: its outcome becomes the connector's status.              *)
Finish(p) ==
  /\ poller[p].stage = "status"
  /\ status' \in {"active", "degraded"}
  /\ Goto(p, "release")
  /\ UNCHANGED <<provider, rows, lease, budget>>

(***************************************************************************)
(* Processing one entry.                                                   *)
(***************************************************************************)

(* processDueIngestionRecords selects an entry that heads its partition.   *)
Select(p, v) ==
  /\ poller[p].stage = "drain"
  /\ v \in DOMAIN changes
  /\ Claimable(entry[v])
  /\ Older(v) = {}
  /\ poller' = [poller EXCEPT ![p] = [@ EXCEPT !.stage = "claim", !.row = v]]
  /\ UNCHANGED <<provider, rows, lease, status, budget>>

Claim(p) ==
  LET v == poller[p].row
  IN  /\ poller[p].stage = "claim"
      /\ IF Claimable(entry[v])
           THEN /\ entry' = [entry EXCEPT ![v] =
                     [status |-> "processing", pos |-> entry[v].pos,
                      attempts |-> entry[v].attempts + 1, owner |-> p, expired |-> FALSE]]
                /\ poller' = [poller EXCEPT ![p] =
                     [@ EXCEPT !.stage = "read", !.attempt = entry[v].attempts + 1]]
           ELSE /\ Goto(p, "drain")
                /\ UNCHANGED entry
      /\ UNCHANGED <<provider, nextPos, twin, sync, parked, lease, status, budget>>

(* processRecord drops a version older than the one the twin shows, by its *)
(* timestamp, and one whose content the twin already shows.                *)
StaleMutant(v, shown) == FALSE
Stale(v, shown) == shown # 0 /\ (Stamp(v) < Stamp(shown) \/ v = shown)

Read(p) ==
  LET v == poller[p].row
      shown == twin[changes[v]]
  IN  /\ poller[p].stage = "read"
      /\ poller' = [poller EXCEPT ![p] =
                    [@ EXCEPT !.stage = IF Stale(v, shown) THEN "finish" ELSE "write",
                              !.seen = shown]]
      /\ UNCHANGED <<provider, rows, lease, status, budget>>

(* The twin and its event commit; creating it twice breaks a unique key.   *)
Write(p) ==
  LET v == poller[p].row
      r == changes[v]
  IN  /\ poller[p].stage = "write"
      /\ IF poller[p].seen = 0 /\ twin[r] # 0
           THEN /\ Goto(p, "fail")
                /\ UNCHANGED <<twin, sync>>
           ELSE /\ twin' = [twin EXCEPT ![r] = v]
                /\ sync' = [sync EXCEPT ![r] = "synced"]
                /\ Goto(p, "finish")
      /\ UNCHANGED <<provider, entry, nextPos, parked, lease, status, budget>>

NextRow(p) == poller' = [poller EXCEPT ![p] = [@ EXCEPT !.stage = "drain", !.row = 0,
                                                        !.attempt = 0, !.seen = 0]]

(* The claim on an entry ends.                                             *)
Ended(v, outcome) == [entry[v] EXCEPT !.status = outcome, !.owner = NoOwner, !.expired = FALSE]

(* The event was propagated and the record's comments are stored.          *)
Complete(p) ==
  /\ poller[p].stage = "finish"
  /\ entry' = [entry EXCEPT ![poller[p].row] = Ended(poller[p].row, "completed")]
  /\ NextRow(p)
  /\ UNCHANGED <<provider, nextPos, twin, sync, parked, lease, status, budget>>

(* A malformed record, a record of another connector, comments that cannot *)
(* be read, a failed query; or the provider sheds the read of comments.    *)
RecordFails(p) ==
  /\ \/ /\ poller[p].stage \in {"read", "write", "finish"}
        /\ Spend("record")
        /\ Goto(p, "fail")
     \/ /\ poller[p].stage = "finish"
        /\ Spend("shed")
        /\ Goto(p, "defer")
  /\ UNCHANGED <<provider, rows, lease, status>>

FailMutantStatus(p) ==
  LET v == poller[p].row
      final == poller[p].attempt >= MaxAttempts
  IN  /\ poller[p].stage = "fail"
      /\ entry' = [entry EXCEPT ![v] = Ended(v, IF final THEN "dead" ELSE "failed")]
      /\ sync' = IF final /\ twin[changes[v]] # 0
                   THEN [sync EXCEPT ![changes[v]] = "paused"]
                   ELSE sync
      /\ NextRow(p)
      /\ UNCHANGED <<provider, nextPos, twin, parked, lease, status, budget>>

FailMutantPause(p) ==
  LET v == poller[p].row
      final == poller[p].attempt >= MaxAttempts
  IN  /\ poller[p].stage = "fail"
      /\ entry' = [entry EXCEPT ![v] = Ended(v, IF final THEN "dead" ELSE "retry")]
      /\ sync' = IF twin[changes[v]] # 0
                   THEN [sync EXCEPT ![changes[v]] = "paused"]
                   ELSE sync
      /\ NextRow(p)
      /\ UNCHANGED <<provider, nextPos, twin, parked, lease, status, budget>>

Fail(p) ==
  LET v == poller[p].row
      final == poller[p].attempt >= MaxAttempts
  IN  /\ poller[p].stage = "fail"
      /\ entry' = [entry EXCEPT ![v] = Ended(v, IF final THEN "dead" ELSE "retry")]
      /\ sync' = IF final /\ twin[changes[v]] # 0
                   THEN [sync EXCEPT ![changes[v]] = "paused"]
                   ELSE sync
      /\ NextRow(p)
      /\ UNCHANGED <<provider, nextPos, twin, parked, lease, status, budget>>

(* deferShedWork, the only update here that checks the claim.              *)
Defer(p) ==
  LET v == poller[p].row
  IN  /\ poller[p].stage = "defer"
      /\ entry' = IF entry[v].owner = p
                    THEN [entry EXCEPT ![v] = [Ended(v, "retry") EXCEPT
                            !.attempts = IF entry[v].attempts > 0 THEN entry[v].attempts - 1 ELSE 0]]
                    ELSE entry
      /\ NextRow(p)
      /\ UNCHANGED <<provider, nextPos, twin, sync, parked, lease, status, budget>>

(***************************************************************************)
(* Claims and trouble.                                                     *)
(***************************************************************************)

(* A claim has no heartbeat.  Two minutes pass while the event propagates  *)
(* and comments are read, or when the worker is gone; otherwise only if it *)
(* stalls.                                                                 *)
ClaimExpires(v) ==
  /\ entry[v].status = "processing"
  /\ ~entry[v].expired
  /\ IF \E p \in Pollers : /\ poller[p].row = v
                           /\ entry[v].owner = p
                           /\ poller[p].stage \in Processing \ {"finish"}
       THEN Spend("stall")
       ELSE UNCHANGED budget
  /\ entry' = [entry EXCEPT ![v].expired = TRUE]
  /\ UNCHANGED <<provider, nextPos, twin, sync, parked, poller, lease, status>>

(* A query outside the handling of one record fails; finally releases.     *)
QueryFails(p) ==
  /\ poller[p].stage \in Working \ {"read", "write", "finish", "release"}
  /\ Spend("fault")
  /\ Goto(p, "release")
  /\ UNCHANGED <<provider, rows, lease, status>>

Crash(p) == /\ poller[p].stage \in Working
            /\ Spend("crash")
            /\ Leave(p)
            /\ UNCHANGED <<provider, rows, lease, status>>

(* A starting process re-opens the claims that have expired.               *)
Bootstrap ==
  /\ \E v \in Versions : entry[v].status = "processing" /\ entry[v].expired
  /\ entry' = [v \in Versions |->
       IF entry[v].status = "processing" /\ entry[v].expired
         THEN Ended(v, "retry")
         ELSE entry[v]]
  /\ UNCHANGED <<provider, nextPos, twin, sync, parked, poller, lease, status, budget>>

(***************************************************************************)
(* Operators, and the outbound queue of the same twins.                    *)
(***************************************************************************)

(* reinjectTwinDeadLetter; the entry has no twin_id until it is completed, *)
(* so its twin is not un-paused.                                           *)
Reinject(v) ==
  /\ entry[v].status = "dead"
  /\ Spend("reinject")
  /\ entry' = [entry EXCEPT ![v] = [@ EXCEPT !.status = "pending", !.attempts = 0]]
  /\ UNCHANGED <<provider, nextPos, twin, sync, parked, poller, lease, status>>

Pause == /\ status # "paused"
         /\ Spend("pause")
         /\ status' = "paused"
         /\ UNCHANGED <<provider, rows, poller, lease>>

Activate == /\ status = "paused"
            /\ status' = "active"
            /\ UNCHANGED <<provider, rows, poller, lease, budget>>

(* A work order of the twin is dead-lettered or held ...                   *)
OrderParks(r) ==
  /\ twin[r] # 0
  /\ r \notin parked
  /\ Spend("park")
  /\ parked' = parked \cup {r}
  /\ sync' = [sync EXCEPT ![r] = "paused"]
  /\ UNCHANGED <<provider, entry, nextPos, twin, poller, lease, status>>

(* ... is re-injected ...                                                  *)
OrderResumes(r) ==
  /\ r \in parked
  /\ parked' = parked \ {r}
  /\ sync' = [sync EXCEPT ![r] = "synced"]
  /\ UNCHANGED <<provider, entry, nextPos, twin, poller, lease, status, budget>>

(* ... or is executed, while no other is parked.                           *)
OrderExecutes(r) ==
  /\ twin[r] # 0
  /\ r \notin parked
  /\ Spend("park")
  /\ sync' = [sync EXCEPT ![r] = "synced"]
  /\ UNCHANGED <<provider, entry, nextPos, twin, parked, poller, lease, status>>

-----------------------------------------------------------------------------
PollerStep(p) == \/ Acquire(p)
                 \/ Release(p)
                 \/ DrainDone(p)
                 \/ Fetch(p)
                 \/ Accept(p)
                 \/ Finish(p)
                 \/ Claim(p)
                 \/ Read(p)
                 \/ Write(p)
                 \/ Complete(p)
                 \/ Fail(p)
                 \/ Defer(p)

Trouble(p) == \/ FetchFails(p)
              \/ Shed(p)
              \/ RecordFails(p)
              \/ QueryFails(p)
              \/ Crash(p)

Next == \/ \E p \in Pollers : \/ Start(p)
                              \/ PollerStep(p)
                              \/ Trouble(p)
                              \/ \E v \in Versions : Select(p, v)
        \/ \E v \in Versions : \/ Backfill(v)
                               \/ ClaimExpires(v)
                               \/ Reinject(v)
        \/ \E r \in Records : \/ Change(r)
                              \/ OrderParks(r)
                              \/ OrderResumes(r)
                              \/ OrderExecutes(r)
        \/ LeaseExpires
        \/ RenewLease
        \/ Bootstrap
        \/ Pause
        \/ Activate

Spec == Init /\ [][Next]_vars

(* Calls get their turn, time passes, a paused connector is activated      *)
(* again, syncs keep being requested, and an entry that is due again and   *)
(* again while a sync drains is in the end selected.                       *)
Abandoned(v) == ClaimExpires(v) /\ UNCHANGED budget
Fairness == /\ \A p \in Pollers : WF_vars(PollerStep(p))
            /\ SF_vars(\E p \in Pollers : Start(p))
            /\ \A v \in Versions : /\ WF_vars(Abandoned(v))
                                   /\ SF_vars(\E p \in Pollers : Select(p, v))
            /\ WF_vars(LeaseExpires /\ ~Beating)
            /\ WF_vars(Activate)
FairSpec == Spec /\ Fairness

-----------------------------------------------------------------------------
(***************************************************************************)
(* Properties.                                                             *)
(***************************************************************************)

EntryType == [status : {"none", "pending", "retry", "processing", "dead", "completed"},
              pos : Nat, attempts : Nat, owner : Pollers \cup {NoOwner}, expired : BOOLEAN]
PollerType == [stage : Working \cup {"idle", "acquire"}, kind : {"sync", "drain"},
               polled : BOOLEAN, row : Versions \cup {0}, attempt : Nat, seen : Nat,
               page : SUBSET Versions]

(* Rows hold values of the schema; calls stand at their awaits.            *)
TypeOK == /\ changes \in Seq(Records) /\ Len(changes) <= MaxChanges
          /\ cursor \in Nat
          /\ entry \in [Versions -> EntryType]
          /\ nextPos \in Nat \ {0}
          /\ twin \in [Records -> Versions \cup {0}]
          /\ sync \in [Records -> {"synced", "paused"}]
          /\ parked \subseteq Records
          /\ poller \in [Pollers -> PollerType]
          /\ lease \in [owner : Pollers \cup {NoOwner}, expired : BOOLEAN]
          /\ status \in {"active", "degraded", "error", "paused"}
          /\ budget \in [Troubles -> Nat]

(* README.md:347: "the cursor advances only after every record is          *)
(* recoverably accepted": a crash, a failed poll or an overlapping         *)
(* acceptance never leaves a change behind the watermark without an entry. *)
NoChangeLost ==
  \A v \in Current : Stamp(v) < cursor => entry[v].status # "none"

(* README.md:357: "Overlapping syncs of one connector are prevented by an  *)
(* expiring, heartbeated database lease", as long as no process stalls for *)
(* longer than its lease.                                                  *)
Unstalled == budget["stall"] = Budget["stall"]
OneAtATime ==
  Unstalled => \A p, q \in Pollers :
    p # q => ~(poller[p].stage \in Working /\ poller[q].stage \in Working)

(* connector.service.ts:1068-1070: a record that reaches the queue late    *)
(* never rolls "the twin back to a state the source has already left", and *)
(* what a sync has completed is not processed again (989), whatever        *)
(* crashes, expired claims, failures and load shedding are on the way.     *)
NothingGoesBack ==
  [][Unstalled =>
       /\ \A r \in Records : Stamp(twin'[r]) >= Stamp(twin[r])
       /\ \A v \in Versions : entry[v].status = "completed" => entry'[v].status = "completed"]_vars

(* implementation_plan.md:564: re-injection "clears the twin pause": a     *)
(* twin is paused only while an entry of it waits for an operator or for   *)
(* its next attempt.                                                       *)
PauseIsExplained ==
  Unstalled => \A r \in Records :
    sync[r] = "paused" =>
      \/ r \in parked
      \/ \E v \in DOMAIN changes : changes[v] = r /\ entry[v].status \in Blocking

(* The mirror follows: every change is in the end shown by its twin, or a  *)
(* newer one is, unless an entry of the record waits for an operator.      *)
MirrorFollows ==
  \A v \in Versions :
    v \in DOMAIN changes ~>
      /\ v \in DOMAIN changes
      /\ \/ twin[changes[v]] >= v
         \/ \E u \in DOMAIN changes : changes[u] = changes[v] /\ entry[u].status = "dead"
=============================================================================
