# Cadena in TLA+

Cadena mirrors work items of external products (Jira, ServiceNow) as *canonical twins*, translates state changes
between twins of different products, writes them back, and keeps an audited history of events, with flow, SLA and
notification services on top. It is a NestJS application over PostgreSQL; several replicas run over one database
(`deploy/staging`). There are no distributed protocols in the strict sense: what is hard is that every handler is a
chain of awaited queries and HTTP calls, that several processes run those chains over the same rows, that any of them
can stop between two awaits, and that claims and leases expire by time.

The models therefore share one granularity: **an action is what happens between two awaits**; a database transaction is
one action (its intermediate states are not visible to others); every await is a point where a process may stop and
another process may go on.

Paths below are relative to the repository's `src/modules` unless they start with another directory.

## 1. Inventory

| Component | State it keeps | Operations | Hard behaviour | What makes it correct |
| --- | --- | --- | --- | --- |
| Audit integrity chain (`audit/`) | `audit_integrity_entries`: hash-linked rows per tenant | append inside the transaction of an event, backfill at start-up, verify | replicas race for the chain head; unique constraints are the only lock; sequence numbers are drawn before rows are visible | the committed chain always verifies, is append-only and holds an event once |
| Transactional outbox, event bus (`events/event-outbox.service.ts`, `event-bus.ts`) | `event_outbox` | enqueue with the mutation, dispatch, recovery at bootstrap | dispatch races with recovery passes; crash after commit | every committed event is delivered |
| Event consumers, dead letters (`events/consumer-registry.service.ts`, `dead-letter.service.ts`) | `event_consumptions`, `dead_letter_events` | claim, handler with retries, mark, dead-letter, replay, discard | redelivery, operators racing with delivery, swallowed errors, a second replica resetting live claims | one handler per event and consumer; failures surface |
| Outbound work orders (`connectors/connector.service.ts` 1448-2142) | `integration_connector_work_orders`, `sync_state` of twins | propagate, edit, drain, claim, translate, write, complete, hold, retry, dead-letter, re-inject | expiring claims with heartbeats, FIFO per twin, crash around the provider call | one writer per twin, order per twin, every order concludes |
| Synchronization and intake (`connector.service.ts` 542-1163) | leases, cursors, ingestion queue, twins, connector status | sync, drain, accept a page, process a record, backfill, pause | lease expiry, overlapping syncs, stale records, shared `sync_state` | no change is lost, twins never go back |
| Provider paging (adapters) | none (the provider's table moves) | poll, backfill page | edits between page requests | what the watermark passes was read |
| Comment deliveries (1171-1417) | `integration_comment_deliveries` | store, plan, claim, search for the marker, write | claim without heartbeat, lost answers, starvation by paused targets | a comment is written once and in the end |
| Sync guard (`integrations/sync-guard.service.ts`) | volatile markers, `integration_sync_snapshots` | record a write, judge an incoming change | an echo races the record of the write; a restart loses markers; a handler stops after the judgement | no echo is carried on, no change of a user is taken for one |
| Rate governor (`connectors/rate-governor.ts`) | in-process gates, `integration_rate_governance` | admit, record success or failure, shed, probe | quota window, shedding and its probe over several processes | limits are not exceeded, shedding ends |
| Relay (`connectors/relay/`) | requests with leases, the agent's ledger | submit, poll, answer, time out, rotate the token | late answers, a full disk, agent restarts | an operation is called once and answered once |
| Historical backfill (`connectors/backfill/`) | jobs, chunks, runner leases | plan, start, pause, resume, cancel, run chunk | runner crash, lease takeover, adaptive limiter | every chunk is read or reported |
| Native queries (`connectors/native-query/`) | subscriptions with a watermark, validated texts | draft, edit, publish, disable, run, fail | an edit under a run, a lease that runs out, what a valid text may read | the watermark passes nothing over, a query stays in its scope |
| Inbound webhooks (`integrations/inbound-webhook-queue.service.ts`, `integration.service.ts`) | `integration_deliveries`, artifacts, an in-process line | accept, deduplicate, process, retry, replay | a provider delivers again, failures after completion, a restart | an accepted delivery is processed or waits for an operator, and its answer is true |
| State and field mapping (`integrations/state-mapping.service.ts`, `connectors/mapping/`) | drafts and versions | draft, publish, choose, evaluate | two publishers, publication under an order, schemas that change | a decision uses one published version; a change carries what its mapping requires |
| Correlation (`integrations/correlation.service.ts`) | nodes, typed links | pair, register, rename, walk | a pair created in both directions, deadlocking upserts, links added under a walk | one counterpart link for two records; a walk lies between two graphs |
| Monitoring (`integrations/monitoring.service.ts`) | alert artifacts, incidents, evidence | fire, resolve, deduplicate, escalate, propose a mitigation | retries between two commits, people moving the incident | one open incident per alert, automation stops short of what people decide |
| Workflow, work items (`workflow/`, `work-items/`) | definitions with versions, items, the log of transitions | validate, publish, create, transition, edit | publications that draw one version, edits over a read row | an item keeps its workflow, its history is a path |
| SLA and aging (`sla/`) | `sla_emissions`, clocks on items | tick, bank, announce | ticks of several replicas, a transition under a tick | an announcement is made once, a suspended clock rests |
| Notifications (`notifications/`) | settings, preferences, targets, notifications | configure, resolve recipients, deliver with a fallback, record | a stop between telling and recording, settings written whole | one notification per event and person, whose row is true |
| Twin projection (`connectors/twin-projection.service.ts`) | work items of twins, their link | project, re-project, link counterparts | events in any order, two handlers of one twin, a stop | the item shows the newest twin under the configuration in force |
| Lineage and impact (`lineage/`) | links, stored exports | link, walk, export | links added under a walk | a report lies between two graphs and explains itself |
| Service registry (`services/`) | services, edges to items | register, link, resolve | concurrent registrations | no label or owner is discarded |
| Flow classification (`flow/flow-classification.service.ts`) | append-only versions per scope | set, resolve | two people saving at once | the history of a state is a chain |
| Connector lifecycle (`connector.service.ts` 199-694, 2956-2978) | connector rows, configurations, shared budgets, policies cached per process | create, test, discover, activate, pause, configure, register policies at start-up | configurations written whole, status written late, calls under a policy another process has replaced | a setting given is kept, a pause is kept, a budget is never wider than the safest asked for |
| Flow, metrics, risk, cost of delay | read models of the event history | compute | none (folds when asked) | agreement with their definitions |
| Auth, RBAC, secrets, health, workspace, scripts, sandboxes | single rows or none | single statements | none | - |

How they interact: every mutation commits its rows, its event and the event's audit entry in one transaction
(outbox + audit chain); the bus then delivers the event to the consumers. A sync stores records in the intake queue;
processing a record writes the twin and commits `CanonicalTwinUpdated`; the consumer of that event plans work orders
for the counterparts; the next drain executes them under the rate governor, and the provider's echo comes back through
the next sync, where the content hash and the sync guard stop it. The intake queue and the work orders share the
`sync_state` of a twin. Backfills, native queries and webhooks are further sources of the intake queue.

## 2. Plan

| Order | Module | Composes | Status |
| --- | --- | --- | --- |
| 1 | `AuditChain`, `AuditLog` (abstract) | | checked, proved, refinement included |
| 2 | `EventBackbone` | outbox, bus, consumers, dead letters | checked, proved |
| 3 | `WorkOrderQueue`, `TwinFifo` (abstract), `WorkOrderFifo` (mapping) | | checked, proved, refinement included |
| 4 | `IntakeQueue` | sync lease, intake, the twin pause shared with 3 | checked, proved |
| 5 | `WatermarkPaging` | the fetch that 4 takes as one step | checked, proved |
| 6 | `CommentDelivery` | readers, drains, policies, pauses | checked, proved |
| 7 | `SyncGuard` | the guard with the handler around it and the worker that records a write | checked |
| 8 | `RateGovernor`, `ConnectorLifecycle` | admission of calls; the rows and budgets of connectors | checked, proved |
| 9 | `ConnectorRelay` | service, agents, ledgers | checked, proved |
| 10 | `Backfill`, `NativeQuery`, `QueryScope` | jobs, chunks, limiter; subscriptions; what a valid text reads | checked, proved |
| 11 | `InboundWebhook`, `Monitoring` | the webhook queue with its Git gateway; the alert gateway | checked; the webhook queue proved |
| 12 | `Translation` | versions of state and field mappings, with an order that uses both | checked |
| 13 | `WorkItem`, `Definitions` | one item with the aging tick; the workflows of one type | checked |
| 14 | `TwinProjection`, `Correlation` | work items of twins; the graph of records | checked |
| 15 | `Notifications`, `Lineage`, `ServiceRegistry`, `FlowClassification` | one service each | checked |
| 16 | operators for flow metrics, SLA calendars and cost of delay | pure functions against reference definitions | open |

The runs follow the modules. The queues that matter most have runs of their own; the modules of 8 to 15 run as machines
of two umbrellas, `Transport` (everything between Cadena and a provider, with its instance for TLC in `MCTransport`)
and `MCPlatform` (everything behind the connectors). A behaviour of an
umbrella is one of a single machine and the others rest in an initial state, so the instance is the *sum* of the
machines, never their product, and each property of the umbrella is a conjunction that says, for the machine at work,
what its own module states under the name given in the comment.

Abstract specifications: the per-tenant append-only log (`AuditLog`) and the FIFO of writes per twin (`TwinFifo`).

## 3. Modules

### `AuditChain` with `AuditLog` (audit/audit-integrity.ts, events/event-store.service.ts, database/database.service.ts)

Writers are the transactions of business mutations and the loaders that backfill the chain at start-up. A row is one
row of `audit_integrity_entries`; `entries` are the committed ones, `pending[w]` those of the open transaction of `w`.
`ReadHead`, `DrawSequence`, `Insert` and what follows a lost race are the awaits of `appendAuditIntegrityEntry`; the
sequence number is drawn by the INSERT before the row is visible, so it is a step of its own. A unique index makes an
INSERT wait for the transaction that holds the same key (`Blocked`), and fail if that commits. The hash is modelled as
the sequence of the events it covers, which is what makes it collision free. `AuditLog` says what this is for: one
append-only log of events per tenant. `ImplementsLog` maps the log of a tenant to the hash of its newest committed row.

### `EventBackbone` (events/)

Tasks are the recovery of each replica, publishers and operators; a task walks through the consumers of its event.
`CommitMutation` is the transaction of a business mutation with its outbox row. `Claim`, `HandlerSucceeds`,
`HandlerThrows`, `MarkProcessed`, `ClearDeadLetter`, `MarkFailed`, `DeadLetter` are the awaits of
`EventConsumerRegistry.dispatch`; `Settle` is the last statement of `EventOutboxService.dispatch`; `Start`,
`SelectPending` and `NextPending` are the bootstrap hooks and `recoverPending`; `Replay`, `ReportReplay` and `Discard`
are `DeadLetterService`. `QueryFails` is any query that fails, with the consequence it has at that place: within an
attempt it is a failed attempt, elsewhere the subscription swallows it, or, in a replay, the operator is told. The
tenant that `deadLetter` looks up and the alert it raises are part of its step.

### `WorkOrderQueue` with `TwinFifo` and `WorkOrderFifo` (connectors/connector.service.ts 1448-2142)

A worker is one drain or one operator edit; `Load` to `Shed` are the awaits of `executeWorkOrder`. Rows keep status,
position, attempts, claim owner and whether the claim has expired. What a translation decides and what the provider
answers are choices. Expiry needs a claim nobody renews, or costs a `stall`. `leaked` are heartbeats that outlive their
worker. `TwinFifo` is the promise of one twin's queue: only its first unfinished order may be written or finished.
`WorkOrderFifo` gives the mapping.

### `IntakeQueue` (connectors/connector.service.ts 542-1163, 2033-2142)

A call is one `syncConnector` or `drainIngestionQueue`. A version of a record is the number of the change that made it;
`Stamp` groups `Grain` changes into one timestamp of the provider, because providers stamp by the second. `Fetch` and
`Accept` are polling and the transaction of `acceptIngestionPage`; `Select` to `Complete` and `Fail` follow one entry
through `processIngestionRecord`. Work orders of the same twin appear as the three actions that touch the shared
`sync_state`: `OrderParks`, `OrderResumes`, `OrderExecutes`.

### `WatermarkPaging` (connectors/servicenow-connector.adapter.ts 159-255)

`IntakeQueue` takes a fetch as one step. This module opens it: each request is a step, the table is sorted when the
request arrives, and users edit rows in between. A poll pages by offset, a backfill by a token of the last time read
and the number of rows read at it.

### `CommentDelivery` (connector.service.ts 1166-1446)

Readers store the comments of a record and plan one delivery per counterpart; drains of any connector claim due
deliveries, look for the marker of an earlier try, and write. Awaits are steps; `Comment`, `Pause`, `Resume` and
`ConfigureCommentSync` are people, `BackoffEnds` and `ClaimExpires` the clock. A copy carries the id of its delivery.
What a worker has read and still to do is a set of places, in the thread or in the order of planning, which it works
off from the least.

### `SyncGuard` (integrations/sync-guard.service.ts, connector.service.ts 1448-1560, 1837-1850)

`Push`, `RecordSnapshot` and `RecordMarker` are the worker that writes and then records its write; `Receive`, `Look`,
`Decide`, `Suppress`, `FanOut` the handler of a change read from the same item. Markers live in memory and go with a
`Restart` or by `Expire`, the snapshot is a row.

### `RateGovernor` and `ConnectorLifecycle` (connectors/rate-governor.ts, connector.service.ts 199-694, 2956-2978)

A call enters the gate of its process, takes a unit of the shared window, is answered, and reports success or pressure;
`NewWindow`, `ShedEnds`, `ProbeExpires` are the clock. A woken waiter runs after callbacks that are already queued. Each
process has a policy of its own cached, and every admission narrows the quota of the shared row to it (`Effective`).
`ConnectorLifecycle` has the operations on connector rows as *read, work, write*. The registration of the shared budget
takes two steps: the policies of the target are read, and the process caches the safest (`ReadPolicies`), then the row
is written (`StorePolicy`); either query may fail (`RegistrationFails`). A test, a discovery or a synchronization calls
the provider: `Govern` takes the policy its process has cached, or that of the row it read, `Admit` writes the smaller
of that and the stored budget (`Narrowed`). `Stop` and `StartUp` are processes, which register every connector before
they serve.

### `ConnectorRelay` (connectors/relay/)

`Submit`, `Persist`, `ReadAnswer`, `StopWaiting` are the caller, `Poll` to `AgentStep` an agent with its ledger of
files; acknowledgements can be lost, leases end, `Provision` rotates the token and `Reconfigure` gives it to the agent.

### `Backfill`, `NativeQuery`, `QueryScope` (connectors/backfill/, connectors/native-query/)

`Backfill`: operators create, activate, run, pause, cancel and retry; a worker claims the lease, selects chunks within
the adaptive limit, fetches and commits a page at a time, and finishes. `Create` cuts a range into chunks as the code
does; a page of a chunk includes what the provider cannot tell apart within a minute.
`NativeQuery`: edits, publication and disabling against runs that hold the row by a lease. `QueryScope` writes query
texts step by step and judges each with the rules of the validator (`ValidJql`, `ValidEncoded`); what a text *reads* is
defined independently of the validator, by the meaning of AND, OR, `^OR` and `^NQ`.

### `InboundWebhook`, `Monitoring` (integrations/)

`Accept` stores delivery and event together. A task is the dispatch of an event (`Dispatch`) or an operator's replay
(`Replay`): `ClaimEvent`, `Retry`, `MarkProcessed`, `ClearDeadLetter`, `MarkFailed`, `DeadLetter` are the awaits of the
registry around the handler, `Settle` and `Report` what the outbox or the replay writes at the end. `Overtake` is a
recovery pass of another process that loses the claim and settles the event all the same. A failing query is a failed
attempt (`AttemptFails`), is swallowed before the event is settled (`RegistryFails`), or leaves the event for the next
recovery (`SettleFails`), as its place has it. The handlers that were called wait in a serial line; `Claim`, `Link`,
`Move`, `MoveFails`, `Complete`, `Publish`, `Fail` are the Git gateway. `Replay` and `Discard` have the guards of
`DeadLetterService` and no others, so they may meet a delivery at work. `Monitoring` is the gateway for alerts, with
people moving incidents between its commits (`Person`).

### `Translation` (integrations/state-mapping.service.ts, connectors/mapping/, connector.service.ts 1687-1835)

Managers draft and publish versions of the two kinds of mapping in the steps of the code; a discovery replaces a schema;
an order reads the newest published versions (`MapState`, `ReadFieldMapping`), fills the fields and pushes.

### `WorkItem`, `Definitions` (workflow/, work-items/, sla/)

`WorkItem`: a transition or an edit reads the row (`BeginMove`, `BeginEdit`) and writes it later (`Move`, `Edit`); a
transition is guarded by the state it read, an edit is not; the tick reads, writes the clock and announces what is due.
A change of state that a connector reports counts from the source's time, which may be past (`BeginSourceChange`).
`Definitions`: two publishers who have read the newest version, and an item that moves under the version it names.

### `TwinProjection`, `Correlation`, `Lineage` (connectors/twin-projection.service.ts, integrations/, lineage/)

`TwinProjection`: a handler looks up the item of a twin, creates or updates it, moves its state under a version check,
and links counterparts; a re-projection walks the twins after a configuration. Versions have the times the source gives
them, which several may share, and the guards compare times (`Newer`). `Correlation`: `createPair` as the
transaction it is, with the row locks of its upserts (`Upsert`, `Deadlock`), and the walk of `resolve`. `Lineage`:
reports that walk links one item at a time while links are added.

### `Notifications`, `ServiceRegistry`, `FlowClassification`

One service each, split at its awaits: recipients are resolved, preferences read, a message delivered and only then
recorded; a service is read by its key and then inserted or updated; classifications are read before the transaction
that appends new versions.

### Modules for TLC

`MCAuditChain`, `MCEventBackbone`, `MCWorkOrderQueue`, `MCIntakeQueue`, `MCWatermarkPaging` and `MCCommentDelivery` give
constants to one specification, `MCTransport` gives them to the seven machines of `Transport`, and `MCPlatform` runs
twelve, the event backbone with two consumers among them.

## 4. Runs

Every bound is a CONSTANT of a module. Two kinds are used: a number of changes, versions, calls or attempts (`Max...`),
and a `Budget` of troubles that says which kinds may happen *together* in one behaviour, and how often. All runs
enumerate states explicitly. Interchangeable workers and callers are declared symmetric in
`intake_contention`, `orders_contention` and `platform`, which check no liveness.
Deadlock is not checked: a bounded instance rests when its changes are made and its queues are empty. That nothing stops
*before* that is what the liveness properties say.

| Run | Instance | What it shows |
| --- | --- | --- |
| `audit_replicas` | 2 transactions, 1 loader, 3 events of 2 tenants, 2 of them legacy, 2 attempts | the committed chain verifies, only grows, holds an event once; every append ends; it implements `AuditLog` |
| `events_recovery` | 1 replica, 1 publisher, 1 operator, 2 recovery passes, 2 events; a crash, a failed query or a replay | exclusive claims, no side effect is repeated unless a crash cut it short, losses other than orphans never outnumber failed queries, every event concludes |
| `events_replicas` | 2 replicas, 1 event; *expected to fail* | the start of the second replica re-opens the live claim of the first: the handler runs twice at once |
| `orders_contention` | 2 workers, 2 orders of one twin, a crash and 2 re-injections, any two | `TwinFifo`: only the head of a queue is written or finished |
| `orders_progress` | 2 workers, a propagated order and an edit, one trouble of any kind | one writer per twin, dead orders earned it, no late worker re-opens a concluded order; every order concludes or an operator has something to do |
| `intake_contention` | 2 calls, 2 records, 2 changes, any two of a crash, a stall, a backfill, a parked order, failing records | one sync at a time, no change behind the watermark without an entry, a paused twin has something parked, nothing completed is processed again and no twin goes back |
| `intake_progress` | 2 calls, 1 record, 2 changes, any two troubles; a stall, a backfill or a parked order only alone | every change is in the end shown by its twin, or a dead entry waits |
| `intake_stuck` | 1 call, 1 change, a failing record, a re-injection; *expected to fail* | a re-injected entry that turns out stale leaves its twin paused with nothing to re-inject |
| `paging_window` | 3 rows, 2 seconds, pages of 1, 4 edits | a window is read in full unless a row behind the reader is edited; the watermark reaches every row; a backfill ends |
| `comments` | 2 linked records, 1 reader, 2 drains, 2 attempts, pairs of troubles that belong together | one copy per comment and counterpart, the status of a delivery is true, every comment arrives |
| `transport` | the seven machines of `Transport`, see below | the gate bounds calls, shedding is earned and ends by one probe, a budget is not wider than the safest, a relayed operation is called once, no chunk, watermark, delivery or setting is lost, no valid query leaves its scope, what is settled stays |
| `platform` | the twelve machines of `MCPlatform`, see below | nothing given is lost, nothing is done twice, rows say what happened, reports lie between two graphs, no step is taken unasked |

The machines of the umbrellas:

| Machine | Instance |
| --- | --- |
| `RateGovernor` | 3 callers in 2 processes, 1 open call, quota 2 registered and cached as 2 by one process and 1 by the other, shedding after 2; three bags of pressure, errors, faults, a crash, a stalled probe |
| `ConnectorLifecycle` | 2 connectors of one target, 2 callers in 2 processes, 3 budgets, 3 operations; stops and failing registrations |
| `ConnectorRelay` | 2 operations, 2 agents; pairs of crash, lost acknowledgement, network, stall, disk, rotation |
| `Backfill` | 1 job, 2 workers, ranges of 2 chunks with a record on the boundary, 2 attempts; four bags of two or three troubles |
| `NativeQuery` | 2 users, 2 runs, 3 texts of which 1 is refused, 2 records, 2 changes, 4 requests or 2 with an expired lease |
| `QueryScope` | every JQL tree of two operands of at most 2 predicates each, every encoded text of at most 3 terms, over 3 kinds of field |
| `InboundWebhook` | 2 deliveries that mention a common story, 2 attempts, 1 operator; a crash with a fault, 2 faults with a replay, or a crash with a person's move |
| `SyncGuard` | 3 changes of 2 contents, one kind of mishap |
| `Monitoring` | 4 alerts of one key, 2 workflows, 1 fault, 2 moves by people |
| `Translation` | 1 order, 2 managers, 3 drafts of which two are of one pair, 2 schemas; an abandoned publication, a discovery or an interruption |
| `WorkItem` | 3 states, 2 requests, 2 minutes, one announcement, source changes of any time since the last |
| `Definitions` | 4 drafts of which 2 are invalid, 2 publishers, 1 item, 3 versions |
| `TwinProjection` | 2 twins with 3 and 1 versions, of which two share a time; one handler with a stop or a change of configuration, or two handlers at once |
| `Correlation` | 3 nodes, 3 pairs of which two are opposite, 2 calls, walks of depth 2 |
| `Notifications` | 2 people, an escalation and a breach, 2 changes of settings or preferences, one stop |
| `Lineage` | 4 items, 3 of 4 links (which contain a cycle), walks of depth 2 |
| `ServiceRegistry` | 2 keys, 1 shared label, 1 item, 2 callers, 3 calls |
| `FlowClassification` | 1 state, 2 scopes, 2 people, 2 versions |
| `EventBackbone` | 1 event, 2 consumers, 1 publisher, 1 recovery pass, 1 operator, one attempt; any two of a crash, a failed query and a replay |

Why the bounds are enough. Every protocol here is a race of two parties over one row or one queue: two writers, two
workers, two calls or a call and an operator are the smallest instances with all interleavings; a third party repeats
what the second can do. Two entries of a queue are needed for order, and two attempts for a retry. One crash at *any*
await, followed by a restart, covers every place at which a process can stop; the same holds for one failed query and
one stall. Three rows and pages of one row make rows of one second spill over a page, and leave room to shift. Two
tenants are needed in `audit_replicas` since the sequence is shared by all tenants and the chains are not. The rate
governor needs a third caller: two of one process for its gate, one of another for the shared row. Three changes of an
item are a write, its echo and a change of a person between them. Pairs of troubles are grouped by what can meet: the
answer of a call that was lost and the crash after it, the lease that ends and the worker that is still alive. Groups
that touch different rows are not combined; that is the one place where the bounds leave behaviours out.

Why the machines of an umbrella may rest. The modules of an umbrella share no row with each other: what one hands to
another (a work order, an event, an entry of the intake queue) appears in the receiving module as an input that may come
at any time. The row that intake and work orders do share, the `sync_state` of a
twin, is in `IntakeQueue` with the actions of both.

## 5. Fairness

* Weak fairness of the steps of tasks, workers and calls: an awaited query or request is answered or fails, and the
  event loop runs every continuation. A step that stays enabled is therefore taken.
* Weak fairness of expiry of a claim or lease that nobody renews: it is a comparison with the clock.
* Weak fairness of `Start` of a replica: a stopped process is restarted by its deployment.
* `ActivateConnector` and `Activate`: an operator who paused a connector activates it again. Without it nothing is
  promised.
* Strong fairness of `Drain`, `Start` of a call and `Select`: *an assumption about the environment*. The code drains a
  queue when a sync of the connector is requested, and no timer of the server requests one. `EveryOrderConcludes`,
  `MirrorFollows` and `WatermarkReaches` hold as long as somebody does. It is strong fairness because a worker or call
  that is busy with another entry disables the choice for a while.
* `CommentDelivery`: weak fairness of each worker's steps, of backoffs, and of the expiry of a claim nobody works on;
  strong fairness of the start of a drain and of reading a record's comments, the same assumption about the environment.
* `intake_contention`, `orders_contention`, `transport` and `platform` check safety only and assume no fairness.
* No fairness of crashes, faults, stalls, edits, re-injections, or of replays by operators.

## 6. Disagreements between code and documentation

Two runs are expected to fail and refute a quoted line; `PROJECT.json` has the details. While modelling, the
following came up as well. They are behaviours of the models above: a run passes next to each because its property
states the premise that rules it out, or because no property speaks of it.

* audit-integrity.ts:75-76 says the loser of a race "re-reads the now-current head and retries". Inside a business
  transaction it cannot: PostgreSQL has aborted the transaction at the unique violation, so the mutation is rolled back
  after one attempt (`TxnAppend`).
* consumer-registry.service.ts:55-57 and README.md:1001 promise that an interrupted delivery is taken up again. A
  recovery pass that loses the claim still marks the outbox row dispatched; a crash of the winner then ends the
  delivery. `LossIsIsolated` sets these orphans apart.
* consumer-registry.service.ts:81-82: failures surface in the dead-letter queue. A query that fails while claiming or
  dead-lettering is logged only, and the row is settled (`LossIsIsolated`
  bounds the loss).
* dead-letter.service.ts:178: a discarded entry "stops counting toward depth". A replay under way that fails makes it
  dead again.
* README.md:356, FIFO within a twin: an operator edit draws its position before its transaction commits, so a younger
  order may be written first. `TwinFifo` orders by position among the rows that are visible.
* README.md:356, only refused or exhausted work enters the dead-letter queue: a query that fails after the provider
  accepted the write dead-letters the order at its first attempt (1839, 1850, 1901).
* test/us16.4-16.5.spec.ts:104-105, an expired claim is reclaimed by a running replica: if the target connector cannot
  be read at 1687, the heartbeat of 1682 is never stopped and keeps the claim alive (`leaked`).
* README.md:487, shedding never dead-letters: if the process stops between the shedding and the statement that gives
  the attempt back, the attempt is spent (the premise `Smooth` of `DeadIsEarned`).
* implementation_plan.md:566, "active work heartbeats the expiry": `drainIngestionQueue` holds the lease without a
  heartbeat (calls of kind `drain`), and overlaps with a sync when it takes longer than the lease.
* connector.service.ts:1068-1070: two changes within one timestamp cannot be ordered (`Grain` > 1), and a backfill of
  the older one rolls the twin back.
* connector.service.ts:1068-1070 again: the comparison reads the twin, and the UPDATE (1112-1123) repeats no part of it.
  A call that stalls between the two for longer than its lease and its claim writes an old version over a newer one. It
  takes three changes and two stalls (TLC finds it under `MaxChanges = 3` and two stalls), so `NothingGoesBack`, like
  `OneAtATime`, holds until a process stalls (`Unstalled`).
* implementation_plan.md:563: a twin whose work order is dead is set to synced by the next record of it (1116).
* README.md:336, a paused connector stays paused: a sync under way overwrites the status at its end (676, 2968).
* servicenow-connector.adapter.ts:182-183: an edited row "can only shift a neighbour within the same second". It can
  make the next request skip a row of another second; `WindowIsRead` names the premise, that no row behind the reader
  is edited.
* README.md:347, the cursor advances only after every record is accepted: a poll pages by offset
  (servicenow-connector.adapter.ts:241). When a row it has read is edited before the next request, that row moves to the
  end, the rest shifts up, one row is never returned, and the watermark passes it (255).

Comments and echoes (`CommentDelivery`, `SyncGuard`):

* A provider returns at most 1000 comments of a record, oldest first; later ones are not seen (`PageLimit`).
* A refusal that is not retried is written by the id of the row alone, so a worker whose claim has expired can overwrite
  what another has done; a batch read before a failure bypasses `next_attempt_at`; a query that fails after the copy was
  written counts as a failed attempt and may make the row dead. `OneCopy` names the late workers and threads longer than
  a page.
* connector.service.ts:1443-1447 says a replay of the handler is idempotent. A handler that stops between the commit of
  the guard (1509) and the work orders is delivered again, finds the content unchanged, and the change is never carried
  on (`ChangeIsKept` names the handlers that stopped there).
* Markers are lost with the process, used up by the first equal change, and shared by equal contents; the snapshot of a
  write is stored after the provider took it (1839), so an echo can arrive first; a recognised echo does not refresh
  the snapshot.

Providers (`RateGovernor`, `ConnectorLifecycle`, `ConnectorRelay`, `Backfill`, `NativeQuery`, `QueryScope`):

* A caller that waits for quota may lose every race for the next window: nothing orders the waiters of different
  processes. `connector-http.ts:108-112` clears the timeout before the body is read, so a body can hold a slot for ever.
* A failing connection test sets `error` on a paused connector (288-289), a degraded one becomes `active` after its next
  sync, and two configurations read outside a transaction are written back whole (`SettingsAreKept` names the overlap).
* rate-governor.ts:119-128, 525-529: one budget per target, with the safest policy. Policies are cached by each process
  and replaced in the one that registers. When a limit is raised in one process, the next admitted call of another
  narrows the row to the old policy again (292-301), and it stays narrow until the next registration; an overlapped or
  failed registration (137-155) may leave it wider or narrower. `BudgetIsSafest` therefore promises that the budget is
  never wider than the safest, and that it is the safest unless such a call was admitted since the last registration;
  it names registrations that failed or overlapped.
* The relay's stored answer is returned for ever for the same operation id, a 503 included; the agent writes its ledger
  within the `try` of the call; a request outside the agent's origin blocks those behind it.
* Backfill: `retryFailed` has no guard on the status, so a cancellation can be undone; `finish` counts and then
  concludes; the failure of a chunk (270) and its mark (153) are written by id without the lease; the check for one
  job at a time is outside the transaction although the comment at backfill.service.ts:32-33 says otherwise; the lease
  is not renewed during a round.
* native-query.service.ts:119: a published query is disabled before an edit "so its watermark cannot silently outlive
  its text". The status is read before the edit is written, so an edit can cross a publication (`raced`); the run
  validates the text again, which is why `OnlyBoundedReads` needs no such premise.
* inbound-webhook-queue.service.ts:114 and 219: an accepted delivery is processed, or waits for an operator. A query of
  the registry that fails outside the handler is swallowed (consumer-registry.service.ts:83-85), and the event is
  settled (event-outbox.service.ts:90-97); a recovery pass that loses the claim settles it, too, and a stop of the
  winner then leaves a delivery with neither event nor dead letter. `AcceptedIsAnswered` names both (`dropped`). An
  operator may replay or discard a letter while the delivery is handled (dead-letter.service.ts:128, 179-188).
* native-query-validator.ts:13-16 requires a scope on every branch. An empty `^NQ` part passes (277, 299) but reads every
  changed record. `EncodedStaysInScope` is about texts without one.

Mappings, items and their services:

* field-mapping.service.ts:94-97: publishing checks the target fields of *both* directions against the schema of the
  mapping's target. Two concurrent publications can leave two published versions, of which the highest is used
  (138-139). `A->B` and `B->A` may both be published with equal versions, and then the choice is arbitrary.
* `IntegrationStateChangePrepared` is recorded although the field mapping then holds the order back, and again after a
  crash; a retried order does not check the schema again; copied required fields are not among the fields recorded as
  written (1502-1505).
* Two handlers of one twin at once can write older fields over newer ones although the comment at
  twin-projection.service.ts:240 says a projection never goes back (`ProjectionIsCurrent` names the overlap). One
  handler can, too: the comparison (242) is of times, and `processRecord` takes new content at an equal time
  (connector.service.ts:1071), so the older of two events of one time, replayed, overwrites the newer
  (`ProjectionIsCurrent` names shared times: the projection is then of that time). A handler that finds its version
  stale ends without `linkCounterparts`; a stopped re-projection leaves twins on the old
  configuration.
* Two opposite `createPair` calls can deadlock on their nodes; PostgreSQL aborts one.
* Notifications: a failed notification is not retried on replay, since its row exists; `FlowWaitRiskCrossed` is routed
  like an escalation; a stop between telling and recording tells twice (the comment at 41-42 excludes it); two updates
  of the settings overwrite each other.
* Lineage: the export promises "the exact graph" (276-280); a link added during the walk may be in it or not.
* ServiceRegistry: concurrent registrations of one key lose aliases; a stop between the edge and its announcement
  leaves it untold; an alias of two services resolves to either.
* Definitions: `workflow_definitions` has no unique (type, version) (database.service.ts:121-127), so two publishers may
  draw one version. The first publication takes version 1, under which items of the built-in workflow live, and moves
  them to it, although README.md:1130 says items in flight keep theirs (`InFlightIsKept` names both).
* FlowClassification: whether an ask changes anything is judged on versions read before the transaction.

## 7. Proofs

`AuditChainProofs` proves, for every set of tenants, events, transactions and loaders and every number of attempts:

| Theorem | Statement |
| --- | --- |
| `TypeCorrect` | `Spec => []TypeOK` |
| `ChainAlwaysVerifies` | `Spec => []ChainVerifies`: the chain an auditor reads is complete and linked at every moment |
| `NoDuplicateEntry` | `Spec => []OneEntryPerEvent` |
| `ChainOnlyAppends` | `Spec => AppendOnly`: a step adds at the end of a tenant's chain or leaves it |

The assumptions are the ASSUMEs of `AuditChain`, which TLC evaluates in `audit_replicas`, and two facts of PostgreSQL
that are built into the actions: a sequence never returns a number twice, and a unique index holds across committed and
open transactions. The hash is injective by construction.

`ChainVerifies` speaks of committed rows only and is not inductive: whether a commit keeps it depends on rows that are
not committed yet. The inductive invariant `ChainInv` is therefore about all rows:

* `Numbered`: sequence numbers are unique, and a pending INSERT has one that no row has;
* `RowInv`: a row is in one place, an event has one row, every row is linked to its predecessor (`Linked`), every row
  but the newest has a successor linked to it (`Succeeded`), chains begin at GENESIS (`Rooted`), and the rows of an open
  transaction are a suffix of their chain (`Suffix`);
* `HeadKnown`: the head a writer has read is GENESIS or a row it still sees.

The central lemma is `InsertIsNewest`. If an INSERT is not refused, the row it links to has no successor, so by
`Succeeded` it is the newest of its tenant; by `HeadKnown` the number drawn is larger. Hence an INSERT appends, a
roll-back cuts off a suffix (`RollbackKeepsRows`), and a commit moves rows without changing the union
(`CommitKeepsRows`).

The second half of `AuditChainProofs` is the refinement, for the same constants:

| Theorem | Statement |
| --- | --- |
| `ChainImplementsLog` | `Spec => ImplementsLog`: under the mapping of `ChainHead`, a step appends to one log or changes none |

What a commit does to a log shows in the hash of the newest row, so `LogInv` says what follows for hashes from the links
of `ChainInv`: a hash covers events of its tenant, each once and each with a row (`Covered`), and extends the hashes of
all older rows of the tenant (`Extending`). Two further parts name the row `ChainHead` chooses (`Topped`) and say that a
transaction's rows are of one tenant (`OneTenant`), without which one commit would move two logs at once
(`StepAppends`).

`EventBackboneProofs` proves, for every number of publishers, operators, events, consumers, attempts and troubles:

| Theorem | Statement |
| --- | --- |
| `TypeCorrect` | `Spec => []TypeOK` |
| `ClaimsAreExclusive` | `OneReplica => (Spec => []OneCallerWins)` |
| `EffectsHappenOnce` | `OneReplica => (Spec => []EffectOnce)` |
| `LossesAreIsolated` | `OneReplica => (Spec => []LossIsIsolated)` |

`OneReplica` says that there is one process. It is needed: with two, the run `events_replicas` shows the claim broken.
With one, a start finds no live task, so what it re-opens (`Reclaimed`) nobody is working on. The invariant relates the
row of a claim to the task that holds it, the place of each task in the list of consumers to the rows of those it has
passed, and the number of lost deliveries to the failed queries, by an injection.

`WorkOrderQueueProofs` proves, for every set of workers, orders, twins and edits and every budget of troubles:

| Theorem | Statement |
| --- | --- |
| `TypeCorrect`, `QueueCorrect` | `Spec => []TypeOK`, `Spec => []QueueInv` |
| `TwinsAreGuarded` | `Spec => []TwinIsGuarded`: one writer per twin, and a paused twin has a parked order |
| `ConcludedStays` | `Spec => ConcludedIsFinal` |
| `DeadOrdersEarnedIt` | `Spec => []DeadIsEarned` |

No premise is added to the ASSUMEs. `TwinIsGuarded` speaks of what workers execute, and is not inductive: `QueueInv` adds
that positions are drawn once, that an owner stands in claimed rows only, that an order a worker has found at the head
of its queue can be preceded by edits only, whose rows appear late (`Heads`), and that until a worker has stalled whoever
executes an order owns its claim (`Grip`). `Accounts` balances the attempts of an order with the calls that were not
shed. Every step is of one of ten kinds (`StepKinds`), so each part of the invariant is shown once per kind.

The second part of the module is the refinement, for the same constants but without operator edits:

| Theorem | Statement |
| --- | --- |
| `QueueIsFifo` | `Edits = {} => (Spec /\ []Unstalled => ImplementsFifo)`: the queue implements `TwinFifo` |

Both premises are needed: an edit takes its position before its row is visible (section 6), and a worker that stalled
past its claim writes an order that another has finished. `Unstalled` restricts behaviours and not the budget, so the
theorem speaks of all that happens before the first stall, too. The abstract queue is the sorted set of a twin's
unfinished orders; sorting is by rank, so the proof needs lemmas and no induction: appending an order with a number
larger than all others appends to the sorted sequence (`Grows`), taking its first member away leaves the tail
(`Shrinks`). Every kind of step keeps the queues, lets one order enter or one head leave (`Shapes`).

`IntakeQueueProofs` proves, for every number of calls, records, changes and troubles and every grain of the provider's
clock:

| Theorem | Statement |
| --- | --- |
| `TypeCorrect` | `Spec => []TypeOK` |
| `NoChangeIsLost` | `Spec => []NoChangeLost`: a change behind the watermark has an entry |
| `SyncsAreExclusive` | `SyncsOnly => (Spec => []OneAtATime)` |
| `MirrorsAdvance` | `SyncsOnly => (Spec => NothingGoesBack)` |
| `PausesAreExplained` | `SyncsOnly /\ NoReinjection => (Spec => []PauseIsExplained)` |

`SyncsOnly` says that the queue is drained by synchronizations. A drain on its own holds the lease without a heartbeat
(section 6), so nothing keeps a second call away once it takes longer than the lease. `NoReinjection` is what
`intake_stuck` refutes the property without. `GeneralInv` needs no premise: a call about to accept a page knows of every
change that is not in it and has no entry that it is not older than the page (`PagesRead`), so the watermark the page
sets cannot pass it. `SyncInv` holds until a process stalls: a working call holds the lease, the entry in its hand is
claimed or re-opened by a start, and the version it compared is still the twin's. `PausesEarned` says which row explains
a pause.

`CommentDeliveryProofs` proves, for every finite set of records linked in any way, any readers, drains, page and batch
sizes, policies and budgets of troubles:

| Theorem | Statement |
| --- | --- |
| `TypeCorrect` | `Spec => []TypeOK` |
| `OneCopyEach` | `Spec => []OneCopy`: no duplicate and no echo |
| `StatusHonest` | `Spec => []StatusIsHonest` |

Only the finiteness of the set of records is assumed beyond typing: the rows a planning inserts are put in some order,
and only a finite set has one. `Structure` says that items are planned deliveries and that a comment no user wrote is
the copy of a delivery to that record (`Threads`); hence what a reader does not take for an echo was written by a user.
`CallsOf` says, of each delivery, that until it is late the worker at it owns it (`Held`), that a push follows a search
that saw every comment and no copy (`Unwritten`), so that a copy is the first (`Single`), and that the count of attempts
covers every worker that has written or still may (`Spent`): a shed call gives its attempt back, and the count must not
reach zero under a copy another worker has written. `Least` shows that a worker with something to do is at one of its
items. The prover knows nothing of `SelectSeq`, and the model needs no sequence there: a worker keeps the places of its
items, not a list.

`WatermarkPagingProofs` proves, for every finite table, page size and window and every number of edits:

| Theorem | Statement |
| --- | --- |
| `WindowsAreRead` | `Spec => []WindowIsRead`: a backfill window is read in full |

The rows a request answers are given by ranks, that is by cardinalities, and the library's induction over finite sets
cannot be used. `Ranks` shows instead that the rank is an injection into as many numbers as there are rows, so every
rank is taken; hence a short page ends the table (`Requests`). `Reading` says that rows before the time of the token,
and rows of a rank below its offset, are known, and that the latter are behind the reader. `Edits` is why one row edited
ahead of the reader does no harm: its old place is above the offset, and at its new place it is a new version. Which
offset is carried from page to page matters in one direction only, to skip too little costs requests, and
`ReaderAdvances`, which says that it ends, stays with TLC.

`ConnectorRelayProofs` proves, for any operations, agents, foreign targets and troubles:

| Theorem | Statement |
| --- | --- |
| `TypeCorrect` | `Spec => []TypeOK` |
| `CalledOnceAndInTurn` | `Spec => []CalledOnce`: no repeated call, no overtaking, durable answers |
| `AnswersStay` | `Spec => OneAnswer` |

Assumed is only that no operation or agent has the name that stands for none, and that the troubles that may happen are
among the six. Every step is first shown to be one of a few moves of the rows, of the line and of an agent, and the
invariants are proved move by move. `LineInv`: what a request found in the queue stands before it, so the head of the
line has found nothing unfinished (`HeadIsCleared`); as completed rows stay completed, this still holds when the agent
that polled it calls the provider, however many leases have run out in between (`ServedInv`). `LedgerInv`: a call is
under way only while the ledger has no entry, so beyond the answers that were lost an agent has called at most once; an
entry is written once, so a completed request's answer stays on disk. The run `transport` checks the same properties
for two operations and two agents.

`TransportProofs` proves what the run `transport` checks, for any processes, calls, limits, jobs, ranges, workers, texts,
fields, deliveries, connectors, callers and troubles:

| Theorem | Statement |
| --- | --- |
| `EveryRowIsTyped` | `TransportSpec => []MemoryIsTyped` |
| `AdmissionIsFair` | `TransportSpec => []GateIsFair`: the gate's bound, no forgotten waiter, one probe, a budget not wider than the safest |
| `RelayCallsOnce` | `TransportSpec => []CalledOnce` |
| `WhatIsAskedIsKept` | `TransportSpec => []NothingIsLost`: exact backfills, no change skipped, deliveries answered and their results true, kept settings |
| `ReadsStayInScope` | `TransportSpec => []ReadsAreBounded`: only validated texts run, and those read inside their scope |
| `WhatIsSettledStays` | `TransportSpec => SettledStays` |

`Transport` extends `ConnectorRelay` and instantiates the other six machines. They share no variable, so a behaviour of
`Transport` is a behaviour of each (`Governs`, `Relays`, `Backfills`, ...: a step of one machine leaves the variables of
the others), and each theorem above follows from an inductive invariant per machine:

* `GovernorInv`: the slots taken are the calls that are open, the waiters are the calls that queue, a slot that is
  handed to a woken call is counted until a newcomer steals it; probes carry the epoch of the row they began in, and the
  streak is of the last answers. The claim about the gate excepts the processes in which a newcomer overtook a
  woken waiter (`stolen`, rate-governor.ts:226-233), nothing else. The quota of the row is at most the registered one,
  whatever the processes have cached.
* `ConnectorInv`: what a caller read relates to what was stored since (`Readings`): a configuration in the hand of a
  caller is the stored one but for the section the caller changes. Unless a registration failed or was overlapped, a
  registration under way is alone and has read what is stored; without one, and with no process starting, the budget is
  at most what the connectors ask for (`BudgetFollows`), since an admission only narrows it, and below it only after a
  call with a smaller limit. That a minimum exists is the well-foundedness of `<`.
* `QueryInv`: the owner of the lease works with the watermark of the row (`QueryLease`), and the page of a run that is
  about to commit contains all that was found up to its last record (`PagesEnd`). Changes that arrive meanwhile are
  younger than every record of a page.
* `ScopeInv`: a tree that vouches for its scope matches only records in it. Texts are built one predicate at a time, so
  this is an invariant and needs no induction over trees; the encoded dialect is argued over its list of terms.
* `WebhookInv`: once an event is claimed or settled, its own task is between claim and outcome, or its delivery is
  completed, has a dead letter or is one of `dropped` (`Redeemed`). The tasks in the line are those whose handler was
  called, each once, and the handler works for the head of it (`AtHead`); what a row says was applied is what the
  consumer moved for that delivery (`Recorded`).
* `BackfillInv`: the plan covers the range without overlap (`PlanCovers`, `PlanSeparates`, from the arithmetic of
  quotients and without induction), a chunk's token counts the pages whose records are queued, and what a worker holds of
  a chunk is what its row says, except in the jobs one of whose chunks was written to by a worker that had lost its lease
  (`stray`). A record's page
  is its rank in the chunk's window.

The assumptions are the named ASSUMEs of `Transport`, which TLC evaluates in the run: the sets of calls and of times are
finite, limits and times are numbers, `Retries`, `Pressures`, `Minute` and `MaxConcurrency` are positive, and the names
that stand for nobody are not names of anybody.

Only model-checked: the machines of `MCPlatform` but for the event backbone, which `EventBackboneProofs` proves about on
its own, and all liveness. Liveness under fairness and ENABLED are out of the prover's reach and stay with TLC.

## 8. Not modelled

`PROJECT.json` lists every part with the reason. Three kinds:

* read models and pure functions without a protocol: flow metrics, flow risk, cost of delay, the 5x8 calendar of the
  SLA clock (the model's calendar is 24x7), `getLineageGraph` (two walks of `Lineage` merged), the WIQL of one adapter;
* parts without state of their own or with single statements: authentication, roles, secrets, health, workspaces,
  deployment events, request building and response parsing of the adapters, start-up wiring, scripts;
* the provider and script sandboxes, which stand in for external products in tests.

Within the modelled parts, the data of records, fields and states is abstracted: what matters is which version, order
or event a row belongs to. Time is abstracted everywhere but in `WorkItem` and `Backfill`: a backoff may end, and an
unrenewed claim may expire, at any moment. The cap of 500 deliveries per drain is left out: the next drain goes on.

Hazards known and covered by no property:

* audit-integrity.ts:107: the retry of a lost race runs in an aborted transaction (modelled, see section 6);
* consumer-registry.service.ts:140: a redelivery between `markFailed` and `deadLetter` processes the event, which is
  dead-lettered all the same;
* dead-letter.service.ts:151: a discard while a replay of the entry is under way;
* connector.service.ts:2507: a queue position is drawn before its row is visible.

Details left out of modelled parts, none of which a checked property depends on unless it is said:

* WorkOrderQueue: an error after the completion was committed (its answer is lost, connector.service.ts:2997-3006, or
  the update of the outbox fails, 1850-1893) leads to the catch, which pauses the twin without looking at the claim
  (1927-1932) although the order is executed. `TwinIsGuarded` holds because such errors are left out.
* Backfill: the transaction that commits a page is one step, although the check of the lease takes no lock
  (backfill-runner.service.ts:205-229); a takeover between its statements is left out.
* QueryScope: whether a term selects depends on its field; in the code on its operator and value, too
  (native-query-validator.ts:306-307).
* Lineage: walks without the filter of link types, links in the order of their creation.
* RateGovernor: the limit of open calls and the number of pressures until shedding are constants; the policy a process
  has cached is one per run.
* `platform`: the aging tick of `WorkItem` is one process's, and the consumers of an event follow each other.
* Replays: the payload an operator may correct before a replay (dead-letter.service.ts:140-150) is the accepted one.
* InboundWebhook: one process serves; of the others there are recovery passes (`Overtake`).
* EventBackbone: a recovery whose SELECT fails ends the start of its process, which is a crash.

What a property excepts, it does not check. Where a hazard of `PROJECT.json` is covered by a property only in part, its
note says which part the exceptions leave out.

## 9. Running

In this directory:

```
tlc -workers 2 -config WorkOrderQueue_contention.cfg MCWorkOrderQueue.tla
tlapm AuditChainProofs.tla
```

`PROJECT.json` gives the module of every configuration, and the mutation of a definition by which each property is
known to be violated.
