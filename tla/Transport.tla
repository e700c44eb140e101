----------------------------- MODULE Transport -----------------------------
(***************************************************************************)
(* The machines between Cadena and a provider: the connectors' rows, the   *)
(* admission of calls, the relay, backfills and scheduled queries with the *)
(* texts those may hold, and inbound webhooks.  They share no variable and *)
(* a behaviour is one of a single machine, while the others rest.  The     *)
(* relay is the one whose names are used as they are, the others are       *)
(* instances.                                                              *)
(***************************************************************************)
EXTENDS ConnectorRelay, FiniteSets

CONSTANTS Processes, Calls, Home, Limit, Quota, Registered, Pressures, Strains,
          Workers, Jobs, Times, Ranges, Minute, MaxChunks, MaxConcurrency,
          MaxAttempts, Successes, Misfortunes,
          Users, Runners, Texts, Bounded, Matches, Records, MaxChanges, Visits,
          Fields, MaxLeaves, MaxTerms,
          Deliveries, Operators, Stories, Mentions, Retries, Crises,
          Connectors, Callers, Hosts, Host, Limits, Default, MaxCalls

VARIABLES machine,
          gate, row, call, recent, stolen, pressure,
          job, chunk, record, worker, op, stray, misfortune,
          changes, query, user, run, queue, from, raced, visits,
          language, jql, terms,
          delivery, event, consumption, letter, task, line, hand, story, links, moved,
          troubled, dropped, trouble,
          connector, budgeted, policies, starting, update, updates, meant, slips

G == INSTANCE RateGovernor WITH budget <- pressure, Budgets <- Strains
B == INSTANCE Backfill WITH budget <- misfortune, Budgets <- Misfortunes
N == INSTANCE NativeQuery WITH budget <- visits, Budgets <- Visits
S == INSTANCE QueryScope
I == INSTANCE InboundWebhook WITH
       worker <- hand, item <- story, Items <- Stories, MaxAttempts <- Retries, Budgets <- Crises
C == INSTANCE ConnectorLifecycle WITH
       row <- connector, call <- update, calls <- updates, mishaps <- slips

(* Calls belong to one process each, and their policy is a policy.         *)
ASSUME CallsAssumption == IsFiniteSet(Calls) /\ G!None \notin Calls /\ Home \in [Calls -> Processes]
ASSUME PolicyAssumption == /\ Limit \in Nat /\ Pressures \in Nat \ {0}
                           /\ Quota \in [Processes -> Nat \ {0}] /\ Registered \in Nat \ {0}
ASSUME StrainsAssumption == Strains \subseteq [G!Troubles -> Nat]
(* Times are numbers, a range is asked for in chunks of some length, and   *)
(* nobody is no job and no worker.                                         *)
ASSUME TimesAssumption == Times \subseteq Nat /\ IsFiniteSet(Times)
ASSUME PlanAssumption == /\ Minute \in Nat \ {0} /\ MaxConcurrency \in Nat \ {0}
                         /\ Ranges \subseteq Nat \X Nat \X (Nat \ {0})
ASSUME NobodyAssumption == B!Nobody \notin Jobs \cup Workers
(* What stands for no text and no run is none.                             *)
ASSUME QueryAssumption == N!NoText \notin Texts /\ N!Nobody \notin Runners /\ Bounded \subseteq Texts
ASSUME ScopeAssumption == \A f \in Fields : f.scope \in BOOLEAN
ASSUME MentionsAssumption == /\ Mentions \in [Deliveries -> SUBSET Stories] /\ Retries \in Nat \ {0}
                             /\ Deliveries \cap Operators = {}
(* A budget is at least one, and a caller is in one process.               *)
ASSUME LimitsAssumption == /\ Limits \subseteq Nat \ {0} /\ Default \in Limits /\ MaxCalls \in Nat
                           /\ Host \in [Callers -> Hosts]

governorVars == <<gate, row, call, recent, stolen, pressure>>
relayVars == <<rows, caller, agents, budget>>
backfillVars == <<job, chunk, record, worker, op, stray, misfortune>>
queryVars == <<changes, query, user, run, queue, from, raced, visits>>
scopeVars == <<language, jql, terms>>
webhookVars == <<delivery, event, consumption, letter, task, line, hand, story, links, moved,
                 troubled, dropped, trouble>>
connectorVars == <<connector, budgeted, policies, starting, update, updates, meant, slips>>
calling == <<governorVars, relayVars, connectorVars>>
reading == <<backfillVars, queryVars, scopeVars, webhookVars>>
transportVars == <<machine, calling, reading>>

(* A machine that rests does so in one of its initial states.              *)
AtRest(states) == CHOOSE state \in states : TRUE

TransportInit ==
  /\ G!Init /\ Init /\ B!Init /\ N!Init /\ S!Init /\ I!Init /\ C!Init
  /\ machine \in {"governor", "relay", "backfill", "query", "scope", "webhook", "connector"}
  /\ machine = "governor" \/ pressure = AtRest(Strains)
  /\ machine = "relay" \/ budget = AtRest(Budgets)
  /\ machine = "backfill" \/ misfortune = AtRest(Misfortunes)
  /\ machine = "query" \/ (query = N!Draft(AtRest(Texts)) /\ visits = AtRest(Visits))
  /\ machine = "scope" \/ (language = "encoded" /\ terms[1].join = "and" /\ terms[1].positive
                                                /\ terms[1].field = AtRest(Fields))
  /\ machine = "webhook" \/ (trouble = AtRest(Crises) /\ story = [i \in Stories |-> "Planned"])
Governor == machine = "governor" /\ G!Next /\ UNCHANGED <<machine, relayVars, connectorVars, reading>>
Relay == machine = "relay" /\ Next /\ UNCHANGED <<machine, governorVars, connectorVars, reading>>
Backfill == machine = "backfill" /\ B!Next /\ UNCHANGED <<machine, calling, queryVars, scopeVars, webhookVars>>
Query == machine = "query" /\ N!Next /\ UNCHANGED <<machine, calling, backfillVars, scopeVars, webhookVars>>
Scope == machine = "scope" /\ S!Next /\ UNCHANGED <<machine, calling, backfillVars, queryVars, webhookVars>>
Webhook == machine = "webhook" /\ I!Next /\ UNCHANGED <<machine, calling, backfillVars, queryVars, scopeVars>>
Connector == machine = "connector" /\ C!Next /\ UNCHANGED <<machine, governorVars, relayVars, reading>>
TransportNext == Governor \/ Relay \/ Backfill \/ Query \/ Scope \/ Webhook \/ Connector
TransportSpec == TransportInit /\ [][TransportNext]_transportVars

-----------------------------------------------------------------------------
(* The rows and the memory of every machine hold values of their types.    *)
MemoryIsTyped == /\ machine = "governor" => G!TypeOK
                 /\ machine = "relay" => TypeOK
                 /\ machine = "backfill" => B!TypeOK
                 /\ machine = "query" => N!TypeOK
                 /\ machine = "webhook" => I!TypeOK
                 /\ machine = "connector" => C!TypeOK

(* Admission, as stated in RateGovernor: the gate bounds the open calls    *)
(* (rate-governor.ts:221) and forgets no waiter (231), and one call probes *)
(* at a time (264).  The budget of a target that nobody registers, and     *)
(* whose last registration neither failed nor was overlapped, is not wider *)
(* than the safest its connectors ask for, and is that one unless a call   *)
(* under an older policy narrowed it, as stated in ConnectorLifecycle      *)
(* (rate-governor.ts:125, 294).                                            *)
GateIsFair == /\ machine = "governor" => G!GateBoundsCalls /\ G!NoForgottenWaiter /\ G!OneProbe
              /\ machine = "connector" => C!BudgetIsSafest

(* What is settled stays settled: the one answer of an operation           *)
(* (ConnectorRelay, connector-relay.service.ts:277), the watermark of an   *)
(* accepted run (NativeQuery, native-query.service.ts:331), and a pause    *)
(* until it is ended by whoever may (ConnectorLifecycle,                   *)
(* connector.service.ts:282).  Shedding begins only after consecutive      *)
(* pressure, and only a fresh probe ends it (RateGovernor,                 *)
(* rate-governor.ts:376, 332).                                             *)
SettledStays == /\ OneAnswer /\ N!MarkNeverMovesBack /\ C!PauseIsKept
                /\ G!OpensUnderPressure /\ G!ClosedByFreshProbe

(* What was asked for is not lost.  A completed backfill has queued every  *)
(* record of its range, and a record once unless its chunk was fetched     *)
(* again (Backfill, backfill-runner.service.ts:200); a scheduled query has *)
(* queued every change its text matched up to its watermark (NativeQuery,  *)
(* native-query.service.ts:324); a webhook is answered, by what happened,  *)
(* unless a failing query of the registry was swallowed or a stop met an   *)
(* event already settled (InboundWebhook, inbound-webhook-queue.service.   *)
(* ts:215, consumer-registry.service.ts:83); a setting stays as it was     *)
(* last given (ConnectorLifecycle, connector.service.ts:402).              *)
NothingIsLost == /\ machine = "backfill" => B!BackfillIsExact
                 /\ machine = "query" => N!NothingSkipped
                 /\ machine = "webhook" => I!AcceptedIsAnswered /\ I!ResultIsHonest
                 /\ machine = "connector" => C!SettingsAreKept

(* A run reads only with a text that passed validation                     *)
(* (native-query.service.ts:297), and such a text names a slice of the     *)
(* source on every branch (native-query-validator.ts:13), as stated in     *)
(* NativeQuery and QueryScope.                                             *)
ReadsAreBounded == /\ machine = "query" => N!OnlyBoundedReads
                   /\ machine = "scope" => S!JqlStaysInScope /\ S!EncodedStaysInScope
=============================================================================
