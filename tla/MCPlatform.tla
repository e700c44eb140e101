----------------------------- MODULE MCPlatform -----------------------------
(* The machines behind the connectors: event delivery to two consumers,    *)
(* translation, the echo guard, monitoring alerts, work items and their links, projected twins,         *)
(* correlated records, notifications, the catalogue of services, workflow  *)
(* definitions and the lens of the flow reports.  A behaviour is one of a  *)
(* single machine; the others rest in an initial state.                    *)
EXTENDS Naturals, Sequences, FiniteSets, TLC
CONSTANTS d1, d2, d3, d4, i1, i2, q1, q2, m1, m2, w1, w2, x1

VARIABLES machine,
          feed, receipt, ordered, handler, snapshot, markers, write, unguarded, mishaps,
          handled, artifact, incident, evidence, edges, hand, counted, faults, moves,
          now, item, request, tick, claimed, announced, log, spent, kept, races, served,
          defn, manager, schema, order, budget,
          crew, twin, config, projected, paired, bonds, queue, stuck, again, run, shifts, overlaps, cut, woes,
          node, ties, lock, pair, walk, pairs,
          setting, preference, target, admin, notifier, note, escalated, sent, torn, given, overlap, changes, troubles,
          chain, report, exported,
          service, catalog, caller, told, asked, owned, refused, crossed, visits,
          published, publisher, flight, drawn,
          entries, save,
          outbox, created, consumption, deadLetters, up, task, todo, pass, heard, orphans, crashes, failures, replays

-----------------------------------------------------------------------------
(* The instances.                                                          *)
Alert(kind, rank, at) == [kind |-> kind, rank |-> rank, at |-> at]
Alerts == (d1 :> Alert("fired", 1, 1)) @@ (d2 :> Alert("fired", 2, 2))
            @@ (d3 :> Alert("resolved", 1, 3)) @@ (d4 :> Alert("fired", 0, 4))
Sent == {d1, d2, d3, d4}
Phases == {"Triaged", "Investigating", "Mitigated", "Resolved"}
Short == {<<"Triaged", "Resolved">>, <<"Resolved", "Mitigated">>, <<"Triaged", "Investigating">>}
Long == {<<"Triaged", "Investigating">>, <<"Investigating", "Mitigated">>, <<"Mitigated", "Resolved">>,
         <<"Resolved", "Investigating">>, <<"Triaged", "Resolved">>, <<"Resolved", "Mitigated">>}
Workflows == {Short, Long}
Barred == {<<"Mitigated", "Resolved">>}

Edges == {<<"work", "hold">>, <<"hold", "work">>, <<"work", "done">>, <<"done", "work">>}
Demands == {<<"work", "done">>}
Due == [kind \in {"breach"} |-> 1]

StateRule(d, f, t, r, a) == [direction |-> d, from |-> f, to |-> t, required |-> r, allowed |-> a]
FieldRule(d, f, t, b) == [direction |-> d, from |-> f, to |-> t, by |-> b]
Key(k, p, v) == [kind |-> k, pair |-> p, version |-> v]
Drafts ==
  Key("state", "AB", 1) :> {StateRule("source_to_target", "open", "closed", {"p"}, {})}
  @@ Key("state", "AB", 2) :> {StateRule("source_to_target", "open", "closed", {"q"}, {"open"}),
                               StateRule("target_to_source", "open", "closed", {"p", "q"}, {})}
  @@ Key("field", "BA", 1) :> <<FieldRule("target_to_source", "p", "q", "table"),
                                FieldRule("target_to_source", "p", "p", "constant")>>
Content == q1 :> ("p" :> "known" @@ "q" :> "none")
Way == q1 :> "AB"
Schemas == {{"p"}, {"p", "q"}}
Budgets == {{"abandon"}, {"discover"}, {"interrupt"}}

Twins == {d1, d2}
Versions == (d1 :> 3) @@ (d2 :> 1)
Crew(ws, n) == [workers |-> ws, times |-> <<1, 2, 2>>, troubles |-> n]
Crews == {Crew({q1}, 1), Crew({q1, q2}, 0)}
FirstCrew == Crew({q1}, 1)
Pair(s, t, r) == [source |-> s, target |-> t, relationship |-> r]
Pairs == {Pair(d1, d2, "counterpart"), Pair(d2, d1, "counterpart"), Pair(d3, d2, "duplicate")}
Link(s, t, r) == [source |-> s, target |-> t, type |-> r]
Links == {Link(d1, d2, "child_of"), Link(d2, d3, "caused_by"), Link(d3, d1, "affects"), Link(d4, d3, "affects")}
To(f, t, r) == [from |-> f, to |-> t, roles |-> r]
Plan(s, ts) == [states |-> s, initial |-> "new", terminal |-> {"done"}, transitions |-> ts]
BuiltIn == Plan({"new", "plan", "done"}, {To("new", "plan", {}), To("plan", "done", {})})
Straight == Plan({"new", "done"}, {To("new", "done", {})})
Review == Plan({"new", "review", "done"}, {To("new", "review", {}), To("review", "new", {}), To("review", "done", {"lead"})})
Trap == Plan({"new", "review", "done"}, {To("new", "review", {}), To("new", "done", {})})
Island == Plan({"new", "review", "done"}, {To("new", "done", {}), To("review", "done", {})})
Entry(b, r) == [bucket |-> b, reason |-> r]
ItemType == (d1 :> "story") @@ (d2 :> "story") @@ (d3 :> "incident") @@ (d4 :> "release")

S == INSTANCE SyncGuard WITH Contents <- {"a", "b"}, MaxChanges <- 3, MaxMishaps <- 1
M == INSTANCE Monitoring WITH
       Deliveries <- Sent, Window <- 2, Threshold <- 1, States <- Phases, MaxFaults <- 1, MaxMoves <- 2
W == INSTANCE WorkItem WITH
       States <- {"work", "hold", "done"}, Initial <- "work", Timed <- {"work", "hold"}, Holds <- {"hold"},
       Origins <- {"local", "connector"}, Requests <- {q1, q2}, Kinds <- {"breach"},
       MaxTime <- 2, MaxRequests <- 2
T == INSTANCE Translation WITH
       Orders <- {q1}, Managers <- {m1, m2}, Fields <- {"p", "q"}, States <- {"open", "closed"}
P == INSTANCE TwinProjection WITH
       item <- projected, links <- bonds, moves <- shifts, troubled <- woes,
       Status <- <<"open", "done", "open">>, Configs <- {"on", "mapped", "teamless"}
O == INSTANCE Correlation WITH
       links <- ties, Nodes <- {d1, d2, d3}, Names <- {"key"}, Callers <- {w1, w2}, Asks <- Pairs,
       MaxDepth <- 2, MaxCalls <- 2
N == INSTANCE Notifications WITH
       handler <- notifier, People <- {d1, d2}, Events <- {i1, i2},
       Kind <- (i1 :> "SLAEscalated") @@ (i2 :> "SLABreached"), Owner <- (i1 :> d1) @@ (i2 :> "none"),
       Holder <- ("on_call" :> "none") @@ ("team_lead" :> d2), Reachable <- {d1}, Admins <- {w1, w2},
       Changes <- 2, Troubles <- 1
L == INSTANCE Lineage WITH
       links <- chain, walk <- report, Items <- {d1, d2, d3, d4}, Asks <- Links, Affected <- {d1, d3},
       MaxDepth <- 2, MaxLinks <- 3
R == INSTANCE ServiceRegistry WITH
       edges <- catalog, call <- caller, overlap <- crossed, calls <- visits,
       Keys <- {d1, d2}, Labels <- {"host"}, Teams <- {x1}, Items <- {i1}, Callers <- {w1, w2}, MaxCalls <- 3
D == INSTANCE Definitions WITH
       rows <- published, item <- flight, Drafts <- {Straight, Review, Trap, Island}, Roles <- {"lead", "member"},
       Publishers <- {w1, w2}, Items <- {i1}, MaxRows <- 3
F == INSTANCE FlowClassification WITH
       rows <- entries, States <- {"s1"}, People <- {w1, w2}, MaxRows <- 2,
       Asks <- {Entry("active", "omitted"), Entry("waiting", "vendor"), Entry("unclassified", "null")}
E == INSTANCE EventBackbone WITH
       handled <- heard, faults <- failures,
       Replicas <- {x1}, Publishers <- {q1}, Operators <- {m1}, Events <- {i1}, Consumers <- <<d1, d2>>,
       MaxAttempts <- 1, RecoveryPasses <- 1, RecoveryLimit <- 2,
       MaxCrashes <- 1, MaxFaults <- 1, MaxReplays <- 1, MaxTrouble <- 2

Symmetry == Permutations({w1, w2})   \* concurrent callers

guardVars == <<feed, receipt, ordered, handler, snapshot, markers, write, unguarded, mishaps>>
alertVars == <<handled, artifact, incident, evidence, edges, hand, counted, faults, moves>>
workVars == <<now, item, request, tick, claimed, announced, log, spent, kept, races, served>>
mappingVars == <<defn, manager, schema, order, budget>>
twinVars == <<crew, twin, config, projected, paired, bonds, queue, stuck, again, run, shifts, overlaps, cut, woes>>
pairVars == <<node, ties, lock, pair, walk, pairs>>
noteVars == <<setting, preference, target, admin, notifier, note, escalated, sent, torn, given, overlap, changes, troubles>>
lineageVars == <<chain, report, exported>>
serviceVars == <<service, catalog, caller, told, asked, owned, refused, crossed, visits>>
workflowVars == <<published, publisher, flight, drawn>>
lensVars == <<entries, save>>
eventVars == <<outbox, created, consumption, deadLetters, up, task, todo, pass, heard, orphans, crashes,
               failures, replays>>
vars == <<machine, guardVars, alertVars, workVars, mappingVars,
          twinVars, pairVars, noteVars, lineageVars, serviceVars, workflowVars, lensVars, eventVars>>

Init == /\ S!Init /\ M!Init /\ W!Init /\ T!Init
        /\ P!Init /\ O!Init /\ N!Init /\ L!Init /\ R!Init /\ D!Init /\ F!Init /\ E!Init
        /\ machine \in {"guard", "alert", "work", "mapping", "twin", "pair", "note", "lineage", "service",
                       "workflow", "lens", "event"}
        /\ machine = "alert" \/ edges = Short
        /\ machine = "work" \/ item.origin = "local"
        /\ machine = "mapping" \/ budget = {"abandon"}
        /\ machine = "twin" \/ (crew = FirstCrew /\ config = "on")
early == <<guardVars, alertVars, workVars>>
middle == <<mappingVars, twinVars, pairVars>>
last == <<workflowVars, lensVars, eventVars>>
late == <<noteVars, lineageVars, serviceVars, last>>
Guard == machine = "guard" /\ S!Next /\ UNCHANGED <<machine, alertVars, workVars, middle, late>>
Alerting == machine = "alert" /\ M!Next /\ UNCHANGED <<machine, guardVars, workVars, middle, late>>
Work == machine = "work" /\ W!Next /\ UNCHANGED <<machine, guardVars, alertVars, middle, late>>
Mapping == machine = "mapping" /\ T!Next /\ UNCHANGED <<machine, early, twinVars, pairVars, late>>
Projecting == machine = "twin" /\ P!Next /\ UNCHANGED <<machine, early, mappingVars, pairVars, late>>
Pairing == machine = "pair" /\ O!Next /\ UNCHANGED <<machine, early, mappingVars, twinVars, late>>
Notifying == machine = "note" /\ N!Next /\ UNCHANGED <<machine, early, middle, lineageVars, serviceVars, last>>
Reporting == machine = "lineage" /\ L!Next /\ UNCHANGED <<machine, early, middle, noteVars, serviceVars, last>>
Registering == machine = "service" /\ R!Next /\ UNCHANGED <<machine, early, middle, noteVars, lineageVars, last>>
Defining == machine = "workflow" /\ D!Next /\ UNCHANGED <<machine, early, middle, noteVars, lineageVars, serviceVars, lensVars, eventVars>>
Classifying == machine = "lens" /\ F!Next /\ UNCHANGED <<machine, early, middle, noteVars, lineageVars, serviceVars, workflowVars, eventVars>>
Delivering == machine = "event" /\ E!Next /\ UNCHANGED <<machine, early, middle, noteVars, lineageVars, serviceVars, workflowVars, lensVars>>
Next == \/ Guard \/ Alerting \/ Work \/ Mapping \/ Projecting
        \/ Pairing \/ Notifying \/ Reporting \/ Registering \/ Defining \/ Classifying
        \/ Delivering
Spec == Init /\ [][Next]_vars

-----------------------------------------------------------------------------
(* The rows and the memory of the machine at work hold values of their     *)
(* types; the others have not moved.                                       *)
TypeOK == /\ machine = "guard" => S!TypeOK
          /\ machine = "alert" => M!TypeOK
          /\ machine = "work" => W!TypeOK
          /\ machine = "mapping" => T!TypeOK
          /\ machine = "twin" => P!TypeOK
          /\ machine = "pair" => O!TypeOK
          /\ machine = "note" => N!TypeOK
          /\ machine = "lineage" => L!TypeOK
          /\ machine = "service" => R!TypeOK
          /\ machine = "workflow" => D!TypeOK
          /\ machine = "lens" => F!TypeOK
          /\ machine = "event" => E!TypeOK

(* What was given is not lost: a person's change is carried on (SyncGuard, *)
(* connector.service.ts:1443), a setting stays as it was last given        *)
(* (Notifications, notification.service.ts:104), so does what a service    *)
(* was registered with (ServiceRegistry, service-registry.service.ts:40),  *)
(* an item in flight keeps its workflow (Definitions,                      *)
(* workflow.service.ts:257), and a fault costs one consumer one delivery   *)
(* (EventBackbone, event-bus.service.ts:123).                              *)
NothingIsLost == /\ machine = "guard" => S!ChangeIsKept
                 /\ machine = "note" => N!SettingsAreKept
                 /\ machine = "service" => R!CatalogueIsKept
                 /\ machine = "workflow" => D!InFlightIsKept
                 /\ machine = "event" => E!LossIsIsolated

(* What was done is not done again: a write does not come back as a change *)
(* (SyncGuard, sync-guard.service.ts:22), an alert has one open incident   *)
(* (Monitoring, monitoring.service.ts:698), an announcement of aging is    *)
(* made once (WorkItem, aging-engine.service.ts:33) and so is that of an   *)
(* edge (ServiceRegistry, service-registry.service.ts:193), a person is    *)
(* told of an event once (Notifications, notification.service.ts:266), and *)
(* two records are counterparts by one link (Correlation,                  *)
(* correlation.service.ts:302).                                            *)
NothingIsRepeated == /\ machine = "guard" => S!EchoStaysHome
                     /\ machine = "alert" => M!OneOpenIncident
                     /\ machine = "work" => W!AnnouncedOnce
                     /\ machine = "pair" => O!OneCounterpart
                     /\ machine = "note" => N!ToldOnce
                     /\ machine = "service" => R!EdgeToldOnce

(* What the rows say is what happened: the alerts of an artifact           *)
(* (Monitoring, monitoring.service.ts:751), the path and the clock of a    *)
(* work item (WorkItem, workflow.service.ts:451, 502), the fields a change *)
(* of state was written with (Translation, connector.service.ts:1722), the *)
(* item a twin is projected to, its history and its link (TwinProjection,  *)
(* twin-projection.service.ts:143), the notification of a person           *)
(* (Notifications, notification.service.ts:340) and the versions of a      *)
(* state's classification (FlowClassification,                             *)
(* flow-classification.service.ts:148).  A report that walks a graph while *)
(* links are added lies between the graph it began with and the one it     *)
(* ended with, and explains what it names (Correlation,                    *)
(* correlation.service.ts:108; Lineage, lineage.service.ts:281,            *)
(* impact.service.ts:48).                                                  *)
RecordsAreHonest == /\ machine = "alert" => M!AlertsAreCounted
                    /\ machine = "work" => W!HistoryIsPath /\ W!HoldIsFree
                    /\ machine = "mapping" => T!WriteIsComplete
                    /\ machine = "twin" => P!ProjectionIsCurrent /\ P!HistoryIsInOrder /\ P!CounterpartsAreLinked
                    /\ machine = "note" => N!RowIsHonest
                    /\ machine = "lens" => F!HistoryIsLinked
                    /\ machine = "pair" => O!WalkIsExact
                    /\ machine = "lineage" => L!ReportIsBounded /\ L!ReportIsExplained

(* What a step may never do: take an incident past what automation may     *)
(* (Monitoring, monitoring.service.ts:618), leave a pair without its       *)
(* published mapping (Translation, state-mapping.service.ts:125), or erase *)
(* the key of a node (Correlation, correlation.service.ts:286).            *)
NothingUnasked == M!AutomationStopsShort /\ T!NeverUnpublished /\ O!KeyIsKept
=============================================================================
