------------------------- MODULE ConnectorLifecycle -------------------------
(***************************************************************************)
(* Registration, test, discovery, activation, pause and configuration of   *)
(* connectors (connectors/connector.service.ts), and their request budget  *)
(* (connectors/rate-governor.ts): it is registered by these operations and *)
(* by a starting process, and every admitted call narrows it to the policy *)
(* its process has cached.  Every operation reads the row, works, and      *)
(* writes without looking again; a configuration is one value, written     *)
(* back whole.                                                             *)
(***************************************************************************)
EXTENDS Naturals, FiniteSets

CONSTANTS Connectors, \* connectors of one tenant with one target
          Callers,    \* requests and schedulers at work at one time
          Hosts,      \* processes
          Host,       \* the process each of them runs in
          Limits,     \* request budgets a policy may set
          Default,    \* the budget of a connector that sets none
          MaxCalls    \* bound: operations in one behaviour

VARIABLES row,      \* the rows of integration_connectors
          budgeted, \* the target's row of integration_rate_governance
          policies, \* the target's policy as each process has it cached
          starting, \* processes that have stopped and not yet started again
          call,     \* where an operation is, and what it read
          calls,    \* operations begun
          meant,    \* history: the value last given to each section
          mishaps   \* history: what has overlapped, a failed registration included

vars == <<row, budgeted, policies, starting, call, calls, meant, mishaps>>

-----------------------------------------------------------------------------
(* The sections of a configuration, abstracted to the one the governor     *)
(* reads and the others, which are all replaced in the same way.           *)
Sections == {"rateGovernance", "writeBack"}
Values(section) == IF section = "rateGovernance" THEN Limits ELSE {0, 1}
Blank == [rateGovernance |-> Default, writeBack |-> 0]

Absent == [status |-> "absent", discovery |-> "none", activated |-> FALSE, config |-> Blank]
Idle == [stage |-> "idle", op |-> "none", of |-> "none", read |-> Absent, section |-> "none",
         value |-> 0, limit |-> 0]
Registration(op, c, own, left) ==
  [stage |-> "register", op |-> op, of |-> c, read |-> Absent, own |-> own, merged |-> 0,
   left |-> left, crowded |-> FALSE]
Exists(c) == row[c].status # "absent"
Asked(c) == row[c].config.rateGovernance
Smaller(a, b) == IF a < b THEN a ELSE b
Smallest(S) == CHOOSE x \in S : \A y \in S : x <= y

Init == /\ row = [c \in Connectors |-> Absent]
        /\ budgeted = 0
        /\ policies = [h \in Hosts |-> 0]
        /\ starting = {}
        /\ call = [w \in Callers |-> Idle]
        /\ calls = 0
        /\ meant = [c \in Connectors |-> Blank]
        /\ mishaps = {}

Registering(w) == call[w].stage \in {"register", "store"}
Others(w) == {v \in Callers \ {w} : Registering(v)}
(* What those who register have read is no longer what is stored.          *)
Crowd(w, next) == call' = [v \in Callers |-> IF v = w THEN next
                             ELSE IF Registering(v) THEN [call[v] EXCEPT !.crowded = TRUE] ELSE call[v]]

-----------------------------------------------------------------------------
(* What an operation finds when it reads the row, and refuses.             *)
Refuses(op, found) ==
  CASE op = "discover" -> found.status = "paused"
    [] op = "activate" -> found.discovery # "ready"
    [] op = "sync" -> ~found.activated \/ found.status = "paused"
    [] OTHER -> FALSE

Begin(w, c, op, section, value) ==
  /\ call[w].stage = "idle" /\ Host[w] \notin starting /\ calls < MaxCalls
  /\ Exists(c) /\ ~Refuses(op, row[c])
  /\ op = "configure" => value \in Values(section)
  /\ op = "sync" => \A v \in Callers : call[v].op # "sync" \/ call[v].of # c
  /\ calls' = calls + 1
  /\ call' = [call EXCEPT ![w] = [Idle EXCEPT !.stage = "work", !.op = op, !.of = c, !.read = row[c],
                                    !.section = section, !.value = value]]
  /\ row' = IF op = "discover" THEN [row EXCEPT ![c].status = "discovering"] ELSE row
  /\ UNCHANGED <<budgeted, policies, starting, meant, mishaps>>

Register(w, c, op) ==
  call' = [call EXCEPT ![w] = Registration(op, c, row'[c].config.rateGovernance, << >>)]

(* Another connector of this name is a conflict.                           *)
Create(w, c) ==
  /\ call[w].stage = "idle" /\ Host[w] \notin starting /\ calls < MaxCalls /\ ~Exists(c)
  /\ calls' = calls + 1
  /\ row' = [row EXCEPT ![c] = [Absent EXCEPT !.status = "unconfigured"]]
  /\ Register(w, c, "create")
  /\ UNCHANGED <<budgeted, policies, starting, meant, mishaps>>

Finish(w) == call' = [call EXCEPT ![w] = Idle]

TestedMutant(read) ==
  IF read.activated THEN "active" ELSE IF read.discovery # "none" THEN "discovered" ELSE "connected"
Tested(read) ==
  IF read.status = "paused" THEN "paused" ELSE IF read.activated THEN "active"
  ELSE IF read.discovery # "none" THEN "discovered" ELSE "connected"

(* The provider refuses a test or a discovery, or a page cannot be read:   *)
(* the connector is in error, paused or not.                               *)
Fails(w) ==
  /\ call[w].stage = "work" /\ call[w].op \in {"test", "discover", "sync"}
  /\ row' = [row EXCEPT ![call[w].of].status = "error"]
  /\ Finish(w)
  /\ UNCHANGED <<budgeted, policies, starting, calls, meant, mishaps>>

TestConnection(w) ==
  /\ call[w].stage = "work" /\ call[w].op = "test" /\ call[w].limit = 0
  /\ row' = [row EXCEPT ![call[w].of].status = Tested(call[w].read)]
  /\ Finish(w)
  /\ UNCHANGED <<budgeted, policies, starting, calls, meant, mishaps>>

DiscoverSchema(w, found) ==
  /\ call[w].stage = "work" /\ call[w].op = "discover" /\ call[w].limit = 0
  /\ row' = [row EXCEPT ![call[w].of].discovery = found, ![call[w].of].status =
               IF ~call[w].read.activated THEN "discovered"
               ELSE IF found = "ready" THEN "active" ELSE "degraded"]
  /\ Finish(w)
  /\ UNCHANGED <<budgeted, policies, starting, calls, meant, mishaps>>

Activate(w) ==
  LET c == call[w].of IN
  /\ call[w].stage = "work" /\ call[w].op = "activate"
  /\ row' = [row EXCEPT ![c].status = "active", ![c].activated = TRUE]
  /\ Register(w, c, "activate")
  /\ UNCHANGED <<budgeted, policies, starting, calls, meant, mishaps>>

Pause(w) ==
  /\ call[w].stage = "work" /\ call[w].op = "pause"
  /\ row' = [row EXCEPT ![call[w].of].status = "paused"]
  /\ Finish(w)
  /\ UNCHANGED <<budgeted, policies, starting, calls, meant, mishaps>>

(* A synchronization concludes with the status it found reasons for.       *)
SyncConnector(w, status) ==
  /\ call[w].stage = "work" /\ call[w].op = "sync" /\ status \in {"active", "degraded"}
  /\ row' = [row EXCEPT ![call[w].of].status = status]
  /\ Finish(w)
  /\ UNCHANGED <<budgeted, policies, starting, calls, meant, mishaps>>

(* The section replaced in the configuration that was read.                *)
ReplacedMutant(w) == [Blank EXCEPT ![call[w].section] = call[w].value]
Replaced(w) == [call[w].read.config EXCEPT ![call[w].section] = call[w].value]
Overwrites(w) == row[call[w].of].config # call[w].read.config
Configure(w) ==
  LET c == call[w].of IN
  /\ call[w].stage = "work" /\ call[w].op = "configure"
  /\ row' = [row EXCEPT ![c].config = Replaced(w)]
  /\ meant' = [meant EXCEPT ![c][call[w].section] = call[w].value]
  /\ mishaps' = mishaps \cup (IF ~Overwrites(w) THEN {}
                             ELSE IF call[w].section = "rateGovernance" THEN {"lost"} ELSE {"lost", "overlap"})
  /\ IF call[w].section = "rateGovernance" THEN Register(w, c, "configure")
     ELSE IF Overwrites(w) THEN Crowd(w, Idle) ELSE Finish(w)
  /\ UNCHANGED <<budgeted, policies, starting, calls>>

-----------------------------------------------------------------------------
(* registerPolicy: the safest budget of the connectors of the target, from *)
(* rows read before it is cached and stored.                               *)
SaferMutant(w) == call[w].own
Safer(w) == Smallest({call[w].own} \cup {Asked(c) : c \in {d \in Connectors : Exists(d)}})
Safest == Smallest({Asked(c) : c \in {d \in Connectors : Exists(d)}})
ReadPolicies(w) ==
  /\ call[w].stage = "register"
  /\ call' = [call EXCEPT ![w].stage = "store", ![w].merged = Safer(w)]
  /\ policies' = [policies EXCEPT ![Host[w]] = Safer(w)]
  /\ UNCHANGED <<row, budgeted, starting, calls, meant, mishaps>>

(* A registration that nothing overlapped makes good what was before it.   *)
StorePolicy(w) ==
  /\ call[w].stage = "store"
  /\ budgeted' = call[w].merged
  /\ mishaps' = IF call[w].crowded \/ Others(w) # {} THEN mishaps \cup {"overlap"}
                                                     ELSE mishaps \ {"overlap", "outdated"}
  /\ IF DOMAIN call[w].left = {}
       THEN Crowd(w, Idle) /\ starting' = (IF call[w].op = "start" THEN starting \ {Host[w]} ELSE starting)
       ELSE /\ \E c \in DOMAIN call[w].left :
                 Crowd(w, [Registration(call[w].op, c, call[w].left[c],
                                        [d \in DOMAIN call[w].left \ {c} |-> call[w].left[d]])
                           EXCEPT !.crowded = call[w].crowded])
            /\ UNCHANGED starting
  /\ UNCHANGED <<row, policies, calls, meant>>

(* A query of a registration fails: what it registers is stored, and the   *)
(* budget is as it was.  (In a starting process that is a stop.)           *)
RegistrationFails(w) ==
  /\ Registering(w) /\ call[w].op # "start"
  /\ mishaps' = mishaps \cup {"overlap"}
  /\ Crowd(w, Idle)
  /\ UNCHANGED <<row, budgeted, policies, starting, calls, meant>>

(* governedTarget: a call to the provider goes by the policy its process   *)
(* has cached, or by that of the connector it was given.                   *)
Govern(w) ==
  /\ call[w].stage = "work" /\ call[w].op \in {"test", "discover", "sync"} /\ call[w].limit = 0
  /\ call' = [call EXCEPT ![w].limit = IF policies[Host[w]] # 0 THEN policies[Host[w]]
                                       ELSE call[w].read.config.rateGovernance]
  /\ UNCHANGED <<row, budgeted, policies, starting, calls, meant, mishaps>>

(* acquireQuota: the budget becomes the smaller of what is stored and what *)
(* the call was given, when it is admitted and each time it has to wait.   *)
NarrowedMutant(limit) == limit
Narrowed(limit) == IF budgeted = 0 THEN limit ELSE Smaller(budgeted, limit)
Admit(w) ==
  /\ call[w].stage = "work" /\ call[w].limit # 0
  /\ budgeted' = Narrowed(call[w].limit)
  /\ mishaps' = IF call[w].limit < Safest THEN mishaps \cup {"outdated"} ELSE mishaps
  /\ call' \in {call, [call EXCEPT ![w].limit = 0]}
  /\ UNCHANGED <<row, policies, starting, calls, meant>>

(* A process stops.  It starts by registering the connectors it finds, one *)
(* after another, and does nothing else before.                            *)
Stop(h) ==
  /\ \E w \in Callers : Host[w] = h /\ call[w].stage # "idle"
  /\ call' = [w \in Callers |-> IF Host[w] = h THEN Idle ELSE call[w]]
  /\ policies' = [policies EXCEPT ![h] = 0]
  /\ starting' = starting \cup {h}
  /\ UNCHANGED <<row, budgeted, calls, meant, mishaps>>

Begun(h) == \E w \in Callers : Host[w] = h /\ call[w].stage # "idle"
StartUp(w) ==
  LET found == {c \in Connectors : Exists(c)} IN
  /\ Host[w] \in starting /\ ~Begun(Host[w])
  /\ IF found = {} THEN starting' = starting \ {Host[w]} /\ UNCHANGED call
     ELSE /\ \E c \in found :
               call' = [call EXCEPT ![w] = Registration("start", c, Asked(c), [d \in found \ {c} |-> Asked(d)])]
          /\ UNCHANGED starting
  /\ UNCHANGED <<row, budgeted, policies, calls, meant, mishaps>>

-----------------------------------------------------------------------------
Next == \E w \in Callers :
  \/ \E c \in Connectors :
       \/ Create(w, c)
       \/ \E op \in {"test", "discover", "activate", "pause", "sync"} : Begin(w, c, op, "none", 0)
       \/ \E section \in Sections, value \in Limits \cup {0, 1} : Begin(w, c, "configure", section, value)
  \/ Fails(w) \/ TestConnection(w) \/ Activate(w) \/ Pause(w) \/ Configure(w)
  \/ \E found \in {"ready", "limited"} : DiscoverSchema(w, found)
  \/ \E status \in {"active", "degraded"} : SyncConnector(w, status)
  \/ ReadPolicies(w) \/ StorePolicy(w) \/ RegistrationFails(w) \/ Govern(w) \/ Admit(w) \/ StartUp(w)
  \/ Stop(Host[w])
Spec == Init /\ [][Next]_vars

-----------------------------------------------------------------------------
TypeOK ==
  /\ \A c \in Connectors :
       /\ row[c].status \in {"absent", "unconfigured", "connected", "discovering", "discovered",
                             "active", "degraded", "paused", "error"}
       /\ row[c].discovery \in {"none", "ready", "limited"} /\ row[c].activated \in BOOLEAN
       /\ row[c].config.rateGovernance \in Limits /\ row[c].config.writeBack \in {0, 1}
  /\ budgeted \in Limits \cup {0} /\ calls \in 0 .. MaxCalls
  /\ policies \in [Hosts -> Limits \cup {0}] /\ starting \subseteq Hosts
  /\ \A w \in Callers : call[w].stage \in {"idle", "work", "register", "store"}
  /\ mishaps \subseteq {"lost", "overlap", "outdated"}

(* A connector leaves its pause when it is activated, when a test of it    *)
(* fails, or by an operation that read it before the pause.                *)
(* (connector.service.ts:282, 676)                                         *)
PauseIsKept == [][
  \A c \in Connectors : (row[c].status = "paused" /\ row'[c].status # "paused") =>
    \E w \in Callers : /\ call[w].of = c /\ call'[w] # call[w]
                       /\ \/ call[w].op = "activate" \/ call[w].read.status # "paused"
                          \/ call[w].op = "test" /\ row'[c].status = "error"]_vars

(* A section keeps the value it was last given, unless two configurations  *)
(* of one connector overlapped.  (connector.service.ts:402, 449)           *)
SettingsAreKept == "lost" \in mishaps \/ \A c \in Connectors : row[c].config = meant[c]

(* When nobody registers and no process is starting, and the last          *)
(* registration to end neither failed nor was overlapped, the target's     *)
(* budget is not wider than the safest of its connectors', whatever calls  *)
(* were admitted under older policies, and it is the safest unless one of  *)
(* those calls narrowed it since.  (rate-governor.ts:125, 294, 525)        *)
Steady == starting = {} /\ (\A w \in Callers : ~Registering(w)) /\ (\E c \in Connectors : Exists(c))
BudgetIsSafest ==
  Steady /\ "overlap" \notin mishaps =>
    /\ budgeted <= Safest
    /\ "outdated" \notin mishaps => budgeted = Safest
=============================================================================
