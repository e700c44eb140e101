----------------------------- MODULE Monitoring -----------------------------
(***************************************************************************)
(* The monitoring gateway (integrations/monitoring.service.ts): alerts     *)
(* open incidents, recurrences are folded into the open one, a resolved    *)
(* alert makes automation propose mitigation.  Deliveries come one by one  *)
(* from the inbound queue, which tries a failed one again behind others;   *)
(* people move incidents through their workflow meanwhile.                 *)
(***************************************************************************)
EXTENDS Naturals, Sequences, FiniteSets, FiniteSetsExt

CONSTANTS Deliveries,   \* alert deliveries of one dedupe key
          Alerts,       \* their content: kind, severity rank (0 the worst), time
          Window,       \* dedupe_window_minutes
          Threshold,    \* rank of min_severity
          States,       \* states of the tenant's incident workflow
          Workflows,    \* sets of transitions a tenant may have published
          Barred,       \* those a guard or field denies to automation
          MaxFaults,    \* bound: failures of the work
          MaxMoves      \* bound: transitions by people

VARIABLES handled,    \* deliveries completed
          artifact,   \* the alert's row of external_artifacts
          incident,   \* incidents in order of creation
          evidence,   \* incidents the alert is linked to
          edges,      \* transitions of the workflow
          hand,       \* the delivery at work
          counted,    \* history: alerts the artifact should count
          faults, moves

vars == <<handled, artifact, incident, evidence, edges, hand, counted, faults, moves>>

Forbidden == {"Resolved", "Closed", "Post-incident Review"}   \* AUTOMATION_FORBIDDEN_STATES
Settled == Forbidden \cup {"Mitigated"}                       \* INCIDENT_SETTLED_STATES
Proposed == "Mitigated"
MaxPath == 3                                                  \* MAX_AUTOMATION_PATH_LENGTH
NoIncident == 0
NoDelivery == "none"

Rest == [stage |-> "rest", delivery |-> NoDelivery, target |-> NoIncident,
         quiet |-> FALSE, at |-> "Triaged", path |-> << >>]
A == Alerts[hand.delivery]
Open(i) == incident[i].status \notin Settled
Later(stage) == hand' = [hand EXCEPT !.stage = stage]

Init == /\ handled = {}
        /\ artifact = [status |-> "none", occurrences |-> 0, last |-> 0, incident |-> NoIncident]
        /\ incident = << >>
        /\ evidence = {}
        /\ edges \in Workflows
        /\ hand = Rest
        /\ counted = 0
        /\ faults = 0
        /\ moves = 0

(***************************************************************************)
(* An alert fired.                                                         *)
(***************************************************************************)

(* findDedupeTarget: the window rolls from the last occurrence.            *)
Elapsed(d) == IF Alerts[d].at > artifact.last THEN Alerts[d].at - artifact.last ELSE 0
Quiet(d) == Elapsed(d) > Window
TargetMutant(d) == IF artifact.incident # NoIncident /\ Elapsed(d) < Window /\ Open(artifact.incident)
                   THEN artifact.incident ELSE NoIncident
Target(d) == IF artifact.incident # NoIncident /\ ~Quiet(d) /\ Open(artifact.incident)
             THEN artifact.incident ELSE NoIncident

Fire(d) ==
  /\ hand = Rest /\ d \notin handled /\ Alerts[d].kind = "fired"
  /\ hand' = [Rest EXCEPT !.delivery = d, !.target = Target(d),
                          !.quiet = artifact.incident # NoIncident /\ Quiet(d),
                          !.stage = IF Target(d) # NoIncident THEN "write"
                                    ELSE IF Alerts[d].rank > Threshold THEN "suppress" ELSE "open"]
  /\ UNCHANGED <<handled, artifact, incident, evidence, edges, counted, faults, moves>>

(* The incident a quiet spell left behind stays open by itself.            *)
LeftBehind == IF hand.quiet /\ artifact.incident # NoIncident
              THEN [incident EXCEPT ![artifact.incident].left = TRUE] ELSE incident
WriteMutant(status, i) ==
  artifact' = [status |-> status, occurrences |-> 1, last |-> A.at, incident |-> i]
Write(status, i) ==
  artifact' = [status |-> status, occurrences |-> artifact.occurrences + 1, last |-> A.at, incident |-> i]

(* Below the threshold and nothing to update: evidence only.               *)
Suppress == /\ hand.stage = "suppress"
            /\ Write("suppressed", NoIncident)
            /\ incident' = LeftBehind
            /\ Later("complete")
            /\ UNCHANGED <<handled, evidence, edges, counted, faults, moves>>

(* createWorkItem commits by itself, before the artifact names it.         *)
OpenIncident ==
  /\ hand.stage = "open"
  /\ incident' = Append(incident, [status |-> "Triaged", rank |-> A.rank, left |-> FALSE, orphan |-> FALSE])
  /\ hand' = [hand EXCEPT !.stage = "write", !.target = Len(incident) + 1]
  /\ UNCHANGED <<handled, artifact, evidence, edges, counted, faults, moves>>

WriteFiring == /\ hand.stage = "write"
               /\ Write("firing", hand.target)
               /\ incident' = LeftBehind
               /\ Later("link")
               /\ UNCHANGED <<handled, evidence, edges, counted, faults, moves>>

LinkAlert == /\ hand.stage = "link"
             /\ evidence' = evidence \cup {hand.target}
             /\ Later("escalate")
             /\ UNCHANGED <<handled, artifact, incident, edges, counted, faults, moves>>

(* escalateSeverity only raises; it finds a new incident as it is.         *)
EscalateMutant == /\ hand.stage = "escalate"
                  /\ incident' = [incident EXCEPT ![hand.target].rank = A.rank]
                  /\ Later("complete")
                  /\ UNCHANGED <<handled, artifact, evidence, edges, counted, faults, moves>>
Escalate == /\ hand.stage = "escalate"
            /\ incident' = [incident EXCEPT ![hand.target].rank = IF A.rank < @ THEN A.rank ELSE @]
            /\ Later("complete")
            /\ UNCHANGED <<handled, artifact, evidence, edges, counted, faults, moves>>

(***************************************************************************)
(* An alert resolved.                                                      *)
(***************************************************************************)

(* findAutomationPath: the shortest path to Mitigated that avoids the      *)
(* states only a person may choose.                                        *)
Walks(from) == {p \in UNION {[1 .. n -> States] : n \in 1 .. MaxPath} :
                  /\ p[Len(p)] = Proposed
                  /\ \A k \in 1 .. Len(p) :
                       /\ <<IF k = 1 THEN from ELSE p[k - 1], p[k]>> \in edges
                       /\ p[k] \notin Forbidden}
Shortest(walks) == {p \in walks : \A q \in walks : Len(p) <= Len(q)}
PathsMutant(from) == IF from = Proposed THEN {<< >>}
                     ELSE IF Walks(from) = {} THEN {<< >>} ELSE Shortest(Walks(from))
Paths(from) == IF from \in Settled \/ Walks(from) = {} THEN {<< >>} ELSE Shortest(Walks(from))

Resolve(d) ==
  /\ hand = Rest /\ d \notin handled /\ Alerts[d].kind = "resolved"
  /\ hand' = [Rest EXCEPT !.delivery = d, !.target = artifact.incident, !.stage = "resolve"]
  /\ UNCHANGED <<handled, artifact, incident, evidence, edges, counted, faults, moves>>

WriteResolved ==
  /\ hand.stage = "resolve"
  /\ artifact' = [artifact EXCEPT !.status = "resolved",
                                  !.occurrences = IF @ = 0 THEN 1 ELSE @,
                                  !.last = IF @ = 0 THEN A.at ELSE @]
  /\ counted' = IF artifact.status = "none" THEN 1 ELSE counted
  /\ IF hand.target = NoIncident THEN Later("complete")
     ELSE \E path \in Paths(incident[hand.target].status) :
            hand' = [hand EXCEPT !.stage = "propose", !.at = incident[hand.target].status, !.path = path]
  /\ UNCHANGED <<handled, incident, evidence, edges, faults, moves>>

LinkResolved == /\ hand.stage = "propose"
                /\ evidence' = evidence \cup {hand.target}
                /\ Later(IF hand.path = << >> THEN "complete" ELSE "step")
                /\ UNCHANGED <<handled, artifact, incident, edges, counted, faults, moves>>

(* attemptTransition asks for the next state from wherever the incident    *)
(* now is; a refusal ends the walk.                                        *)
Step ==
  /\ hand.stage = "step"
  /\ LET i == hand.target
         to == Head(hand.path)
     IN  IF <<incident[i].status, to>> \in edges \ Barred
           THEN /\ incident' = [incident EXCEPT ![i].status = to]
                /\ hand' = [hand EXCEPT !.at = to, !.path = Tail(@),
                                        !.stage = IF Len(hand.path) = 1 THEN "complete" ELSE "step"]
           ELSE /\ incident' = incident
                /\ Later("complete")
  /\ UNCHANGED <<handled, artifact, evidence, edges, counted, faults, moves>>

(***************************************************************************)
(* The end of a delivery.                                                  *)
(***************************************************************************)

Complete == /\ hand.stage = "complete"
            /\ handled' = handled \cup {hand.delivery}
            /\ counted' = counted + (IF A.kind = "fired" THEN 1 ELSE 0)
            /\ Later("publish")
            /\ UNCHANGED <<artifact, incident, evidence, edges, faults, moves>>
Publish == /\ hand.stage = "publish"
           /\ hand' = Rest
           /\ UNCHANGED <<handled, artifact, incident, evidence, edges, counted, faults, moves>>

(* A step fails, the last one included: the delivery is tried again, from  *)
(* its beginning.                                                          *)
Fail == /\ hand # Rest /\ faults < MaxFaults
        /\ faults' = faults + 1
        /\ incident' = IF hand.stage = "write" /\ A.kind = "fired" /\ hand.target # artifact.incident
                       THEN [incident EXCEPT ![hand.target].orphan = TRUE] ELSE incident
        /\ handled' = handled \ {hand.delivery}
        /\ hand' = Rest
        /\ UNCHANGED <<artifact, evidence, edges, counted, moves>>

(* A person moves an incident.                                             *)
Person(i, to) == /\ moves < MaxMoves
                 /\ <<incident[i].status, to>> \in edges
                 /\ incident' = [incident EXCEPT ![i].status = to,
                                                 ![i].left = @ \/ incident[i].status \in Settled]
                 /\ moves' = moves + 1
                 /\ UNCHANGED <<handled, artifact, evidence, edges, hand, counted, faults>>

Next == \/ \E d \in Deliveries : Fire(d) \/ Resolve(d)
        \/ Suppress \/ OpenIncident \/ WriteFiring \/ LinkAlert \/ Escalate
        \/ WriteResolved \/ LinkResolved \/ Step \/ Complete \/ Publish \/ Fail
        \/ \E i \in DOMAIN incident : \E to \in States : Person(i, to)

Spec == Init /\ [][Next]_vars

-----------------------------------------------------------------------------
TypeOK ==
  /\ handled \subseteq Deliveries
  /\ artifact \in [status : {"none", "suppressed", "firing", "resolved"}, occurrences : Nat,
                   last : Nat, incident : 0 .. Len(incident)]
  /\ incident \in Seq([status : States, rank : Nat, left : BOOLEAN, orphan : BOOLEAN])
  /\ evidence \subseteq DOMAIN incident
  /\ hand.target \in 0 .. Len(incident) /\ hand.at \in States /\ hand.path \in Seq(States)

(* An alert has one open incident, the one its artifact names, however     *)
(* often it recurs and people act meanwhile.  Others were left by a spell  *)
(* longer than the window, reopened by a person, or opened by a delivery   *)
(* that failed before the artifact named them: its retry opens another.    *)
(* (monitoring.service.ts:383, 409)                                        *)
OneOpenIncident ==
  \A i \in DOMAIN incident : Open(i) =>
    \/ i = artifact.incident \/ incident[i].left \/ incident[i].orphan
    \/ hand.stage = "write" /\ hand.target = i

(* The artifact counts each alert once, unless its handling failed, and a  *)
(* resolution that comes first as one; it names an incident that has it as *)
(* evidence.  (monitoring.service.ts:306) *)
AlertsAreCounted ==
  hand = Rest =>
    /\ faults = 0 => artifact.occurrences = counted
    /\ artifact.incident # NoIncident /\ faults = 0 => artifact.incident \in evidence

(* Automation walks an incident towards mitigation only: never to a state  *)
(* reserved to people, and out of one only when a person put it there      *)
(* after automation had looked.  No one but people lowers a severity.      *)
(* (monitoring.service.ts:66, 555, 811)                                    *)
AutomationStopsShort ==
  [][\A i \in DOMAIN incident :
       /\ (incident'[i].status # incident[i].status /\ moves' = moves) =>
            /\ incident'[i].status \notin Forbidden
            /\ incident[i].status \in Settled => incident[i].status # hand.at
       /\ incident'[i].rank <= incident[i].rank]_vars
=============================================================================
