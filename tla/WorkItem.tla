------------------------------ MODULE WorkItem ------------------------------
(***************************************************************************)
(* A work item: its state machine (workflow.service.ts), its editable      *)
(* fields (work-item.service.ts), its SLA clock and the aging tick that    *)
(* recomputes the clock and announces warnings (sla/aging-engine.service). *)
(* Every operation reads the row first and writes it in a later step; only *)
(* a change of state checks that the state is still the one it read.       *)
(***************************************************************************)
EXTENDS Naturals, Sequences, FiniteSets

CONSTANTS States, Initial,
          Edges,       \* transitions of the item's workflow version
          Demands,     \* the edges that require the summary field
          Timed,       \* states with an SLA policy (24x7)
          Holds,       \* those whose policy suspends the clock
          Origins,     \* "local", or "connector" for a projected item
          Requests,    \* concurrent requests and source changes
          Kinds,       \* SLA announcements ...
          Due,         \* ... and the minutes they are due after
          MaxTime,     \* bound: minutes
          MaxRequests  \* bound: requests in a behaviour

VARIABLES now,
          item,      \* the row of work_items
          request,   \* requests in progress, with the row each has read
          tick,      \* the aging tick, with the row and the time it has read
          claimed,   \* rows of sla_emissions
          announced, \* history: announcements published, in order
          log,       \* history: WorkItemStateChanged audit entries
          spent,     \* history: minutes the clock should show
          kept,      \* history: fields as last stored by an effective edit
          races,     \* history: writes based on a row that had changed
          served     \* requests so far

vars == <<now, item, request, tick, claimed, announced, log, spent, kept, races, served>>

NoClock == MaxTime + 1
Rest == [stage |-> "rest"]
Running(row) == row.status \in Timed \ Holds
Clock(row) == IF row.clock = NoClock THEN row.entered ELSE row.clock
Sla(row) == <<row.elapsed, row.clock, row.suspended, row.entered, row.status>>
Fields == {"summary", "priority"}

Init == /\ now = 0
        /\ \E origin \in Origins :
             item = [status |-> Initial, entered |-> 0, elapsed |-> 0, clock |-> NoClock,
                     suspended |-> FALSE, score |-> 0, fields |-> [f \in Fields |-> 0], origin |-> origin]
        /\ request = [r \in Requests |-> Rest]
        /\ tick = Rest
        /\ claimed = {} /\ announced = << >>
        /\ log = << >> /\ spent = 0 /\ kept = [f \in Fields |-> 0]
        /\ races = {} /\ served = 0

Minute == /\ now < MaxTime
          /\ now' = now + 1
          /\ spent' = IF Running(item) THEN spent + 1 ELSE spent
          /\ UNCHANGED <<item, request, tick, claimed, announced, log, kept, races, served>>

(***************************************************************************)
(* Requests.                                                               *)
(***************************************************************************)

Begin(r, ask) == /\ request[r] = Rest /\ served < MaxRequests
                 /\ request' = [request EXCEPT ![r] = ask]
                 /\ served' = served + 1
                 /\ UNCHANGED <<now, item, tick, claimed, announced, log, spent, kept, races>>

(* transitionWorkItem refuses a projected item, an unknown transition and  *)
(* one whose required field is neither stored nor supplied.                *)
Allowed(row, to, summary) == /\ row.origin = "local"
                             /\ <<row.status, to>> \in Edges
                             /\ <<row.status, to>> \in Demands => summary = 1
BeginMove(r, to, supplied) ==
  LET summary == IF supplied THEN 1 ELSE item.fields["summary"]
  IN  /\ Allowed(item, to, summary)
      /\ Begin(r, [stage |-> "move", row |-> item, to |-> to, at |-> now,
                   fields |-> [item.fields EXCEPT !["summary"] = summary]])

(* applySourceStateChange: the source has enforced its own workflow, and   *)
(* the change is of the source's time.                                     *)
BeginSourceChange(r, to, at) ==
  /\ item.origin = "connector" /\ item.status # to /\ item.entered <= at /\ at <= now
  /\ Begin(r, [stage |-> "move", row |-> item, to |-> to, at |-> at, fields |-> item.fields])

(* The clock commitStateChange computes from the row and the time it was   *)
(* given.                                                                  *)
Minutes(since, at) == IF at <= since THEN 0 ELSE at - since
Banked(row, at) ==
  row.elapsed + IF ~row.suspended /\ row.status \in Timed THEN Minutes(Clock(row), at) ELSE 0
EnteredMutant(row, to, at) ==
  [row EXCEPT !.status = to, !.entered = at, !.clock = NoClock,
              !.elapsed = IF to \in Holds THEN Banked(row, at) ELSE 0,
              !.suspended = to \in Holds]
Entered(row, to, at) ==
  [row EXCEPT !.status = to, !.entered = at, !.clock = NoClock,
              !.elapsed = IF to \in Holds THEN Banked(row, at) ELSE IF row.suspended THEN @ ELSE 0,
              !.suspended = to \in Holds]

UnchangedStateMutant(r) == TRUE
UnchangedState(r) == item.status = request[r].row.status
Stale(r) == (IF item.fields # request[r].row.fields THEN {"fields"} ELSE {})
              \cup (IF Sla(item) # Sla(request[r].row) THEN {"clock"} ELSE {})

(* What the clock should show once the change counts from its time.        *)
Counted(r) ==
  LET to == request[r].to
      late == now - request[r].at
      before == IF to \in Holds \/ item.status \in Holds THEN spent ELSE 0
  IN IF to \in Holds THEN IF Running(item) THEN Minutes(late, before) ELSE before
     ELSE IF to \in Timed THEN before + late ELSE before

(* The update is conditional on the state that was read, else it throws.   *)
Move(r) ==
  /\ request[r].stage = "move"
  /\ IF UnchangedState(r)
       THEN LET row == request[r].row
                to == request[r].to
            IN  /\ item' = [Entered(row, to, request[r].at) EXCEPT !.fields = request[r].fields, !.score = item.score]
                /\ log' = Append(log, <<row.status, to>>)
                /\ spent' = Counted(r)
                /\ kept' = IF request[r].fields = row.fields THEN kept
                           ELSE [kept EXCEPT !["summary"] = request[r].fields["summary"]]
                /\ races' = races \cup Stale(r)
       ELSE UNCHANGED <<item, log, spent, kept, races>>
  /\ request' = [request EXCEPT ![r] = Rest]
  /\ UNCHANGED <<now, tick, claimed, announced, served>>

(* updateWorkItem writes every field, with the values it read for those it *)
(* was not asked to change.                                                *)
BeginEdit(r, f, value) ==
  /\ item.origin = "local" /\ item.fields[f] # value
  /\ Begin(r, [stage |-> "edit", row |-> item, field |-> f, value |-> value])
MergedMutant(r) == [f \in Fields |-> IF f = request[r].field THEN request[r].value ELSE 0]
Merged(r) == [request[r].row.fields EXCEPT ![request[r].field] = request[r].value]
Edit(r) ==
  /\ request[r].stage = "edit"
  /\ item' = [item EXCEPT !.fields = Merged(r)]
  /\ kept' = [kept EXCEPT ![request[r].field] = request[r].value]
  /\ races' = races \cup (Stale(r) \cap {"fields"})
  /\ request' = [request EXCEPT ![r] = Rest]
  /\ UNCHANGED <<now, tick, claimed, announced, log, spent, served>>

(***************************************************************************)
(* The aging tick.                                                         *)
(***************************************************************************)

Read == /\ tick = Rest
        /\ tick' = [stage |-> "announce", row |-> item, at |-> now, left |-> Kinds]
        /\ UNCHANGED <<now, item, request, claimed, announced, log, spent, kept, races, served>>

(* The clock follows the policy of the state, whatever the row says.       *)
Followed(row, at) ==
  IF row.status \in Holds /\ ~row.suspended
    THEN [row EXCEPT !.elapsed = @ + (at - Clock(row)), !.suspended = TRUE, !.clock = NoClock]
  ELSE IF row.status \in Timed \ Holds /\ row.suspended
    THEN [row EXCEPT !.suspended = FALSE, !.clock = at]
  ELSE row
Shown(row, at) == IF row.status \notin Timed THEN 0
                  ELSE row.elapsed + IF row.suspended THEN 0 ELSE at - Clock(row)
Aged == LET row == Followed(tick.row, tick.at)
        IN  [row EXCEPT !.score = Shown(row, tick.at)]

(* claimEmission: one announcement of a kind per entry into a state, then  *)
(* its publication.                                                        *)
Occasion(kind) == <<tick.row.status, tick.row.entered, kind>>
NotYetMutant(kind) == TRUE
NotYet(kind) == Occasion(kind) \notin claimed
Announce(kind) ==
  /\ tick.stage = "announce" /\ kind \in tick.left
  /\ IF Aged.score >= Due[kind] /\ NotYet(kind)
       THEN /\ claimed' = claimed \cup {Occasion(kind)}
            /\ tick' = [tick EXCEPT !.stage = "publish", !.left = {kind}]
       ELSE /\ tick' = [tick EXCEPT !.left = @ \ {kind}]
            /\ UNCHANGED claimed
  /\ UNCHANGED <<now, item, request, announced, log, spent, kept, races, served>>
Publish ==
  /\ tick.stage = "publish"
  /\ \E kind \in tick.left : announced' = Append(announced, Occasion(kind))
  /\ tick' = [tick EXCEPT !.stage = "announce", !.left = {k \in Kinds : Due[k] > Due[CHOOSE j \in tick.left : TRUE]}]
  /\ UNCHANGED <<now, item, request, claimed, log, spent, kept, races, served>>

(* It writes the clock by id, and only what it computed.                   *)
Write ==
  /\ tick.stage = "announce" /\ tick.left = {}
  /\ IF Aged = tick.row THEN UNCHANGED <<item, races>>
     ELSE /\ item' = [item EXCEPT !.elapsed = Aged.elapsed, !.clock = Aged.clock,
                                  !.suspended = Aged.suspended, !.score = Aged.score]
          /\ races' = IF Sla(item) = Sla(tick.row) THEN races ELSE races \cup {"clock"}
  /\ tick' = Rest
  /\ UNCHANGED <<now, request, claimed, announced, log, spent, kept, served>>

(* The process stops: requests and the tick are gone.                      *)
Crash == /\ tick # Rest
         /\ tick' = Rest
         /\ request' = [r \in Requests |-> Rest]
         /\ UNCHANGED <<now, item, claimed, announced, log, spent, kept, races, served>>

Next == \/ Minute \/ Read \/ Publish \/ Write \/ Crash
        \/ \E kind \in Kinds : Announce(kind)
        \/ \E r \in Requests :
             \/ Move(r) \/ Edit(r)
             \/ \E to \in States : \/ \E at \in 0 .. MaxTime : BeginSourceChange(r, to, at)
                                    \/ \E s \in BOOLEAN : BeginMove(r, to, s)
             \/ \E f \in Fields, v \in 0 .. 1 : BeginEdit(r, f, v)

Spec == Init /\ [][Next]_vars

-----------------------------------------------------------------------------
TypeOK ==
  /\ now \in 0 .. MaxTime /\ spent \in 0 .. MaxTime
  /\ item \in [status : States, entered : 0 .. MaxTime, elapsed : Nat, clock : 0 .. NoClock,
               suspended : BOOLEAN, score : Nat, fields : [Fields -> 0 .. 1], origin : Origins]
  /\ \A r \in Requests : request[r].stage \in {"rest", "move", "edit"}
  /\ tick.stage \in {"rest", "announce", "publish"}
  /\ log \in Seq(States \X States) /\ races \subseteq {"fields", "clock"}

(* However requests and source changes interleave, the audited changes of  *)
(* state form one path of the workflow that ends where the item is, and a  *)
(* state that demands the summary has it unless an edit or a change was    *)
(* based on fields read before.  (workflow.service.ts:503, 329)            *)
HistoryIsPath ==
  /\ \A k \in 1 .. Len(log) : log[k][1] = IF k = 1 THEN Initial ELSE log[k - 1][2]
  /\ item.status = IF log = << >> THEN Initial ELSE log[Len(log)][2]
  /\ item.origin = "local" => \A k \in 1 .. Len(log) : log[k] \in Edges
  /\ "fields" \notin races => item.fields = kept

(* Time on hold is never counted and time in work never lost, over changes *)
(* of state, told late or not, and ticks, unless one of them wrote a clock *)
(* it had computed from an older row.                                      *)
(* (workflow.service.ts:451, aging-engine.service.ts:265)                  *)
HoldIsFree ==
  races = {} /\ item.status \in Timed =>
    spent = item.elapsed + IF item.suspended THEN 0 ELSE now - Clock(item)

(* One announcement of a kind per entry into a state, across ticks and     *)
(* restarts, and only of a state with a policy.  (aging-engine.service.ts: *)
(* 33)                                                                     *)
AnnouncedOnce ==
  /\ \A j, k \in 1 .. Len(announced) : announced[j] = announced[k] => j = k
  /\ \A k \in 1 .. Len(announced) : announced[k][1] \in Timed
=============================================================================
