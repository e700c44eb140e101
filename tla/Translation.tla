----------------------------- MODULE Translation -----------------------------
(***************************************************************************)
(* What one record's change becomes on its counterpart: the versioned      *)
(* state mappings (integrations/state-mapping.service.ts), the versioned   *)
(* field mappings (connectors/mapping), and the part of a work order that  *)
(* evaluates both before it writes.  Drafts are published, and a schema is *)
(* discovered again, while orders are between two of their reads.          *)
(***************************************************************************)
EXTENDS Naturals, Sequences, FiniteSets

CONSTANTS Orders,      \* work orders, each one change to carry over
          Way,         \* Way[o]: the direction the change of o travels, in Ways
          Content,     \* Content[o]: the source's value of every field
          Managers,    \* people who publish
          Drafts,      \* Drafts[k]: the rules of the draft that becomes row k; bounds the rows
          Fields,      \* field paths
          States,      \* states of the records
          Schemas,     \* what a discovery may find at an endpoint
          Budgets      \* bounds: what may go wrong in one behaviour

VARIABLES defn,    \* the rows of both definition tables
          manager, \* where a publication is, and what it has read
          schema,  \* the fields last discovered at an endpoint
          order,   \* where a work order is, and what it has read
          budget   \* troubles left

vars == <<defn, manager, schema, order, budget>>

-----------------------------------------------------------------------------
(* A mapping from A to B serves both directions: its rules say which.      *)
Ways == {"AB", "BA"}
Source(way) == IF way = "AB" THEN "A" ELSE "B"
Target(way) == IF way = "AB" THEN "B" ELSE "A"
Direction(pair, way) == IF pair = way THEN "source_to_target" ELSE "target_to_source"

Unknown == {"never discovered"}
Has(found, field) == found = Unknown \/ field \in found

(* A value that is there and not blank.                                    *)
HasValue(value) == value \notin {"none", "blank"}

(* State rules: at most one for a direction and state.  Field rules: a     *)
(* sequence without one direction, source and target twice.                *)
Directions == {"source_to_target", "target_to_source"}
StateRule == [direction : Directions, from : States, to : States,
              required : SUBSET Fields, allowed : SUBSET States]
FieldRule == [direction : Directions, from : Fields, to : Fields, by : {"direct", "table", "constant"}]
Keys == DOMAIN Drafts
NormalStates(rules) == /\ rules # {} /\ rules \subseteq StateRule
                       /\ \A r, s \in rules : r.direction = s.direction /\ r.from = s.from => r = s
NormalFields(rules) ==
  /\ rules # << >> /\ rules \in Seq(FieldRule)
  /\ \A i, j \in 1 .. Len(rules) : (/\ rules[i].direction = rules[j].direction
                                    /\ rules[i].from = rules[j].from /\ rules[i].to = rules[j].to) => i = j
Rows(kind, pair, status) ==
  {k \in Keys : k.kind = kind /\ k.pair = pair /\ defn[k] = status}
NoKey == [kind |-> "none", pair |-> "none", version |-> 0]

(* ORDER BY version DESC LIMIT 1, over the mappings of both directions; of *)
(* two with one version the database returns either.                       *)
Found(kind) ==
  LET all == Rows(kind, "AB", "published") \cup Rows(kind, "BA", "published")
      top == {k \in all : \A j \in all : j.version <= k.version}
  IN IF top = {} THEN {NoKey} ELSE top

-----------------------------------------------------------------------------
(* What a field mapping makes of a record: the rules of one direction, in  *)
(* order; the last to write a field wins, and one that cannot be resolved  *)
(* holds them all.                                                         *)
Unresolved(rule, content) == rule.by = "table" /\ content[rule.from] = "odd"
Applies(rule, direction, content) == rule.direction = direction /\ HasValue(content[rule.from])
Value(rule, content) ==
  CASE rule.by = "direct" -> content[rule.from] [] rule.by = "table" -> "known" [] OTHER -> "blank"

IsHeldMutant(rules, direction, content, found) ==
  \E i \in 1 .. Len(rules) : rules[i].direction = direction /\ Unresolved(rules[i], content)
IsHeld(rules, direction, content, found) ==
  \E i \in 1 .. Len(rules) : rules[i].direction = direction
                            /\ (~Has(found, rules[i].to) \/ Unresolved(rules[i], content))
Mapped(rules, direction, content) ==
  LET applied == SelectSeq(rules, LAMBDA r : Applies(r, direction, content))
      Last(f) == CHOOSE i \in 1 .. Len(applied) :
                   applied[i].to = f /\ \A j \in i + 1 .. Len(applied) : applied[j].to # f
  IN [f \in {applied[i].to : i \in 1 .. Len(applied)} |-> Value(applied[Last(f)], content)]

(* The spread of one object over another.                                  *)
Over(above, below) == [f \in DOMAIN above \cup DOMAIN below |->
                         IF f \in DOMAIN above THEN above[f] ELSE below[f]]

MissingMutant(rule, content, mapped) ==
  {f \in rule.required : ~HasValue(Over(content, mapped)[f])}
Missing(rule, content, mapped) == {f \in rule.required : ~HasValue(Over(mapped, content)[f])}
Refused(rule, current) == rule.allowed # {} /\ current \notin rule.allowed

-----------------------------------------------------------------------------
Free == [step |-> "free", key |-> NoKey, marked |-> {}]
Fresh == [step |-> "queued", key |-> NoKey, held |-> FALSE, fields |-> << >>, state |-> "none",
          required |-> {}, seen |-> Unknown]

Init == /\ defn = [k \in Keys |-> "none"]
        /\ manager = [m \in Managers |-> Free]
        /\ schema = [e \in {"A", "B"} |-> Unknown]
        /\ order = [o \in Orders |-> Fresh]
        /\ budget \in Budgets

(***************************************************************************)
(* Drafts and publication.  A transaction reads what is committed when a   *)
(* statement starts, and waits for the rows another one has changed.       *)
(***************************************************************************)

(* Two drafts that draw one version collide on the key, and one fails.     *)
CreateDraft(k) ==
  /\ defn[k] = "none"
  /\ IF k.kind = "state" THEN NormalStates(Drafts[k]) ELSE NormalFields(Drafts[k])
  /\ \A j \in Keys : (j.kind = k.kind /\ j.pair = k.pair /\ j.version < k.version) => defn[j] # "none"
  /\ defn' = [defn EXCEPT ![k] = "draft"]
  /\ UNCHANGED <<manager, schema, order, budget>>

Enter(m, step) == manager' = [manager EXCEPT ![m].step = step]

(* A superseded mapping is refused and a published one is returned as is.  *)
BeginPublish(m, k) ==
  /\ manager[m].step = "free" /\ defn[k] = "draft"
  /\ manager' = [manager EXCEPT ![m] =
                   [Free EXCEPT !.step = IF k.kind = "field" THEN "check" ELSE "supersede", !.key = k]]
  /\ UNCHANGED <<defn, schema, order, budget>>

(* Every rule's target is looked up at the mapping's target, also that of  *)
(* a rule which writes the other way.                                      *)
CheckSchema(m) ==
  LET k == manager[m].key
      rules == Drafts[k]
      unknown == {i \in 1 .. Len(rules) : ~Has(schema[Target(k.pair)], rules[i].to)}
  IN /\ manager[m].step = "check"
     /\ IF unknown = {} THEN Enter(m, "guard") ELSE manager' = [manager EXCEPT ![m] = Free]
     /\ UNCHANGED <<defn, schema, order, budget>>

Guard(m) ==
  /\ manager[m].step = "guard"
  /\ IF defn[manager[m].key] = "draft" THEN Enter(m, "supersede")
     ELSE manager' = [manager EXCEPT ![m] = Free]
  /\ UNCHANGED <<defn, schema, order, budget>>

SupersedeMutant(m) ==
  /\ manager[m].step = "supersede"
  /\ defn' = [j \in Keys |-> IF j \in Rows(manager[m].key.kind, manager[m].key.pair, "published")
                            THEN "superseded" ELSE defn[j]]
  /\ Enter(m, "commit")
  /\ UNCHANGED <<schema, order, budget>>
Supersede(m) ==
  /\ manager[m].step = "supersede"
  /\ manager' = [manager EXCEPT ![m].step = "commit",
                   ![m].marked = Rows(manager[m].key.kind, manager[m].key.pair, "published")]
  /\ UNCHANGED <<defn, schema, order, budget>>

(* The rows another transaction superseded meanwhile are left alone.       *)
After(m) == LET k == manager[m].key IN
  [j \in Keys |-> IF j = k THEN "published"
                  ELSE IF j \in manager[m].marked THEN "superseded"
                  ELSE defn[j]]
CommitPublish(m) ==
  /\ manager[m].step = "commit"
  /\ defn' = After(m)
  /\ manager' = [manager EXCEPT ![m] = Free]
  /\ UNCHANGED <<schema, order, budget>>

(* A statement or the commit fails, or the process stops: nothing of the   *)
(* transaction remains.                                                    *)
Abandon(m) == /\ manager[m].step # "free" /\ "abandon" \in budget
              /\ budget' = budget \ {"abandon"}
              /\ manager' = [manager EXCEPT ![m] = Free]
              /\ UNCHANGED <<defn, schema, order>>

Discover(endpoint, found) ==
  /\ "discover" \in budget /\ found # schema[endpoint]
  /\ budget' = budget \ {"discover"}
  /\ schema' = [schema EXCEPT ![endpoint] = found]
  /\ UNCHANGED <<defn, manager, order>>

(***************************************************************************)
(* The work order.                                                         *)
(***************************************************************************)

Steps(o, from, to) == order[o].step = from /\ order' = [order EXCEPT ![o].step = to]

ReadFieldMapping(o, k) ==
  /\ order[o].step = "queued" /\ k \in Found("field")
  /\ order' = [order EXCEPT ![o].step = IF k = NoKey THEN "state" ELSE "fields", ![o].key = k]
  /\ UNCHANGED <<defn, manager, schema, budget>>

(* The schema is read after the mapping; the rules of a row never change.  *)
MapFields(o) ==
  LET k == order[o].key
      direction == Direction(k.pair, Way[o])
      found == schema[Target(Way[o])]
  IN /\ order[o].step = "fields"
     /\ order' = [order EXCEPT ![o] = [@ EXCEPT !.step = "state", !.seen = found,
                    !.held = IsHeld(Drafts[k], direction, Content[o], found),
                    !.fields = Mapped(Drafts[k], direction, Content[o])]]
     /\ UNCHANGED <<defn, manager, schema, budget>>

(* translate with dry_run off: its decision is a row of its own, and what  *)
(* the order needs of it is read back.  Held fields do not fill a state's  *)
(* required ones.  An order that carries no state skips it.                *)
Given(o) == IF order[o].held THEN << >> ELSE order[o].fields
MapState(o, k, from, current) ==
  LET direction == Direction(k.pair, Way[o])
      rules == {r \in Drafts[k] : r.direction = direction /\ r.from = from}
  IN /\ order[o].step = "state" /\ k \in Found("state")
     /\ order' = [order EXCEPT ![o] =
          IF \/ k = NoKey \/ rules = {}
             \/ \E r \in rules : Missing(r, Content[o], Given(o)) # {} \/ Refused(r, current)
          THEN [@ EXCEPT !.step = "hold"]
          ELSE LET r == CHOOSE r \in rules : TRUE IN
               [@ EXCEPT !.step = "settle", !.state = r.to, !.required = r.required]]
     /\ UNCHANGED <<defn, manager, schema, budget>>
NoState(o) == /\ Steps(o, "state", "settle")
              /\ UNCHANGED <<defn, manager, schema, budget>>

(* The required fields the source has, under what the mapping gives.       *)
Written(o) == Over(Given(o), [f \in {g \in order[o].required : Content[o][g] # "none"} |-> Content[o][f]])
(* Nothing is written without a field when the state, if there is one, is  *)
(* the one the record already has.                                         *)
Settle(o) ==
  /\ order[o].step = "settle"
  /\ \/ /\ order[o].held
        /\ order' = [order EXCEPT ![o].step = "hold"]
     \/ /\ ~order[o].held /\ DOMAIN Written(o) = {}
        /\ order' = [order EXCEPT ![o].step = "noop"]
     \/ /\ ~order[o].held /\ (order[o].state # "none" \/ DOMAIN Written(o) # {})
        /\ order' = [order EXCEPT ![o].step = "push", ![o].fields = Written(o)]
  /\ UNCHANGED <<defn, manager, schema, budget>>

(* A push that fails is tried again with what is stored.                   *)
Push(o) == /\ Steps(o, "push", "written")
           /\ UNCHANGED <<defn, manager, schema, budget>>

(* An order interrupted before it stored its translation starts over, and  *)
(* so does one put back by an operator.                                    *)
Interrupt(o) == /\ order[o].step \in {"fields", "state", "settle", "hold"}
                /\ "interrupt" \in budget /\ budget' = budget \ {"interrupt"}
                /\ order' = [order EXCEPT ![o] = Fresh]
                /\ UNCHANGED <<defn, manager, schema>>

-----------------------------------------------------------------------------
Next ==
  \/ \E k \in Keys : CreateDraft(k)
  \/ \E m \in Managers :
       \/ \E k \in Keys : BeginPublish(m, k)
       \/ CheckSchema(m) \/ Guard(m) \/ Supersede(m) \/ CommitPublish(m) \/ Abandon(m)
  \/ \E e \in {"A", "B"}, found \in Schemas : Discover(e, found)
  \/ \E o \in Orders :
       \/ \E k \in Keys \cup {NoKey} : \/ ReadFieldMapping(o, k)
                                       \/ \E s, t \in States : MapState(o, k, s, t)
       \/ MapFields(o) \/ NoState(o) \/ Settle(o) \/ Push(o) \/ Interrupt(o)
Spec == Init /\ [][Next]_vars

-----------------------------------------------------------------------------
TypeOK ==
  /\ defn \in [Keys -> {"none", "draft", "published", "superseded"}]
  /\ \A m \in Managers : /\ manager[m].step \in {"free", "check", "guard", "supersede", "commit"}
                         /\ manager[m].key \in Keys \cup {NoKey} /\ manager[m].marked \subseteq Keys
  /\ schema \in [{"A", "B"} -> Schemas \cup {Unknown}]
  /\ \A o \in Orders : /\ order[o].step \in {"queued", "fields", "state", "settle", "hold", "noop", "push", "written"}
                       /\ order[o].required \subseteq Fields /\ order[o].state \in States \cup {"none"}
                       /\ DOMAIN order[o].fields \subseteq Fields

(* A write that changes the state fills every field the state requires,    *)
(* whichever mappings were published between its reads; and it gives only  *)
(* fields the target had when they were evaluated, none of a translation   *)
(* that was held.  (connector.service.ts:1722, field-mapping-evaluator.ts:32) *)
WriteIsComplete ==
  \A o \in Orders : order[o].step \in {"push", "written"} =>
    /\ \A f \in order[o].required : f \in DOMAIN order[o].fields /\ HasValue(order[o].fields[f])
    /\ \A f \in DOMAIN order[o].fields \ order[o].required : Has(order[o].seen, f)

(* A pair that has a published mapping is never left without one: the old  *)
(* version goes and the new one comes in one transaction, however the      *)
(* publications overlap or end.  (state-mapping.service.ts:125,            *)
(* field-mapping.service.ts:152)                                           *)
NeverUnpublished == [][\A kind \in {"state", "field"}, pair \in Ways :
  Rows(kind, pair, "published") # {} => Rows(kind, pair, "published")' # {}]_defn
=============================================================================
