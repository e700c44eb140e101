---------------------------- MODULE Definitions ----------------------------
(***************************************************************************)
(* The workflow definitions of one type of work item                       *)
(* (workflow/workflow.service.ts): what is refused, how a version is drawn *)
(* while others publish, and the items that live under their version while *)
(* newer ones appear.                                                      *)
(***************************************************************************)
EXTENDS Naturals, Sequences, FiniteSets

CONSTANTS Drafts,     \* definitions people try to publish: [states, initial, terminal, transitions]
          BuiltIn,    \* the definition the type has before any is published
          Roles,      \* roles of actors
          Publishers, \* concurrent calls of publishWorkflow
          Items,
          MaxRows     \* bound: publications

VARIABLES rows,      \* workflow_definitions of the type: [version, definition]
          publisher, \* calls that have read the newest version
          item,      \* the items, with history: the definition they were created under
          drawn      \* history: versions in the order they were inserted

vars == <<rows, publisher, item, drawn>>

Rest == [step |-> "rest"]
NoItem == [version |-> 0]

Init == /\ rows = {} /\ drawn = << >>
        /\ publisher = [p \in Publishers |-> Rest]
        /\ item = [i \in Items |-> NoItem]

-----------------------------------------------------------------------------
(* validateWorkflowDefinition: every state is declared, the initial one    *)
(* leads to each, and each leads to a terminal one.                        *)
Leads(def, from) ==
  LET near(set) == {t.to : t \in {u \in def.transitions : u.from \in set}}
      reach[n \in 0 .. Cardinality(def.states)] == IF n = 0 THEN from ELSE reach[n - 1] \cup near(reach[n - 1])
  IN  reach[Cardinality(def.states)]
CanFinish(def, state) == Leads(def, {state}) \cap def.terminal # {}
Declared(def) == /\ def.states # {} /\ def.initial \in def.states
                 /\ def.terminal # {} /\ def.terminal \subseteq def.states
                 /\ \A t \in def.transitions : {t.from, t.to} \subseteq def.states
ValidMutant(def) == Declared(def) /\ def.states \subseteq Leads(def, {def.initial})
Valid(def) == /\ Declared(def)
              /\ def.states \subseteq Leads(def, {def.initial})
              /\ \A s \in def.states : CanFinish(def, s)

(* The version is one more than the newest read; nothing makes it unique.  *)
Versions == {r.version : r \in rows}
DrawnMutant == IF Versions = {} THEN 0 ELSE 1 + CHOOSE v \in Versions : \A w \in Versions : w <= v
Drawn == IF Versions = {} THEN 1 ELSE 1 + CHOOSE v \in Versions : \A w \in Versions : w <= v
BeginPublish(p, def) == /\ publisher[p] = Rest /\ Len(drawn) < MaxRows /\ Valid(def)
                        /\ publisher' = [publisher EXCEPT ![p] = [step |-> "insert", definition |-> def, version |-> Drawn]]
                        /\ UNCHANGED <<rows, item, drawn>>
Publish(p) == /\ publisher[p] # Rest
              /\ rows' = rows \cup {[version |-> publisher[p].version, definition |-> publisher[p].definition]}
              /\ drawn' = Append(drawn, publisher[p].version)
              /\ publisher' = [publisher EXCEPT ![p] = Rest]
              /\ UNCHANGED item

(* The rows of a version, or of the newest; without any, the built-in one  *)
(* answers for the first version.  Of several the database returns any.    *)
Found(v) == LET of == {r.definition : r \in {s \in rows : s.version = v}} IN
            IF of = {} /\ v = 1 THEN {BuiltIn} ELSE of
Newest == IF Versions = {} THEN 1 ELSE Drawn - 1

Create(i) == /\ item[i] = NoItem
             /\ \E def \in Found(Newest) :
                  item' = [item EXCEPT ![i] = [version |-> Newest, status |-> def.initial, born |-> def]]
             /\ UNCHANGED <<rows, publisher, drawn>>

(* A transition is one of the item's version, open to the actor's role.    *)
Allows(t, role) == t.roles = {} \/ role \in t.roles
Move(i, role) == /\ item[i] # NoItem
                 /\ \E def \in Found(item[i].version) : \E t \in def.transitions :
                      /\ t.from = item[i].status /\ Allows(t, role)
                      /\ item' = [item EXCEPT ![i].status = t.to]
                 /\ UNCHANGED <<rows, publisher, drawn>>

Next == \/ \E p \in Publishers : Publish(p) \/ \E def \in Drafts : BeginPublish(p, def)
        \/ \E i \in Items : Create(i) \/ \E role \in Roles : Move(i, role)

-----------------------------------------------------------------------------
TypeOK == /\ \A r \in rows : r.definition \in Drafts /\ r.version \in 1 .. MaxRows
          /\ \A i \in Items : item[i] = NoItem \/ item[i].version \in 1 .. MaxRows

(* An item in flight keeps the workflow it began under, however many       *)
(* versions follow, unless two publications drew its version or the first  *)
(* publication took the version of the built-in one; and as long as it     *)
(* keeps it, some sequence of transitions finishes it.                     *)
Clashed(v) == Cardinality({n \in DOMAIN drawn : drawn[n] = v}) > 1
InFlightIsKept ==
  \A i \in {j \in Items : item[j] # NoItem} :
    LET own == item[i].born IN
    /\ own # BuiltIn /\ ~Clashed(item[i].version) => Found(item[i].version) = {own}
    /\ Found(item[i].version) = {own} => item[i].status \in own.states /\ CanFinish(own, item[i].status)
=============================================================================
