---------------------------- MODULE Correlation ----------------------------
(***************************************************************************)
(* The identity graph of records that live elsewhere                       *)
(* (integrations/correlation.service.ts): pairs created at the same time,  *)
(* whose transactions meet on the rows of their nodes, and the walk that   *)
(* resolves an identity query by query while pairs are added.              *)
(***************************************************************************)
EXTENDS Naturals, FiniteSets

CONSTANTS Nodes,    \* identities: (system, entity_type, immutable_id)
          Names,    \* display keys; a caller may give none
          Callers,  \* concurrent calls of createPair
          Asks,     \* the pairs that are asked for, as [source, target, relationship]
          MaxDepth, \* MAX_CORRELATION_DEPTH
          MaxCalls  \* bound: calls of createPair

VARIABLES node,  \* rows of integration_correlation_nodes: the display key
          links, \* rows of integration_correlation_links
          lock,  \* the call whose transaction has written a node's row
          pair,  \* calls of createPair
          walk,  \* a call of resolve
          pairs  \* calls of createPair so far

vars == <<node, links, lock, pair, walk, pairs>>

Rest == [stage |-> "rest"]
Absent == "absent"
Unnamed == "unnamed"
Rows == {n \in Nodes : node[n] # Absent}

Init == /\ node = [n \in Nodes |-> Absent] /\ links = {}
        /\ lock = [n \in Nodes |-> "free"]
        /\ pair = [c \in Callers |-> Rest] /\ walk = Rest
        /\ pairs = 0

(* COALESCE: a name that is not given leaves the one that is there.        *)
Coalesce(name, old) == IF name # Unnamed THEN name ELSE IF old = Absent THEN Unnamed ELSE old

-----------------------------------------------------------------------------
(* createPair refuses a record paired with itself.                         *)
Begin(c, ask, name) == /\ pair[c] = Rest /\ pairs < MaxCalls
                       /\ ask.source # ask.target
                       /\ pairs' = pairs + 1
                       /\ pair' = [pair EXCEPT ![c] = [stage |-> "source", ask |-> ask, name |-> name,
                                                       new |-> [n \in {} |-> Unnamed]]]
                       /\ UNCHANGED <<node, links, lock, walk>>

(* The upsert of a node locks its row, or the place it is to have, until   *)
(* the transaction ends.                                                   *)
Needed(c) == CASE pair[c].stage = "source" -> {pair[c].ask.source}
               [] pair[c].stage = "target" -> {pair[c].ask.target}
               [] OTHER -> {}
Held(c) == {n \in Nodes : lock[n] = c}
FreeMutant(n) == TRUE
Free(n) == lock[n] = "free"
Upsert(c) == \E n \in Needed(c) :
  LET row == Coalesce(pair[c].name, node[n]) IN
  /\ Free(n)
  /\ lock' = [lock EXCEPT ![n] = c]
  /\ pair' = [pair EXCEPT ![c].stage = IF @ = "source" THEN "target" ELSE "find",
                          ![c].new = [m \in DOMAIN @ \cup {n} |-> IF m = n THEN row ELSE @[m]]]
  /\ UNCHANGED <<node, links, walk, pairs>>

Unlock(c) == lock' = [n \in Nodes |-> IF lock[n] = c THEN "free" ELSE lock[n]]
Abort(c) == /\ Unlock(c) /\ pair' = [pair EXCEPT ![c] = Rest]
            /\ UNCHANGED <<node, links, walk, pairs>>
(* Two calls that wait for each other: the database ends one.              *)
Deadlock(c) == /\ \E d \in Callers \ {c} : /\ \E n \in Needed(c) : lock[n] = d
                                           /\ \E n \in Needed(d) : lock[n] = c
               /\ Abort(c)

(* A counterpart is the same pair in either direction.                     *)
ExistingMutant(ask) == {l \in links : l = ask}
Existing(ask) == {l \in links : /\ l.relationship = ask.relationship
                                /\ \/ l.source = ask.source /\ l.target = ask.target
                                   \/ /\ ask.relationship = "counterpart"
                                      /\ l.source = ask.target /\ l.target = ask.source}
Find(c) == /\ pair[c].stage = "find"
           /\ pair' = [pair EXCEPT ![c].stage = IF Existing(pair[c].ask) = {} THEN "insert" ELSE "commit"]
           /\ UNCHANGED <<node, links, lock, walk, pairs>>
Commit(c) == /\ pair[c].stage \in {"insert", "commit"}
             /\ links' = IF pair[c].stage = "insert" THEN links \cup {pair[c].ask} ELSE links
             /\ node' = [n \in Nodes |-> IF n \in DOMAIN pair[c].new THEN pair[c].new[n] ELSE node[n]]
             /\ Unlock(c) /\ pair' = [pair EXCEPT ![c] = Rest]
             /\ UNCHANGED <<walk, pairs>>

(* A synchronization registers a node, an operator renames one.            *)
UpsertNode(n, name) == /\ name # Unnamed /\ lock[n] = "free"
                       /\ node' = [node EXCEPT ![n] = Coalesce(name, @)]
                       /\ UNCHANGED <<links, lock, pair, walk, pairs>>
UpdateMetadata(n, name) == /\ n \in Rows /\ lock[n] = "free"
                           /\ node' = [node EXCEPT ![n] = name]
                           /\ UNCHANGED <<links, lock, pair, walk, pairs>>

-----------------------------------------------------------------------------
(* resolve: one query for a frontier, up to the depth asked for.           *)
TouchesMutant(l, ns) == l.source \in ns
Touches(l, ns) == l.source \in ns \/ l.target \in ns
BeginWalk(root, depth) ==
  /\ walk = Rest /\ root \in Rows
  /\ walk' = [stage |-> "walking", depth |-> depth, distance |-> 1, frontier |-> {root},
              nodes |-> [n \in {root} |-> 0], links |-> {}, before |-> links]
  /\ UNCHANGED <<node, links, lock, pair, pairs>>
Following == walk.stage = "walking" /\ walk.distance <= walk.depth /\ walk.frontier # {}
Expand ==
  LET found == {l \in links : Touches(l, walk.frontier)}
      ends == UNION {{l.source, l.target} : l \in found} \ DOMAIN walk.nodes
  IN  /\ walk.stage = "walking" /\ Following
      /\ walk' = [walk EXCEPT !.distance = @ + 1, !.frontier = ends,
                              !.nodes = [n \in DOMAIN @ \cup ends |-> IF n \in ends THEN walk.distance ELSE @[n]],
                              !.links = @ \cup found]
      /\ UNCHANGED <<node, links, lock, pair, pairs>>
EndWalk == /\ walk.stage = "walking" /\ ~Following
           /\ walk' = [walk EXCEPT !.stage = "done"]
           /\ UNCHANGED <<node, links, lock, pair, pairs>>

Next == \/ \E c \in Callers : \/ \E ask \in Asks, name \in Names \cup {Unnamed} : Begin(c, ask, name)
                              \/ Upsert(c) \/ Deadlock(c) \/ Find(c) \/ Commit(c)
        \/ \E n \in Nodes, name \in Names \cup {Unnamed} : UpsertNode(n, name) \/ UpdateMetadata(n, name)
        \/ \E n \in Nodes, depth \in 1 .. MaxDepth : BeginWalk(n, depth)
        \/ Expand \/ EndWalk

-----------------------------------------------------------------------------
TypeOK == /\ node \in [Nodes -> Names \cup {Unnamed, Absent}]
          /\ links \subseteq Asks /\ lock \in [Nodes -> Callers \cup {"free"}]
          /\ walk = Rest \/ (DOMAIN walk.nodes \subseteq Nodes /\ walk.links \subseteq links)

(* Two records are counterparts by one link, whichever of them is the      *)
(* source, however the calls that pair them interleave; and a link's nodes *)
(* are there.                                                              *)
OneCounterpart == /\ \A l, k \in {m \in links : m.relationship = "counterpart"} :
                       {l.source, l.target} = {k.source, k.target} => l = k
                  /\ \A l \in links : {l.source, l.target} \subseteq Rows

(* What resolve returns lies between the graph it started from and the     *)
(* graph at its end: every node the old links reach, no farther than they  *)
(* reach it, and none the new links do not, no nearer.                     *)
Near(ls, ns) == ns \cup UNION {{l.source, l.target} : l \in {k \in ls : {k.source, k.target} \cap ns # {}}}
Ball(ls, root, depth) ==
  LET ball[d \in 0 .. depth] == IF d = 0 THEN {root} ELSE Near(ls, ball[d - 1]) IN ball
WalkIsExact ==
  walk.stage = "done" =>
    LET root == CHOOSE n \in DOMAIN walk.nodes : walk.nodes[n] = 0
        old == Ball(walk.before, root, walk.depth)
        new == Ball(links, root, walk.depth)
    IN  /\ old[walk.depth] \subseteq DOMAIN walk.nodes
        /\ \A n \in DOMAIN walk.nodes, d \in 0 .. walk.depth :
             (n \in old[d] => walk.nodes[n] <= d) /\ (walk.nodes[n] = d => n \in new[d])
        /\ \A l \in walk.links : {l.source, l.target} \subseteq DOMAIN walk.nodes

(* A display key is never erased but by the operator who asks for it.      *)
KeyIsKept == [][\A n \in Nodes : node[n] \in Names /\ node'[n] \notin Names => UpdateMetadata(n, Unnamed)]_vars
=============================================================================
