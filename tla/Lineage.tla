------------------------------ MODULE Lineage ------------------------------
(***************************************************************************)
(* The links between work items and the reports that walk them: the        *)
(* lineage of an item and the stored export of its component               *)
(* (lineage/lineage.service.ts), and what an outage of a service reaches   *)
(* (lineage/impact.service.ts).  A walk asks for the links of one item at  *)
(* a time, and people add links meanwhile.  The filter of link types a     *)
(* caller may give is left out.                                            *)
(***************************************************************************)
EXTENDS Naturals, Sequences, FiniteSets

CONSTANTS Items,
          ItemType, \* ItemType[i]: the type of item i
          Asks,     \* the links people ask for, as [source, target, type]
          Affected, \* items with an `affects' edge to the service
          MaxDepth, \* the greatest depth asked for
          MaxLinks  \* bound: links

VARIABLES links,   \* rows of work_item_links, in the order of their creation
          walk,    \* a report in progress, or as it was returned
          exported \* the report stored in lineage_exports

vars == <<links, walk, exported>>

Rest == [stage |-> "rest"]
None == [nodes |-> << >>, edges |-> {}]

(* ALLOWED_EDGES_BY_PAIR, for stories, incidents and releases.             *)
AllowedEdges(pair) ==
  CASE pair = <<"story", "story">> -> {"parent_of", "child_of", "blocks", "blocked_by", "relates_to", "duplicate_of",
                                        "fixed_by", "deployed_in"}
    [] pair \in {<<"story", "incident">>, <<"incident", "story">>} ->
         {"parent_of", "child_of", "blocks", "blocked_by", "relates_to", "caused_by", "fixed_by", "affects"}
    [] pair = <<"incident", "incident">> ->
         {"parent_of", "child_of", "blocks", "blocked_by", "relates_to", "caused_by", "duplicate_of", "affects"}
    [] pair = <<"release", "release">> -> {"parent_of", "child_of", "blocks", "blocked_by", "relates_to"}
    [] pair \in {<<"release", "incident">>, <<"incident", "release">>} -> {"relates_to", "caused_by", "affects"}
    [] pair = <<"story", "release">> -> {"child_of", "relates_to", "deployed_in"}
    [] pair = <<"release", "story">> -> {"parent_of", "relates_to"}
    [] OTHER -> {"relates_to"}

CreateLink(l) == /\ Len(links) < MaxLinks
                 /\ l.type \in AllowedEdges(<<ItemType[l.source], ItemType[l.target]>>)
                 /\ links' = Append(links, l)
                 /\ UNCHANGED <<walk, exported>>

-----------------------------------------------------------------------------
(* getNextNodeId.                                                          *)
Other(l, i) == IF l.source = i THEN l.target ELSE l.source
SourceIsBelow == {"child_of", "blocked_by", "caused_by", "fixed_by", "deployed_in", "duplicate_of"}
SourceIsAbove == {"parent_of", "blocks", "affects"}
GoesMutant(l, i, direction) == l.type = "relates_to" \/ (l.source = i) = (direction = "up")
Goes(l, i, direction) ==
  \/ l.type = "relates_to"
  \/ l.type \in SourceIsBelow /\ (l.source = i) = (direction = "up")
  \/ l.type \in SourceIsAbove /\ (l.source = i) = (direction = "down")

(* Which links a walk follows from an item, and how far.                   *)
Follows(w, l, i) == /\ i \in {l.source, l.target}
                    /\ w.kind = "lineage" => Goes(l, i, w.direction)
DeepMutant(w, i) == w.kind = "export" \/ w.distance[i] <= w.depth
Deep(w, i) == w.kind = "export" \/ w.distance[i] < w.depth

Begin(kind, direction, depth, roots, at) ==
  /\ walk = Rest
  /\ \E queue \in {q \in [1 .. Cardinality(roots) -> roots] : {q[n] : n \in DOMAIN q} = roots} :
       walk' = [stage |-> "walking", kind |-> kind, direction |-> direction, depth |-> depth, roots |-> roots, first |-> at,
                queue |-> queue, order |-> queue, distance |-> [i \in roots |-> at], via |-> [i \in roots |-> << >>],
                edges |-> {}, before |-> Len(links)]
  /\ UNCHANGED <<links, exported>>
BeginLineage(i, direction, depth) == Begin("lineage", direction, depth, {i}, 0)
BeginExport(i) == Begin("export", "both", 0, {i}, 0)
BeginImpact(depth) == Begin("impact", "both", depth, Affected, 1)

(* One item of the queue: its links in the order of their creation, each   *)
(* new item at the end of the queue, with the links that led to it.        *)
Rows(i) == {n \in DOMAIN links : Follows(walk, links[n], i)}
FirstTo(i, j) == CHOOSE n \in Rows(i) : Other(links[n], i) = j /\ \A m \in Rows(i) : Other(links[m], i) = j => n <= m
NewFrom(i) == {Other(links[n], i) : n \in Rows(i)} \ DOMAIN walk.distance
Appended(i) == CHOOSE seq \in [1 .. Cardinality(NewFrom(i)) -> NewFrom(i)] :
                 \A m, n \in DOMAIN seq : m < n => FirstTo(i, seq[m]) < FirstTo(i, seq[n])
Visit ==
  LET i == Head(walk.queue)
      new == IF Deep(walk, i) THEN NewFrom(i) ELSE {}
      seq == IF Deep(walk, i) THEN Appended(i) ELSE << >>
  IN  /\ walk.stage = "walking" /\ walk.queue # << >>
      /\ walk' = [walk EXCEPT
           !.queue = Tail(@) \o seq, !.order = @ \o seq,
           !.edges = IF Deep(walk, i) THEN @ \cup Rows(i) ELSE @,
           !.distance = [j \in DOMAIN @ \cup new |-> IF j \in new THEN @[i] + 1 ELSE @[j]],
           !.via = [j \in DOMAIN @ \cup new |-> IF j \in new THEN Append(@[i], FirstTo(i, j)) ELSE @[j]]]
      /\ UNCHANGED <<links, exported>>
Return == /\ walk.stage = "walking" /\ walk.queue = << >>
          /\ walk' = [walk EXCEPT !.stage = "done"]
          /\ exported' = IF walk.kind = "export" THEN [nodes |-> walk.order, edges |-> walk.edges] ELSE exported
          /\ UNCHANGED links

Init == links = << >> /\ walk = Rest /\ exported = None

Next == \/ \E l \in Asks : CreateLink(l)
        \/ \E i \in Items : BeginExport(i) \/ (\E d \in {"up", "down"}, depth \in 1 .. MaxDepth : BeginLineage(i, d, depth))
        \/ \E depth \in 1 .. MaxDepth : BeginImpact(depth)
        \/ Visit \/ Return

-----------------------------------------------------------------------------
TypeOK == /\ links \in Seq(Asks) /\ Len(links) <= MaxLinks
          /\ exported.edges \subseteq DOMAIN links

(* The items that the first n links reach within d steps: from an item to  *)
(* the one above it, to the one below it, or to either.                    *)
Above(l) == CASE l.type = "relates_to" -> {<<l.source, l.target>>, <<l.target, l.source>>}
              [] l.type \in SourceIsBelow -> {<<l.source, l.target>>}
              [] OTHER -> {<<l.target, l.source>>}
Leads(l, i, j) == (walk.direction # "down" /\ <<i, j>> \in Above(l)) \/ (walk.direction # "up" /\ <<j, i>> \in Above(l))
Reached(n, bound) ==
  LET ball[d \in 0 .. bound] ==
        IF d = 0 THEN walk.roots
        ELSE LET near == ball[d - 1]
             IN  near \cup {j \in Items : \E i \in near, k \in 1 .. n : Leads(links[k], i, j)}
  IN ball
Bound == IF walk.kind = "export" THEN Cardinality(Items) ELSE walk.depth - walk.first

(* A report has every item the links at its start reach, no farther than   *)
(* they do, and none that the links at its end do not; so one that no link *)
(* was added to is exact.                                                  *)
ReportIsBounded ==
  walk.stage = "done" =>
    LET old == Reached(walk.before, Bound)
        new == Reached(Len(links), Bound)
        At(i) == walk.distance[i] - walk.first
    IN  /\ old[Bound] \subseteq DOMAIN walk.distance /\ DOMAIN walk.distance \subseteq new[Bound]
        /\ \A i \in DOMAIN walk.distance, d \in 0 .. Bound :
             (i \in old[d] => At(i) <= d) /\ (At(i) = d => i \in new[d])

(* What a report says of its links: it names both their items, it has all  *)
(* the old links of an exported component, and the links that implicate an *)
(* item lead from a first item to it.                                      *)
ReportIsExplained ==
  walk.stage = "done" =>
    /\ \A n \in walk.edges : {links[n].source, links[n].target} \subseteq DOMAIN walk.distance
    /\ walk.kind = "export" => \A n \in 1 .. walk.before : links[n].source \in DOMAIN walk.distance => n \in walk.edges
    /\ \A i \in DOMAIN walk.distance :
         LET via == walk.via[i]
             path[k \in 0 .. Len(via)] == IF k = 0 THEN i ELSE Other(links[via[Len(via) + 1 - k]], path[k - 1])
         IN  /\ Len(via) = walk.distance[i] - walk.first /\ path[Len(via)] \in walk.roots
             /\ \A k \in 0 .. Len(via) : path[k] \in DOMAIN walk.distance
=============================================================================
