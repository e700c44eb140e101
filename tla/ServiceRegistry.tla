-------------------------- MODULE ServiceRegistry --------------------------
(***************************************************************************)
(* The catalogue of services and the edges from work items to them         *)
(* (services/service-registry.service.ts).  A registration reads the       *)
(* service by its key and then inserts or updates it; a new service and a  *)
(* new edge are announced in a step after the one that inserted them.      *)
(***************************************************************************)
EXTENDS Naturals, FiniteSets

CONSTANTS Keys,     \* keys of services
          Labels,   \* other labels a monitor may know a service by
          Teams,    \* teams that may own one
          Items,    \* work items
          Callers,  \* concurrent calls
          MaxCalls  \* bound: calls

VARIABLES service,   \* rows of services
          edges,     \* rows of work_item_service_links
          call,      \* calls in progress, with the row each has read
          told,      \* history: announcements of an edge or a service
          asked,     \* history: the labels given to registrations that succeeded
          owned,     \* history: the owner last given to one
          refused,   \* history: registrations the unique key refused
          overlap,   \* history: keys that two registrations worked on at once
          calls

vars == <<service, edges, call, told, asked, owned, refused, overlap, calls>>

Rest == [stage |-> "rest"]
NoService == [aliases |-> {}, owner |-> "none"]
NoTeam == "none"
Subjects == (Items \X Keys) \cup Keys
Known == {k \in Keys : service[k] # NoService}

Init == /\ service = [k \in Keys |-> NoService] /\ edges = {}
        /\ call = [c \in Callers |-> Rest]
        /\ told = [s \in Subjects |-> 0]
        /\ asked = [k \in Keys |-> {}] /\ owned = [k \in Keys |-> NoTeam]
        /\ refused = 0 /\ overlap = {} /\ calls = 0

(* normalizeAliases: the labels given, the name and the key.               *)
Aliases(k, labels) == labels \cup {k}
Busy(k) == \E c \in Callers : call[c].stage \in {"insert", "update"} /\ call[c].key = k
Begin(c) == call[c] = Rest /\ calls < MaxCalls /\ calls' = calls + 1
BeginRegister(c, k, labels, owner) ==
  /\ Begin(c)
  /\ call' = [call EXCEPT ![c] = [stage |-> IF service[k] = NoService THEN "insert" ELSE "update",
                                  key |-> k, row |-> service[k], labels |-> labels, owner |-> owner]]
  /\ overlap' = IF Busy(k) THEN overlap \cup {k} ELSE overlap
  /\ UNCHANGED <<service, edges, told, asked, owned, refused>>

(* Re-registering merges aliases and fills gaps; the owner that is not     *)
(* given stays as the row has it now.                                      *)
MergedMutant(row, now, labels, k, owner) == [aliases |-> Aliases(k, labels), owner |-> IF owner # NoTeam THEN owner ELSE now.owner]
Merged(row, now, labels, k, owner) ==
  [aliases |-> row.aliases \cup Aliases(k, labels), owner |-> IF owner # NoTeam THEN owner ELSE now.owner]
OwnerAfter(k, owner) == [owned EXCEPT ![k] = IF owner # NoTeam THEN owner ELSE @]
Announcing(subject) == [stage |-> "announce", subject |-> subject]
Register(c) ==
  LET k == call[c].key
      clash == call[c].stage = "insert" /\ service[k] # NoService
      new == Merged(call[c].row, service[k], call[c].labels, k, call[c].owner)
  IN  /\ call[c].stage \in {"insert", "update"}
      /\ IF clash
         THEN refused' = refused + 1 /\ UNCHANGED <<service, asked, owned>>
         ELSE /\ service' = [service EXCEPT ![k] = new]
              /\ asked' = [asked EXCEPT ![k] = @ \cup Aliases(k, call[c].labels)]
              /\ owned' = OwnerAfter(k, call[c].owner)
              /\ UNCHANGED refused
      /\ call' = [call EXCEPT ![c] = IF call[c].stage = "insert" /\ ~clash THEN Announcing(k) ELSE Rest]
      /\ UNCHANGED <<edges, told, overlap, calls>>

(* linkWorkItemToService: ON CONFLICT DO NOTHING, and only the call that   *)
(* inserted the edge announces it, if it does not stop before.             *)
LinkItem(c, i, k) == /\ Begin(c) /\ k \in Known
                     /\ edges' = edges \cup {<<i, k>>}
                     /\ call' = [call EXCEPT ![c] = IF <<i, k>> \in edges THEN Rest ELSE Announcing(<<i, k>>)]
                     /\ UNCHANGED <<service, told, asked, owned, refused, overlap>>
Announce(c) == /\ call[c].stage = "announce"
               /\ told' = [told EXCEPT ![call[c].subject] = @ + 1]
               /\ call' = [call EXCEPT ![c] = Rest]
               /\ UNCHANGED <<service, edges, asked, owned, refused, overlap, calls>>
Stop == /\ \E c \in Callers : call[c] # Rest
        /\ call' = [c \in Callers |-> Rest]
        /\ UNCHANGED <<service, edges, told, asked, owned, refused, overlap, calls>>

(* resolveService: a service any of whose labels is the candidate; of      *)
(* several, the database returns any.                                      *)
Resolved(label) == {k \in Known : label \in service[k].aliases}

Next == \/ \E c \in Callers :
             \/ \E k \in Keys, labels \in SUBSET Labels, owner \in Teams \cup {NoTeam} : BeginRegister(c, k, labels, owner)
             \/ Register(c) \/ Announce(c)
             \/ \E i \in Items, k \in Keys : LinkItem(c, i, k)
        \/ Stop

-----------------------------------------------------------------------------
TypeOK == /\ service \in [Keys -> [aliases : SUBSET (Labels \cup Keys), owner : Teams \cup {NoTeam}]]
          /\ edges \subseteq Items \X Keys

(* Re-registering discards nothing: every label a service was registered   *)
(* with resolves to it, and its owner is the last one given, unless two    *)
(* registrations of it overlapped.                                         *)
CatalogueIsKept == \A k \in Keys \ overlap : /\ \A label \in asked[k] : k \in Resolved(label)
                                             /\ service[k].owner = owned[k]

(* A service or an edge to one is announced at most once, by whoever       *)
(* inserted it.                                                            *)
EdgeToldOnce == \A s \in Subjects : told[s] <= 1 /\ (told[s] = 1 => s \in edges \cup Known)
=============================================================================
