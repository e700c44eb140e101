------------------------- MODULE IntakeQueueProofs -------------------------
(***************************************************************************)
(* Proofs about IntakeQueue, for every number of calls, records, changes   *)
(* and troubles.                                                           *)
(*                                                                         *)
(* 1. Shape: what an assignment to one call or one entry does to its       *)
(*    fields, one lemma for each form of assignment in the module.         *)
(* 2. Steps: for every action, that it keeps the types and which of the    *)
(*    footprints below it leaves alone (PagesStay, HandsStay, ...).        *)
(* 3. GeneralInv, without premises: the types, the troubles left, and what *)
(*    acceptance relies on. A change behind the watermark has an entry     *)
(*    because a call that is about to accept a page knows of every change  *)
(*    it does not hold that it is not older than what it will move the     *)
(*    watermark to (PagesRead).                                            *)
(* 4. SyncInv, as long as no process stalls beyond its lease or its claim  *)
(*    and every drain is one of a synchronization: a working call holds    *)
(*    the lease, so it is alone; the entry in its hand is claimed; and the *)
(*    version it read is still the twin's when it writes.                  *)
(* 5. PausesEarned, when in addition nothing is re-injected: a twin is     *)
(*    paused by a parked order or by a dead entry.                         *)
(***************************************************************************)
EXTENDS IntakeQueue, TLAPS

(* A call that has an entry in its hand has one of a change that happened. *)
RowsExist == \A p \in Pollers :
  poller[p].stage \in Processing \cup {"claim"} => poller[p].row \in DOMAIN changes
TypeInv == TypeOK /\ RowsExist

Pollings == poller \in [Pollers -> PollerType]
Entries == entry \in [Versions -> EntryType]

(* Only call p goes on.                                                    *)
Only(p) == \A q \in Pollers : q # p => poller'[q] = poller[q]

(* Call p goes on, to a state given field by field.                        *)
Now(p, s, k, l, v, a, n, P) ==
  /\ Pollings' /\ Only(p)
  /\ poller'[p].stage = s /\ poller'[p].kind = k /\ poller'[p].polled = l
  /\ poller'[p].row = v /\ poller'[p].attempt = a /\ poller'[p].seen = n /\ poller'[p].page = P

(* Only the entry of version v changes, to another status.                 *)
Becomes(v, outcome) ==
  /\ Entries'
  /\ entry'[v].status = outcome
  /\ \A u \in Versions : u # v => entry'[u] = entry[u]

(* What a step may leave alone.                                            *)
PagesStay ==
  /\ changes' = changes /\ cursor' = cursor
  /\ \A v \in Versions :
       /\ entry[v].status # "none" => entry'[v].status # "none"
       /\ entry'[v].status # "none" => entry[v].status # "none" \/ v \in DOMAIN changes
  /\ \A p \in Pollers : poller'[p].stage = "accept" => poller'[p] = poller[p]
HandsStay ==
  \A p \in Pollers : poller'[p].stage \in Processing =>
    poller[p].stage \in Processing /\ poller'[p].row = poller[p].row
WritesStay == \A p \in Pollers : poller'[p].stage = "write" => poller'[p] = poller[p]
EntriesStay == \A v \in Versions : entry'[v].status = entry[v].status
TwinsStay == twin' = twin
PausesStay == sync' = sync /\ parked' = parked
CallsStay == \A p \in Pollers : poller'[p].stage \in Working => poller[p].stage \in Working
KindsStay == \A p \in Pollers : poller'[p].kind \in {poller[p].kind, "sync"}
LeaseStays == lease' = lease
Spent == \A trouble \in Troubles : budget'[trouble] <= budget[trouble]
Quiet == /\ PagesStay /\ HandsStay /\ WritesStay /\ EntriesStay /\ TwinsStay /\ PausesStay
         /\ CallsStay /\ LeaseStays /\ Spent

(* Rounding down to the grain of the provider's clock keeps the order.     *)
LEMMA StampsAreOrdered ==
  ASSUME NEW a \in Nat, NEW b \in Nat, a <= b
  PROVE  Stamp(a) \in Nat /\ Stamp(b) \in Nat /\ Stamp(a) <= Stamp(b)
<1> DEFINE x == a + Grain - 1
           y == b + Grain - 1
<1>1. Grain \in Nat /\ Grain > 0
  BY BoundAssumption
<1>2. x \in Nat /\ y \in Nat /\ x <= y
  BY <1>1
<1>3. x \div Grain \in Nat /\ y \div Grain \in Nat
  BY <1>1, <1>2
<1>4. x \div Grain <= y \div Grain
  BY <1>1, <1>2
<1> QED
  BY <1>3, <1>4 DEF Stamp

(* What the type invariant says, in the terms the lemmas use.              *)
LEMMA TypeFacts ==
  ASSUME TypeInv
  PROVE  /\ Pollings /\ Entries
         /\ \A p \in Pollers : poller[p] \in PollerType
         /\ changes \in Seq(Records)
         /\ DOMAIN changes = 1 .. Len(changes) /\ DOMAIN changes \subseteq Versions
         /\ budget \in [Troubles -> Nat]
         /\ \A trouble \in Troubles : budget[trouble] <= budget[trouble]
BY BoundAssumption DEF TypeInv, TypeOK, Pollings, Entries, Versions

LEMMA PollerWrite ==
  ASSUME NEW p \in Pollers, NEW r \in PollerType, Pollings, poller' = [poller EXCEPT ![p] = r]
  PROVE  Pollings' /\ poller'[p] = r /\ Only(p)
BY DEF Pollings, Only

(* A call that ends, one that only moves on, and one at each assignment.   *)
LEMMA Left ==
  ASSUME NEW p \in Pollers, Pollings, Leave(p)
  PROVE  Now(p, "idle", "sync", FALSE, 0, 0, 0, {})
<1> DEFINE m == Idle
<1>1. /\ m \in PollerType
      /\ m.stage = "idle" /\ m.kind = "sync" /\ m.polled = FALSE /\ m.row = 0 /\ m.attempt = 0
      /\ m.seen = 0 /\ m.page = {}
  BY DEF Idle, PollerType
<1>2. poller' = [poller EXCEPT ![p] = m]
  BY DEF Leave
<1> HIDE DEF m
<1> QED
  BY <1>1, <1>2, PollerWrite DEF Now

LEMMA Gone ==
  ASSUME NEW p \in Pollers, Pollings, NEW s \in Working \cup {"idle", "acquire"}, Goto(p, s)
  PROVE  Now(p, s, poller[p].kind, poller[p].polled, poller[p].row, poller[p].attempt,
             poller[p].seen, poller[p].page)
<1> DEFINE r == poller[p]
           m == [r EXCEPT !.stage = s]
<1>1. r \in PollerType
  BY DEF Pollings
<1>2. /\ m \in PollerType /\ m.stage = s /\ m.kind = r.kind /\ m.polled = r.polled
      /\ m.row = r.row /\ m.attempt = r.attempt /\ m.seen = r.seen /\ m.page = r.page
  <2> HIDE DEF r
  <2> QED
    BY <1>1 DEF PollerType, Working, Processing
<1>3. poller' = [poller EXCEPT ![p] = m]
  BY DEF Goto
<1> HIDE DEF m
<1> QED
  BY <1>2, <1>3, PollerWrite DEF Now

LEMMA Started ==
  ASSUME NEW p \in Pollers, Pollings, NEW k \in {"sync", "drain"},
         poller' = [poller EXCEPT ![p] = [@ EXCEPT !.stage = "acquire", !.kind = k]]
  PROVE  Now(p, "acquire", k, poller[p].polled, poller[p].row, poller[p].attempt, poller[p].seen,
             poller[p].page)
<1> DEFINE r == poller[p]
           m == [r EXCEPT !.stage = "acquire", !.kind = k]
<1>1. r \in PollerType
  BY DEF Pollings
<1>2. /\ m \in PollerType /\ m.stage = "acquire" /\ m.kind = k /\ m.polled = r.polled
      /\ m.row = r.row /\ m.attempt = r.attempt /\ m.seen = r.seen /\ m.page = r.page
  <2> HIDE DEF r
  <2> QED
    BY <1>1 DEF PollerType, Working, Processing
<1>3. poller' = [poller EXCEPT ![p] = m]
  OBVIOUS
<1> HIDE DEF m
<1> QED
  BY <1>2, <1>3, PollerWrite DEF Now

LEMMA Fetched ==
  ASSUME NEW p \in Pollers, Pollings, NEW P \in SUBSET Versions, cursor \in Nat,
         poller' = [poller EXCEPT ![p] = [@ EXCEPT !.stage = "accept", !.page = P,
                       !.seen = cursor]]
  PROVE  Now(p, "accept", poller[p].kind, poller[p].polled, poller[p].row, poller[p].attempt,
             cursor, P)
<1> DEFINE r == poller[p]
           m == [r EXCEPT !.stage = "accept", !.seen = cursor, !.page = P]
<1>1. r \in PollerType
  BY DEF Pollings
<1>2. /\ m \in PollerType /\ m.stage = "accept" /\ m.kind = r.kind /\ m.polled = r.polled
      /\ m.row = r.row /\ m.attempt = r.attempt /\ m.seen = cursor /\ m.page = P
  <2> HIDE DEF r
  <2> QED
    BY <1>1 DEF PollerType, Working, Processing
<1>3. poller' = [poller EXCEPT ![p] = m]
  OBVIOUS
<1> HIDE DEF m
<1> QED
  BY <1>2, <1>3, PollerWrite DEF Now

LEMMA Accepted ==
  ASSUME NEW p \in Pollers, Pollings,
         poller' = [poller EXCEPT ![p] = [@ EXCEPT !.stage = "drain", !.polled = TRUE,
                                                   !.page = {}, !.seen = 0]]
  PROVE  Now(p, "drain", poller[p].kind, TRUE, poller[p].row, poller[p].attempt, 0, {})
<1> DEFINE r == poller[p]
           m == [r EXCEPT !.stage = "drain", !.polled = TRUE, !.seen = 0, !.page = {}]
<1>1. r \in PollerType
  BY DEF Pollings
<1>2. /\ m \in PollerType /\ m.stage = "drain" /\ m.kind = r.kind /\ m.polled = TRUE
      /\ m.row = r.row /\ m.attempt = r.attempt /\ m.seen = 0 /\ m.page = {}
  <2> HIDE DEF r
  <2> QED
    BY <1>1 DEF PollerType, Working, Processing
<1>3. poller' = [poller EXCEPT ![p] = m]
  OBVIOUS
<1> HIDE DEF m
<1> QED
  BY <1>2, <1>3, PollerWrite DEF Now

LEMMA Selected ==
  ASSUME NEW p \in Pollers, Pollings, NEW v \in Versions,
         poller' = [poller EXCEPT ![p] = [@ EXCEPT !.stage = "claim", !.row = v]]
  PROVE  Now(p, "claim", poller[p].kind, poller[p].polled, v, poller[p].attempt, poller[p].seen,
             poller[p].page)
<1> DEFINE r == poller[p]
           m == [r EXCEPT !.stage = "claim", !.row = v]
<1>1. r \in PollerType
  BY DEF Pollings
<1>2. /\ m \in PollerType /\ m.stage = "claim" /\ m.kind = r.kind /\ m.polled = r.polled
      /\ m.row = v /\ m.attempt = r.attempt /\ m.seen = r.seen /\ m.page = r.page
  <2> HIDE DEF r
  <2> QED
    BY <1>1 DEF PollerType, Working, Processing
<1>3. poller' = [poller EXCEPT ![p] = m]
  OBVIOUS
<1> HIDE DEF m
<1> QED
  BY <1>2, <1>3, PollerWrite DEF Now

LEMMA Claimed ==
  ASSUME NEW p \in Pollers, Pollings, NEW a \in Nat,
         poller' = [poller EXCEPT ![p] = [@ EXCEPT !.stage = "read", !.attempt = a]]
  PROVE  Now(p, "read", poller[p].kind, poller[p].polled, poller[p].row, a, poller[p].seen,
             poller[p].page)
<1> DEFINE r == poller[p]
           m == [r EXCEPT !.stage = "read", !.attempt = a]
<1>1. r \in PollerType
  BY DEF Pollings
<1>2. /\ m \in PollerType /\ m.stage = "read" /\ m.kind = r.kind /\ m.polled = r.polled
      /\ m.row = r.row /\ m.attempt = a /\ m.seen = r.seen /\ m.page = r.page
  <2> HIDE DEF r
  <2> QED
    BY <1>1 DEF PollerType, Working, Processing
<1>3. poller' = [poller EXCEPT ![p] = m]
  OBVIOUS
<1> HIDE DEF m
<1> QED
  BY <1>2, <1>3, PollerWrite DEF Now

LEMMA WasRead ==
  ASSUME NEW p \in Pollers, Pollings, NEW s \in {"finish", "write"}, NEW n \in Nat,
         poller' = [poller EXCEPT ![p] = [@ EXCEPT !.stage = s, !.seen = n]]
  PROVE  Now(p, s, poller[p].kind, poller[p].polled, poller[p].row, poller[p].attempt, n,
             poller[p].page)
<1> DEFINE r == poller[p]
           m == [r EXCEPT !.stage = s, !.seen = n]
<1>1. r \in PollerType
  BY DEF Pollings
<1>2. /\ m \in PollerType /\ m.stage = s /\ m.kind = r.kind /\ m.polled = r.polled
      /\ m.row = r.row /\ m.attempt = r.attempt /\ m.seen = n /\ m.page = r.page
  <2> HIDE DEF r
  <2> QED
    BY <1>1 DEF PollerType, Working, Processing
<1>3. poller' = [poller EXCEPT ![p] = m]
  OBVIOUS
<1> HIDE DEF m
<1> QED
  BY <1>2, <1>3, PollerWrite DEF Now

LEMMA Ending ==
  ASSUME NEW p \in Pollers, Pollings, NextRow(p)
  PROVE  Now(p, "drain", poller[p].kind, poller[p].polled, 0, 0, 0, poller[p].page)
<1> DEFINE r == poller[p]
           m == [r EXCEPT !.stage = "drain", !.row = 0, !.attempt = 0, !.seen = 0]
<1>1. r \in PollerType
  BY DEF Pollings
<1>2. /\ m \in PollerType /\ m.stage = "drain" /\ m.kind = r.kind /\ m.polled = r.polled
      /\ m.row = 0 /\ m.attempt = 0 /\ m.seen = 0 /\ m.page = r.page
  <2> HIDE DEF r
  <2> QED
    BY <1>1 DEF PollerType, Working, Processing
<1>3. poller' = [poller EXCEPT ![p] = m]
  BY DEF NextRow
<1> HIDE DEF m
<1> QED
  BY <1>2, <1>3, PollerWrite DEF Now

(* An entry that is concluded, claimed, deferred or re-opened.             *)
LEMMA EntryWrite ==
  ASSUME NEW v \in Versions, NEW e \in EntryType, Entries, entry' = [entry EXCEPT ![v] = e]
  PROVE  Becomes(v, e.status)
BY DEF Entries, Becomes

LEMMA EndedEntry ==
  ASSUME NEW v \in Versions, NEW outcome \in {"retry", "dead", "completed"}, Entries
  PROVE  Ended(v, outcome) \in EntryType /\ Ended(v, outcome).status = outcome
<1> DEFINE e == entry[v]
<1>1. e \in EntryType
  BY DEF Entries
<1>2. /\ [e EXCEPT !.status = outcome, !.owner = NoOwner, !.expired = FALSE] \in EntryType
      /\ [e EXCEPT !.status = outcome, !.owner = NoOwner, !.expired = FALSE].status = outcome
  <2> HIDE DEF e
  <2> QED
    BY <1>1 DEF EntryType
<1> QED
  BY <1>2 DEF Ended

LEMMA TakenEntry ==
  ASSUME NEW v \in Versions, NEW p \in Pollers, Entries,
         entry' = [entry EXCEPT ![v] =
                     [status |-> "processing", pos |-> entry[v].pos,
                      attempts |-> entry[v].attempts + 1, owner |-> p, expired |-> FALSE]]
  PROVE  Becomes(v, "processing") /\ entry[v].attempts + 1 \in Nat
<1> DEFINE e == entry[v]
           m == [status |-> "processing", pos |-> e.pos, attempts |-> e.attempts + 1,
                 owner |-> p, expired |-> FALSE]
<1>1. e \in EntryType
  BY DEF Entries
<1>2. e.pos \in Nat /\ e.attempts + 1 \in Nat
  <2> HIDE DEF e
  <2> QED
    BY <1>1 DEF EntryType
<1>3. m \in EntryType /\ m.status = "processing"
  <2> HIDE DEF e
  <2> QED
    BY <1>2 DEF EntryType
<1>4. entry' = [entry EXCEPT ![v] = m]
  OBVIOUS
<1> HIDE DEF m
<1> QED
  BY <1>2, <1>3, <1>4, EntryWrite

LEMMA DeferredEntry ==
  ASSUME NEW v \in Versions, Entries,
         entry' = [entry EXCEPT ![v] = [Ended(v, "retry") EXCEPT
                     !.attempts = IF entry[v].attempts > 0 THEN entry[v].attempts - 1 ELSE 0]]
  PROVE  Becomes(v, "retry")
<1> DEFINE e == Ended(v, "retry")
           a == IF entry[v].attempts > 0 THEN entry[v].attempts - 1 ELSE 0
           m == [e EXCEPT !.attempts = a]
<1>1. e \in EntryType /\ e.status = "retry"
  BY EndedEntry
<1>2. a \in Nat
  <2> DEFINE f == entry[v]
  <2>1. f \in EntryType
    BY DEF Entries
  <2>2. f.attempts \in Nat
    <3> HIDE DEF f
    <3> QED
      BY <2>1 DEF EntryType
  <2> QED
    BY <2>2
<1>3. m \in EntryType /\ m.status = "retry"
  <2> HIDE DEF e, a
  <2> QED
    BY <1>1, <1>2 DEF EntryType
<1>4. entry' = [entry EXCEPT ![v] = m]
  OBVIOUS
<1> HIDE DEF m
<1> QED
  BY <1>3, <1>4, EntryWrite

LEMMA ReopenedEntry ==
  ASSUME NEW v \in Versions, Entries,
         entry' = [entry EXCEPT ![v] = [@ EXCEPT !.status = "pending", !.attempts = 0]]
  PROVE  Becomes(v, "pending")
<1> DEFINE e == entry[v]
           m == [e EXCEPT !.status = "pending", !.attempts = 0]
<1>1. e \in EntryType
  BY DEF Entries
<1>2. m \in EntryType /\ m.status = "pending"
  <2> HIDE DEF e
  <2> QED
    BY <1>1 DEF EntryType
<1>3. entry' = [entry EXCEPT ![v] = m]
  OBVIOUS
<1> HIDE DEF m
<1> QED
  BY <1>2, <1>3, EntryWrite

LEMMA ExpiredEntry ==
  ASSUME NEW v \in Versions, Entries, entry' = [entry EXCEPT ![v].expired = TRUE]
  PROVE  Becomes(v, entry[v].status)
<1> DEFINE e == entry[v]
           m == [e EXCEPT !.expired = TRUE]
<1>1. e \in EntryType
  BY DEF Entries
<1>2. m \in EntryType /\ m.status = e.status
  <2> HIDE DEF e
  <2> QED
    BY <1>1 DEF EntryType
<1>3. entry' = [entry EXCEPT ![v] = m]
  OBVIOUS
<1> HIDE DEF m
<1> QED
  BY <1>2, <1>3, EntryWrite

(* Entries of a page become pending, unless they are there.                *)
LEMMA QueuedEntries ==
  ASSUME NEW V \in SUBSET Versions, Entries, nextPos \in Nat, entry' = Enqueued(V)
  PROVE  /\ Entries'
         /\ \A v \in Versions :
              entry'[v].status = IF v \in V /\ entry[v].status = "none" THEN "pending"
                                 ELSE entry[v].status
<1> SUFFICES ASSUME NEW v \in Versions
             PROVE  /\ Enqueued(V)[v] \in EntryType
                    /\ Enqueued(V)[v].status = IF v \in V /\ entry[v].status = "none"
                                                 THEN "pending" ELSE entry[v].status
  BY DEF Entries, Enqueued
<1> DEFINE e == entry[v]
           m == [e EXCEPT !.status = "pending", !.pos = nextPos]
<1>1. e \in EntryType
  BY DEF Entries
<1>2. m \in EntryType /\ m.status = "pending"
  <2> HIDE DEF e
  <2> QED
    BY <1>1 DEF EntryType
<1>3. Enqueued(V)[v] = IF v \in V /\ e.status = "none" THEN m ELSE e
  BY DEF Enqueued
<1> HIDE DEF m, e
<1> QED
  BY <1>1, <1>2, <1>3 DEF e

(* A start of a process re-opens claims and nothing else.                  *)
LEMMA ReopenedClaims ==
  ASSUME Entries, Bootstrap
  PROVE  /\ Entries'
         /\ \A v \in Versions :
              \/ entry'[v] = entry[v]
              \/ entry[v].status = "processing" /\ entry'[v].status = "retry"
<1> SUFFICES ASSUME NEW v \in Versions
             PROVE  /\ entry'[v] \in EntryType
                    /\ \/ entry'[v] = entry[v]
                       \/ entry[v].status = "processing" /\ entry'[v].status = "retry"
  BY DEF Entries, Bootstrap
<1>1. entry'[v] = IF entry[v].status = "processing" /\ entry[v].expired
                    THEN Ended(v, "retry") ELSE entry[v]
  BY DEF Bootstrap
<1>2. entry[v] \in EntryType
  BY DEF Entries
<1> QED
  BY <1>1, <1>2, EndedEntry

(* A trouble is charged to its own budget and to the common one.           *)
LEMMA BudgetSpent ==
  ASSUME NEW trouble \in Troubles \ {"any"}, budget \in [Troubles -> Nat], Spend(trouble)
  PROVE  /\ budget' \in [Troubles -> Nat]
         /\ budget'[trouble] < budget[trouble]
         /\ \A other \in Troubles : budget'[other] <= budget[other]
<1> DEFINE m == [budget EXCEPT ![trouble] = budget[trouble] - 1]
           w == Weight[trouble]
<1>1. trouble \in Troubles /\ "any" \in Troubles /\ trouble # "any"
  BY DEF Troubles
<1>2. w \in Nat
  BY <1>1, BudgetAssumption
<1>3. /\ budget[trouble] - 1 \in Nat /\ budget["any"] - w \in Nat
      /\ budget[trouble] \in Nat /\ budget["any"] \in Nat
  BY <1>1, <1>2 DEF Spend
<1>4. budget' = [budget EXCEPT ![trouble] = budget[trouble] - 1, !["any"] = budget["any"] - w]
  BY <1>1 DEF Spend
<1> HIDE DEF w
<1> QED
  BY <1>1, <1>2, <1>3, <1>4

-----------------------------------------------------------------------------
(* 2. The actions: the types they keep and what they leave alone.          *)
LEMMA StartStep ==
  ASSUME TypeInv, NEW p \in Pollers, Start(p)
  PROVE  /\ TypeInv'
         /\ Quiet
         /\ \A q \in Pollers : poller'[q].kind \in Kinds \cup {poller[q].kind}
<1>1. PICK k \in Kinds : poller' = [poller EXCEPT ![p] = [@ EXCEPT !.stage = "acquire",
                                       !.kind = k]]
  BY DEF Start
<1>2. k \in {"sync", "drain"}
  BY KindAssumption
<1>3. Now(p, "acquire", k, poller[p].polled, poller[p].row, poller[p].attempt, poller[p].seen,
          poller[p].page)
  BY <1>1, <1>2, TypeFacts, Started
<1>4. TypeInv'
  BY <1>3, TypeFacts
    DEF TypeInv, TypeOK, RowsExist, Pollings, Entries, Now, Only, rows, provider, Processing,
        Working, Start
<1>5. /\ PagesStay /\ HandsStay /\ WritesStay /\ EntriesStay /\ TwinsStay /\ PausesStay
      /\ CallsStay /\ LeaseStays /\ Spent
  BY <1>3, TypeFacts
    DEF PagesStay, HandsStay, Processing, WritesStay, EntriesStay, rows, TwinsStay, PausesStay,
        CallsStay, Working, LeaseStays, Spent, Start, Now, Only, provider
<1>6. \A q \in Pollers : poller'[q].kind \in Kinds \cup {poller[q].kind}
  BY <1>3 DEF Now, Only
<1> QED
  BY <1>4, <1>5, <1>6 DEF Quiet

LEMMA DrainDoneStep ==
  ASSUME TypeInv, NEW p \in Pollers, DrainDone(p)
  PROVE  /\ TypeInv'
         /\ PagesStay /\ HandsStay /\ WritesStay /\ EntriesStay /\ TwinsStay /\ PausesStay
         /\ CallsStay /\ LeaseStays /\ Spent /\ KindsStay
<1>1. PICK s \in {"release", "status", "fetch"} : Goto(p, s)
  BY DEF DrainDone
<1>2. Now(p, s, poller[p].kind, poller[p].polled, poller[p].row, poller[p].attempt,
          poller[p].seen,
         poller[p].page)
  BY <1>1, TypeFacts, Gone DEF Working
<1>3. TypeInv'
  BY <1>2, TypeFacts
    DEF TypeInv, TypeOK, RowsExist, Pollings, Entries, Now, Only, rows, provider, Processing,
        Working, DrainDone
<1>4. /\ PagesStay /\ HandsStay /\ WritesStay /\ EntriesStay /\ TwinsStay /\ PausesStay
      /\ CallsStay /\ LeaseStays /\ Spent /\ KindsStay
  BY <1>2, TypeFacts
    DEF PagesStay, HandsStay, Processing, WritesStay, EntriesStay, rows, TwinsStay, PausesStay,
        CallsStay, Working, LeaseStays, Spent, KindsStay, DrainDone, Now, Only, provider
<1> QED
  BY <1>3, <1>4

LEMMA FetchFailsStep ==
  ASSUME TypeInv, NEW p \in Pollers, FetchFails(p)
  PROVE  /\ TypeInv'
         /\ PagesStay /\ HandsStay /\ WritesStay /\ EntriesStay /\ TwinsStay /\ PausesStay
         /\ CallsStay /\ LeaseStays /\ Spent /\ KindsStay
<1>1. Now(p, "release", poller[p].kind, poller[p].polled, poller[p].row, poller[p].attempt,
          poller[p].seen,
         poller[p].page)
  BY TypeFacts, Gone DEF FetchFails, Working, Processing
<1>2. budget' \in [Troubles -> Nat] /\ Spent
  BY BudgetSpent, TypeFacts DEF TypeInv, TypeOK, FetchFails, Troubles, Spent
<1>3. TypeInv'
  BY <1>1, <1>2, TypeFacts
    DEF TypeInv, TypeOK, RowsExist, Pollings, Entries, Now, Only, rows, provider, Processing,
        Working, FetchFails
<1>4. /\ PagesStay /\ HandsStay /\ WritesStay /\ EntriesStay /\ TwinsStay /\ PausesStay
      /\ CallsStay /\ LeaseStays /\ Spent /\ KindsStay
  BY <1>1, <1>2, TypeFacts
    DEF PagesStay, HandsStay, Processing, WritesStay, EntriesStay, rows, TwinsStay, PausesStay,
        CallsStay, Working, LeaseStays, Spent, KindsStay, FetchFails, Now, Only, provider
<1> QED
  BY <1>3, <1>4

LEMMA ShedStep ==
  ASSUME TypeInv, NEW p \in Pollers, Shed(p)
  PROVE  /\ TypeInv'
         /\ PagesStay /\ HandsStay /\ WritesStay /\ EntriesStay /\ TwinsStay /\ PausesStay
         /\ CallsStay /\ LeaseStays /\ Spent /\ KindsStay
<1>1. Now(p, "status", poller[p].kind, poller[p].polled, poller[p].row, poller[p].attempt,
          poller[p].seen,
         poller[p].page)
  BY TypeFacts, Gone DEF Shed, Working, Processing
<1>2. budget' \in [Troubles -> Nat] /\ Spent
  BY BudgetSpent, TypeFacts DEF TypeInv, TypeOK, Shed, Troubles, Spent
<1>3. TypeInv'
  BY <1>1, <1>2, TypeFacts
    DEF TypeInv, TypeOK, RowsExist, Pollings, Entries, Now, Only, rows, provider, Processing,
        Working, Shed
<1>4. /\ PagesStay /\ HandsStay /\ WritesStay /\ EntriesStay /\ TwinsStay /\ PausesStay
      /\ CallsStay /\ LeaseStays /\ Spent /\ KindsStay
  BY <1>1, <1>2, TypeFacts
    DEF PagesStay, HandsStay, Processing, WritesStay, EntriesStay, rows, TwinsStay, PausesStay,
        CallsStay, Working, LeaseStays, Spent, KindsStay, Shed, Now, Only, provider
<1> QED
  BY <1>3, <1>4

LEMMA FinishStep ==
  ASSUME TypeInv, NEW p \in Pollers, Finish(p)
  PROVE  /\ TypeInv'
         /\ PagesStay /\ HandsStay /\ WritesStay /\ EntriesStay /\ TwinsStay /\ PausesStay
         /\ CallsStay /\ LeaseStays /\ Spent /\ KindsStay
<1>1. Now(p, "release", poller[p].kind, poller[p].polled, poller[p].row, poller[p].attempt,
          poller[p].seen,
         poller[p].page)
  BY TypeFacts, Gone DEF Finish, Working, Processing
<1>2. TypeInv'
  BY <1>1, TypeFacts
    DEF TypeInv, TypeOK, RowsExist, Pollings, Entries, Now, Only, rows, provider, Processing,
        Working, Finish
<1>3. /\ PagesStay /\ HandsStay /\ WritesStay /\ EntriesStay /\ TwinsStay /\ PausesStay
      /\ CallsStay /\ LeaseStays /\ Spent /\ KindsStay
  BY <1>1, TypeFacts
    DEF PagesStay, HandsStay, Processing, WritesStay, EntriesStay, rows, TwinsStay, PausesStay,
        CallsStay, Working, LeaseStays, Spent, KindsStay, Finish, Now, Only, provider
<1> QED
  BY <1>2, <1>3

LEMMA QueryFailsStep ==
  ASSUME TypeInv, NEW p \in Pollers, QueryFails(p)
  PROVE  /\ TypeInv'
         /\ PagesStay /\ HandsStay /\ WritesStay /\ EntriesStay /\ TwinsStay /\ PausesStay
         /\ CallsStay /\ LeaseStays /\ Spent /\ KindsStay
<1>1. Now(p, "release", poller[p].kind, poller[p].polled, poller[p].row, poller[p].attempt,
          poller[p].seen,
         poller[p].page)
  BY TypeFacts, Gone DEF QueryFails, Working, Processing
<1>2. budget' \in [Troubles -> Nat] /\ Spent
  BY BudgetSpent, TypeFacts DEF TypeInv, TypeOK, QueryFails, Troubles, Spent
<1>3. TypeInv'
  BY <1>1, <1>2, TypeFacts
    DEF TypeInv, TypeOK, RowsExist, Pollings, Entries, Now, Only, rows, provider, Processing,
        Working, QueryFails
<1>4. /\ PagesStay /\ HandsStay /\ WritesStay /\ EntriesStay /\ TwinsStay /\ PausesStay
      /\ CallsStay /\ LeaseStays /\ Spent /\ KindsStay
  BY <1>1, <1>2, TypeFacts
    DEF PagesStay, HandsStay, Processing, WritesStay, EntriesStay, rows, TwinsStay, PausesStay,
        CallsStay, Working, LeaseStays, Spent, KindsStay, QueryFails, Now, Only, provider
<1> QED
  BY <1>3, <1>4

LEMMA CrashStep ==
  ASSUME TypeInv, NEW p \in Pollers, Crash(p)
  PROVE  /\ TypeInv'
         /\ PagesStay /\ HandsStay /\ WritesStay /\ EntriesStay /\ TwinsStay /\ PausesStay
         /\ CallsStay /\ LeaseStays /\ Spent /\ KindsStay
<1>1. Now(p, "idle", "sync", FALSE, 0, 0, 0, {})
  BY TypeFacts, Left DEF Crash
<1>2. budget' \in [Troubles -> Nat] /\ Spent
  BY BudgetSpent, TypeFacts DEF TypeInv, TypeOK, Crash, Troubles, Spent
<1>3. TypeInv'
  BY <1>1, <1>2, TypeFacts
    DEF TypeInv, TypeOK, RowsExist, Pollings, Entries, Now, Only, rows, provider, Processing,
        Working, Crash
<1>4. /\ PagesStay /\ HandsStay /\ WritesStay /\ EntriesStay /\ TwinsStay /\ PausesStay
      /\ CallsStay /\ LeaseStays /\ Spent /\ KindsStay
  BY <1>1, <1>2, TypeFacts
    DEF PagesStay, HandsStay, Processing, WritesStay, EntriesStay, rows, TwinsStay, PausesStay,
        CallsStay, Working, LeaseStays, Spent, KindsStay, Crash, Now, Only, provider
<1> QED
  BY <1>3, <1>4

LEMMA RecordFailsStep ==
  ASSUME TypeInv, NEW p \in Pollers, RecordFails(p)
  PROVE  /\ TypeInv'
         /\ PagesStay /\ HandsStay /\ WritesStay /\ EntriesStay /\ TwinsStay /\ PausesStay
         /\ CallsStay /\ LeaseStays /\ Spent /\ KindsStay
<1>1. PICK s \in {"fail", "defer"} : Goto(p, s)
  BY DEF RecordFails
<1>2. Now(p, s, poller[p].kind, poller[p].polled, poller[p].row, poller[p].attempt,
          poller[p].seen,
         poller[p].page)
  BY <1>1, TypeFacts, Gone DEF Working, Processing
<1>3. budget' \in [Troubles -> Nat] /\ Spent
  BY BudgetSpent, TypeFacts DEF TypeInv, TypeOK, RecordFails, Troubles, Spent
<1>4. TypeInv'
  BY <1>2, <1>3, TypeFacts
    DEF TypeInv, TypeOK, RowsExist, Pollings, Entries, Now, Only, rows, provider, Processing,
        Working, RecordFails
<1>5. /\ PagesStay /\ HandsStay /\ WritesStay /\ EntriesStay /\ TwinsStay /\ PausesStay
      /\ CallsStay /\ LeaseStays /\ Spent /\ KindsStay
  BY <1>2, <1>3, TypeFacts
    DEF PagesStay, HandsStay, Processing, WritesStay, EntriesStay, rows, TwinsStay, PausesStay,
        CallsStay, Working, LeaseStays, Spent, KindsStay, RecordFails, Now, Only, provider
<1> QED
  BY <1>4, <1>5

LEMMA SelectStep ==
  ASSUME TypeInv, NEW p \in Pollers, NEW v \in Versions, Select(p, v)
  PROVE  /\ TypeInv'
         /\ PagesStay /\ HandsStay /\ WritesStay /\ EntriesStay /\ TwinsStay /\ PausesStay
         /\ CallsStay /\ LeaseStays /\ Spent /\ KindsStay
<1>1. Now(p, "claim", poller[p].kind, poller[p].polled, v, poller[p].attempt, poller[p].seen,
          poller[p].page)
  BY TypeFacts, Selected DEF Select
<1>2. TypeInv'
  BY <1>1, TypeFacts
    DEF TypeInv, TypeOK, RowsExist, Pollings, Entries, Now, Only, rows, provider, Processing,
        Working, Select
<1>3. /\ PagesStay /\ HandsStay /\ WritesStay /\ EntriesStay /\ TwinsStay /\ PausesStay
      /\ CallsStay /\ LeaseStays /\ Spent /\ KindsStay
  BY <1>1, TypeFacts
    DEF PagesStay, HandsStay, Processing, WritesStay, EntriesStay, rows, TwinsStay, PausesStay,
        CallsStay, Working, LeaseStays, Spent, KindsStay, Select, Now, Only, provider
<1> QED
  BY <1>2, <1>3

LEMMA ClaimExpiresStep ==
  ASSUME TypeInv, NEW v \in Versions, ClaimExpires(v)
  PROVE  /\ TypeInv'
         /\ PagesStay /\ HandsStay /\ WritesStay /\ EntriesStay /\ TwinsStay /\ PausesStay
         /\ CallsStay /\ LeaseStays /\ Spent /\ KindsStay
<1>1. Becomes(v, entry[v].status)
  BY TypeFacts, ExpiredEntry DEF ClaimExpires
<1>2. budget' \in [Troubles -> Nat] /\ Spent
  BY BudgetSpent, TypeFacts DEF TypeInv, TypeOK, ClaimExpires, Troubles, Spent
<1>3. EntriesStay
  BY <1>1 DEF Becomes, EntriesStay
<1>4. TypeInv'
  BY <1>1, <1>2, TypeFacts
    DEF TypeInv, TypeOK, RowsExist, Pollings, Entries, Becomes, provider, Processing, Working,
        ClaimExpires
<1>5. /\ PagesStay /\ HandsStay /\ WritesStay /\ EntriesStay /\ TwinsStay /\ PausesStay
      /\ CallsStay /\ LeaseStays /\ Spent /\ KindsStay
  BY <1>2, <1>3, TypeFacts
    DEF PagesStay, HandsStay, Processing, WritesStay, EntriesStay, TwinsStay, PausesStay,
        CallsStay, Working, LeaseStays, Spent, KindsStay, ClaimExpires, provider
<1> QED
  BY <1>4, <1>5

LEMMA PauseStep ==
  ASSUME TypeInv, Pause
  PROVE  /\ TypeInv'
         /\ PagesStay /\ HandsStay /\ WritesStay /\ EntriesStay /\ TwinsStay /\ PausesStay
         /\ CallsStay /\ LeaseStays /\ Spent /\ KindsStay
<1>1. budget' \in [Troubles -> Nat] /\ Spent
  BY BudgetSpent, TypeFacts DEF TypeInv, TypeOK, Pause, Troubles, Spent
<1>2. TypeInv'
  BY <1>1, TypeFacts
    DEF TypeInv, TypeOK, RowsExist, Pollings, Entries, rows, provider, Processing, Working, Pause
<1>3. /\ PagesStay /\ HandsStay /\ WritesStay /\ EntriesStay /\ TwinsStay /\ PausesStay
      /\ CallsStay /\ LeaseStays /\ Spent /\ KindsStay
  BY <1>1, TypeFacts
    DEF PagesStay, HandsStay, Processing, WritesStay, EntriesStay, rows, TwinsStay, PausesStay,
        CallsStay, Working, LeaseStays, Spent, KindsStay, Pause, provider
<1> QED
  BY <1>2, <1>3

LEMMA ActivateStep ==
  ASSUME TypeInv, Activate
  PROVE  /\ TypeInv'
         /\ PagesStay /\ HandsStay /\ WritesStay /\ EntriesStay /\ TwinsStay /\ PausesStay
         /\ CallsStay /\ LeaseStays /\ Spent /\ KindsStay
<1>1. TypeInv'
  BY TypeFacts
    DEF TypeInv, TypeOK, RowsExist, Pollings, Entries, rows, provider, Processing, Working,
        Activate
<1>2. /\ PagesStay /\ HandsStay /\ WritesStay /\ EntriesStay /\ TwinsStay /\ PausesStay
      /\ CallsStay /\ LeaseStays /\ Spent /\ KindsStay
  BY TypeFacts
    DEF PagesStay, HandsStay, Processing, WritesStay, EntriesStay, rows, TwinsStay, PausesStay,
        CallsStay, Working, LeaseStays, Spent, KindsStay, Activate, provider
<1> QED
  BY <1>1, <1>2

LEMMA AcquireStep ==
  ASSUME TypeInv, NEW p \in Pollers, Acquire(p)
  PROVE  /\ TypeInv'
         /\ PagesStay /\ HandsStay /\ WritesStay /\ EntriesStay /\ TwinsStay /\ PausesStay
         /\ Spent /\ KindsStay
<1>1. \/ Now(p, "drain", poller[p].kind, poller[p].polled, poller[p].row, poller[p].attempt,
             poller[p].seen,
             poller[p].page)
      \/ Now(p, "idle", "sync", FALSE, 0, 0, 0, {})
  BY TypeFacts, Gone, Left DEF Acquire, Working
<1>2. lease' \in [owner : Pollers \cup {NoOwner}, expired : BOOLEAN]
  <2>1. [owner |-> p, expired |-> FALSE] \in [owner : Pollers \cup {NoOwner}, expired : BOOLEAN]
    OBVIOUS
  <2>2. lease \in [owner : Pollers \cup {NoOwner}, expired : BOOLEAN]
    BY DEF TypeInv, TypeOK
  <2> QED
    BY <2>1, <2>2 DEF Acquire
<1>3. UNCHANGED <<provider, rows, status, budget>>
  BY DEF Acquire
<1>4. TypeInv'
  BY <1>1, <1>2, <1>3, TypeFacts
    DEF TypeInv, TypeOK, RowsExist, Pollings, Entries, Now, Only, rows, provider, Processing,
        Working, Acquire
<1>5. /\ PagesStay /\ HandsStay /\ WritesStay /\ EntriesStay /\ TwinsStay /\ PausesStay /\ Spent
      /\ KindsStay
  BY <1>1, <1>3, TypeFacts
    DEF PagesStay, HandsStay, Processing, WritesStay, EntriesStay, rows, TwinsStay, PausesStay,
        Spent, KindsStay, Acquire, Now, Only, provider
<1> QED
  BY <1>4, <1>5

LEMMA ReleaseStep ==
  ASSUME TypeInv, NEW p \in Pollers, Release(p)
  PROVE  /\ TypeInv'
         /\ PagesStay /\ HandsStay /\ WritesStay /\ EntriesStay /\ TwinsStay /\ PausesStay
         /\ CallsStay /\ Spent /\ KindsStay
<1>1. Now(p, "idle", "sync", FALSE, 0, 0, 0, {})
  BY TypeFacts, Left DEF Release
<1>2. lease' \in [owner : Pollers \cup {NoOwner}, expired : BOOLEAN]
  BY DEF Release, TypeInv, TypeOK, NoLease
<1>3. TypeInv'
  BY <1>1, <1>2, TypeFacts
    DEF TypeInv, TypeOK, RowsExist, Pollings, Entries, Now, Only, rows, provider, Processing,
        Working, Release
<1>4. /\ PagesStay /\ HandsStay /\ WritesStay /\ EntriesStay /\ TwinsStay /\ PausesStay
      /\ CallsStay /\ Spent /\ KindsStay
  BY <1>1, TypeFacts
    DEF PagesStay, HandsStay, Processing, WritesStay, EntriesStay, rows, TwinsStay, PausesStay,
        CallsStay, Working, Spent, KindsStay, Release, Now, Only, provider
<1> QED
  BY <1>3, <1>4

LEMMA LeaseExpiresStep ==
  ASSUME TypeInv, LeaseExpires
  PROVE  /\ TypeInv'
         /\ PagesStay /\ HandsStay /\ WritesStay /\ EntriesStay /\ TwinsStay /\ PausesStay
         /\ CallsStay /\ Spent /\ KindsStay
<1>1. budget' \in [Troubles -> Nat] /\ Spent
  BY BudgetSpent, TypeFacts DEF TypeInv, TypeOK, LeaseExpires, Troubles, Spent
<1>2. TypeInv'
  BY <1>1, TypeFacts
    DEF TypeInv, TypeOK, RowsExist, Pollings, Entries, rows, provider, Processing, Working,
        LeaseExpires
<1>3. /\ PagesStay /\ HandsStay /\ WritesStay /\ EntriesStay /\ TwinsStay /\ PausesStay
      /\ CallsStay /\ Spent /\ KindsStay
  BY <1>1, TypeFacts
    DEF PagesStay, HandsStay, Processing, WritesStay, EntriesStay, rows, TwinsStay, PausesStay,
        CallsStay, Working, Spent, KindsStay, LeaseExpires, provider
<1> QED
  BY <1>2, <1>3

LEMMA RenewLeaseStep ==
  ASSUME TypeInv, RenewLease
  PROVE  /\ TypeInv'
         /\ PagesStay /\ HandsStay /\ WritesStay /\ EntriesStay /\ TwinsStay /\ PausesStay
         /\ CallsStay /\ Spent /\ KindsStay
<1>1. TypeInv'
  BY TypeFacts
    DEF TypeInv, TypeOK, RowsExist, Pollings, Entries, rows, provider, Processing, Working,
        RenewLease
<1>2. /\ PagesStay /\ HandsStay /\ WritesStay /\ EntriesStay /\ TwinsStay /\ PausesStay
      /\ CallsStay /\ Spent /\ KindsStay
  BY TypeFacts
    DEF PagesStay, HandsStay, Processing, WritesStay, EntriesStay, rows, TwinsStay, PausesStay,
        CallsStay, Working, Spent, KindsStay, RenewLease, provider
<1> QED
  BY <1>1, <1>2

LEMMA FetchStep ==
  ASSUME TypeInv, NEW p \in Pollers, Fetch(p)
  PROVE  /\ TypeInv'
         /\ HandsStay /\ WritesStay /\ EntriesStay /\ TwinsStay /\ PausesStay /\ CallsStay
         /\ LeaseStays /\ Spent /\ KindsStay
<1>1. PICK P \in SUBSET Changed : poller' = [poller EXCEPT ![p] = [@ EXCEPT !.stage = "accept",
                                                !.page = P, !.seen = cursor]]
  BY DEF Fetch
<1>2. P \in SUBSET Versions
  BY <1>1, TypeFacts DEF Changed, Current
<1>3. cursor \in Nat
  BY DEF TypeInv, TypeOK
<1>4. Now(p, "accept", poller[p].kind, poller[p].polled, poller[p].row, poller[p].attempt,
          cursor, P)
  BY <1>1, <1>2, <1>3, TypeFacts, Fetched
<1>5. TypeInv'
  BY <1>2, <1>3, <1>4, TypeFacts
    DEF TypeInv, TypeOK, RowsExist, Pollings, Entries, Now, Only, rows, provider, Processing,
        Working, Fetch
<1>6. /\ HandsStay /\ WritesStay /\ EntriesStay /\ TwinsStay /\ PausesStay /\ CallsStay
      /\ LeaseStays /\ Spent /\ KindsStay
  BY <1>4, TypeFacts
    DEF HandsStay, Processing, WritesStay, EntriesStay, rows, TwinsStay, PausesStay, CallsStay,
        Working, LeaseStays, Spent, KindsStay, Fetch, Now, Only, provider
<1> QED
  BY <1>5, <1>6

LEMMA AcceptStep ==
  ASSUME TypeInv, NEW p \in Pollers, Accept(p)
  PROVE  /\ TypeInv'
         /\ HandsStay /\ WritesStay /\ TwinsStay /\ PausesStay /\ CallsStay /\ LeaseStays
         /\ Spent /\ KindsStay
         /\ \A v \in Versions :
              entry'[v].status = IF v \in poller[p].page /\ entry[v].status = "none"
                                   THEN "pending" ELSE entry[v].status
         /\ \A q \in Pollers : poller'[q].stage = "accept" => q # p /\ poller'[q] = poller[q]
<1>1. Now(p, "drain", poller[p].kind, TRUE, poller[p].row, poller[p].attempt, 0, {})
  BY TypeFacts, Accepted DEF Accept
<1>2. /\ Entries'
      /\ \A v \in Versions :
           entry'[v].status = IF v \in poller[p].page /\ entry[v].status = "none"
                                THEN "pending" ELSE entry[v].status
  BY TypeFacts, QueuedEntries DEF Accept, TypeInv, TypeOK, PollerType
<1>3. cursor' \in Nat
  <2>1. PICK c \in {Stamp(v) : v \in poller[p].page} \cup {poller[p].seen} : cursor' = c
    BY DEF Accept, Advance
  <2> QED
    BY <2>1, TypeFacts, StampsAreOrdered, SMTT(30) DEF PollerType, Versions
<1>4. nextPos' \in Nat \ {0}
  BY DEF Accept, NextPosition, TypeInv, TypeOK
<1>5. TypeInv'
  BY <1>1, <1>2, <1>3, <1>4, TypeFacts
    DEF TypeInv, TypeOK, RowsExist, Pollings, Entries, Now, Only, Processing, Working, Accept
<1>6. /\ HandsStay /\ WritesStay /\ TwinsStay /\ PausesStay /\ CallsStay /\ LeaseStays /\ Spent
      /\ KindsStay
  BY <1>1, TypeFacts
    DEF HandsStay, Processing, WritesStay, TwinsStay, PausesStay, CallsStay, Working, LeaseStays,
        Spent, KindsStay, Accept, Now, Only
<1>7. \A q \in Pollers : poller'[q].stage = "accept" => q # p /\ poller'[q] = poller[q]
  BY <1>1 DEF Now, Only
<1> QED
  BY <1>2, <1>5, <1>6, <1>7

LEMMA BackfillStep ==
  ASSUME TypeInv, NEW v \in Versions, Backfill(v)
  PROVE  /\ TypeInv'
         /\ PagesStay /\ HandsStay /\ WritesStay /\ TwinsStay /\ PausesStay /\ CallsStay
         /\ LeaseStays /\ Spent /\ KindsStay
         /\ entry[v].status = "none" /\ v \in DOMAIN changes
         /\ \A u \in Versions :
              entry'[u].status = IF u = v THEN "pending" ELSE entry[u].status
<1>1. /\ Entries'
      /\ \A u \in Versions :
           entry'[u].status = IF u \in {v} /\ entry[u].status = "none"
                                THEN "pending" ELSE entry[u].status
  BY TypeFacts, QueuedEntries DEF Backfill, TypeInv, TypeOK
<1>2. budget' \in [Troubles -> Nat] /\ Spent
  BY BudgetSpent, TypeFacts DEF TypeInv, TypeOK, Backfill, Troubles, Spent
<1>3. nextPos' \in Nat \ {0}
  BY DEF Backfill, NextPosition, TypeInv, TypeOK
<1>4. TypeInv'
  BY <1>1, <1>2, <1>3, TypeFacts
    DEF TypeInv, TypeOK, RowsExist, Pollings, Entries, provider, Processing, Working, Backfill
<1>5. /\ PagesStay /\ HandsStay /\ WritesStay /\ TwinsStay /\ PausesStay /\ CallsStay
      /\ LeaseStays /\ Spent /\ KindsStay
  BY <1>1, <1>2, TypeFacts
    DEF PagesStay, HandsStay, Processing, WritesStay, TwinsStay, PausesStay, CallsStay, Working,
        LeaseStays, Spent, KindsStay, Backfill, provider
<1>6. \A u \in Versions : entry'[u].status = IF u = v THEN "pending" ELSE entry[u].status
  BY <1>1 DEF Backfill
<1>7. entry[v].status = "none" /\ v \in DOMAIN changes
  BY DEF Backfill
<1> QED
  BY <1>4, <1>5, <1>6, <1>7

LEMMA ChangeStep ==
  ASSUME TypeInv, NEW r \in Records, Change(r)
  PROVE  /\ TypeInv'
         /\ HandsStay /\ WritesStay /\ EntriesStay /\ TwinsStay /\ PausesStay /\ CallsStay
         /\ LeaseStays /\ Spent /\ KindsStay
<1>1. /\ changes' \in Seq(Records) /\ Len(changes') = Len(changes) + 1
      /\ Len(changes') <= MaxChanges /\ DOMAIN changes' = 1 .. Len(changes) + 1
      /\ \A v \in DOMAIN changes : v \in DOMAIN changes' /\ changes'[v] = changes[v]
  BY BoundAssumption DEF TypeInv, TypeOK, Change
<1>2. TypeInv'
  BY <1>1, TypeFacts
    DEF TypeInv, TypeOK, RowsExist, Pollings, Entries, rows, Processing, Working, Change
<1>3. /\ HandsStay /\ WritesStay /\ EntriesStay /\ TwinsStay /\ PausesStay /\ CallsStay
      /\ LeaseStays /\ Spent /\ KindsStay
  BY TypeFacts
    DEF HandsStay, Processing, WritesStay, EntriesStay, rows, TwinsStay, PausesStay, CallsStay,
        Working, LeaseStays, Spent, KindsStay, Change
<1> QED
  BY <1>2, <1>3

LEMMA ClaimStep ==
  ASSUME TypeInv, NEW p \in Pollers, Claim(p)
  PROVE  /\ TypeInv'
         /\ PagesStay /\ WritesStay /\ TwinsStay /\ PausesStay /\ CallsStay /\ LeaseStays
         /\ Spent /\ KindsStay
         /\ \A q \in Pollers : q # p => poller'[q] = poller[q]
         /\ poller[p].row \in Versions
         /\ \/ EntriesStay /\ poller'[p].stage \notin Processing
            \/ /\ Claimable(entry[poller[p].row]) /\ Becomes(poller[p].row, "processing")
               /\ poller'[p].row = poller[p].row
<1> DEFINE v == poller[p].row
           n == entry[v].attempts + 1
<1>1. v \in Versions /\ poller[p].stage = "claim"
  BY TypeFacts DEF TypeInv, RowsExist, Claim
<1>2. ASSUME Claimable(entry[v])
      PROVE  /\ Becomes(v, "processing") /\ n \in Nat
             /\ Now(p, "read", poller[p].kind, poller[p].polled, poller[p].row, n, poller[p].seen,
                    poller[p].page)
  <2>1. Becomes(v, "processing") /\ n \in Nat
    BY <1>1, <1>2, TypeFacts, TakenEntry DEF Claim
  <2>2. poller' = [poller EXCEPT ![p] = [@ EXCEPT !.stage = "read", !.attempt = n]]
    BY <1>2 DEF Claim
  <2> HIDE DEF n
  <2>3. Now(p, "read", poller[p].kind, poller[p].polled, poller[p].row, n, poller[p].seen,
            poller[p].page)
    BY <2>1, <2>2, TypeFacts, Claimed
  <2> QED
    BY <2>1, <2>3
<1>3. ASSUME ~Claimable(entry[v])
      PROVE  /\ Entries' /\ entry' = entry /\ poller[p].attempt \in Nat
             /\ Now(p, "drain", poller[p].kind, poller[p].polled, poller[p].row,
                    poller[p].attempt, poller[p].seen, poller[p].page)
  <2>1. Now(p, "drain", poller[p].kind, poller[p].polled, poller[p].row, poller[p].attempt,
            poller[p].seen,
            poller[p].page)
    BY <1>3, TypeFacts, Gone DEF Claim, Working
  <2>2. Entries' /\ entry' = entry /\ poller[p].attempt \in Nat
    BY <1>3, TypeFacts DEF Claim, Entries, PollerType
  <2> QED
    BY <2>1, <2>2
<1>4. PICK s \in {"read", "drain"}, a \in Nat :
        /\ Now(p, s, poller[p].kind, poller[p].polled, poller[p].row, a, poller[p].seen,
               poller[p].page)
        /\ \/ s = "read" /\ Claimable(entry[v]) /\ Becomes(v, "processing")
           \/ s = "drain" /\ Entries' /\ entry' = entry
  BY <1>2, <1>3
<1>5. TypeInv'
  BY <1>1, <1>4, TypeFacts
    DEF TypeInv, TypeOK, RowsExist, Pollings, Entries, Now, Only, Becomes, provider, Processing,
        Working, Claim
<1>6. /\ PagesStay /\ WritesStay /\ TwinsStay /\ PausesStay /\ CallsStay /\ LeaseStays /\ Spent
      /\ KindsStay
  BY <1>1, <1>4, TypeFacts
    DEF PagesStay, Becomes, Claimable, WritesStay, TwinsStay, PausesStay, CallsStay, Working,
        Processing, LeaseStays, Spent, KindsStay, Claim, Now, Only, provider
<1>7. \/ EntriesStay /\ poller'[p].stage \notin Processing
      \/ /\ Claimable(entry[v]) /\ Becomes(v, "processing")
         /\ poller'[p].row = poller[p].row
  BY <1>4 DEF EntriesStay, Now, Processing
<1>8. \A q \in Pollers : q # p => poller'[q] = poller[q]
  BY <1>4 DEF Now, Only
<1> QED
  BY <1>1, <1>5, <1>6, <1>7, <1>8

LEMMA ReadStep ==
  ASSUME TypeInv, NEW p \in Pollers, Read(p)
  PROVE  /\ TypeInv'
         /\ PagesStay /\ HandsStay /\ EntriesStay /\ TwinsStay /\ PausesStay /\ CallsStay
         /\ LeaseStays /\ Spent /\ KindsStay
         /\ poller[p].row \in DOMAIN changes /\ poller'[p].row = poller[p].row
         /\ poller'[p].seen = twin[changes[poller[p].row]]
         /\ poller'[p].stage = "write" => ~Stale(poller[p].row, poller'[p].seen)
         /\ \A q \in Pollers : q # p => poller'[q] = poller[q]
<1> DEFINE v == poller[p].row
           t == twin[changes[v]]
           s == IF Stale(v, t) THEN "finish" ELSE "write"
<1>1. /\ v \in DOMAIN changes /\ poller[p].stage = "read"
      /\ t \in Nat /\ s \in {"finish", "write"}
  BY TypeFacts DEF TypeInv, TypeOK, RowsExist, Read, Processing, Versions
<1>2. poller' = [poller EXCEPT ![p] = [@ EXCEPT !.stage = s, !.seen = t]]
  BY DEF Read
<1>3. s = "write" => ~Stale(v, t)
  OBVIOUS
<1> HIDE DEF s, t
<1>4. Now(p, s, poller[p].kind, poller[p].polled, poller[p].row, poller[p].attempt, t,
          poller[p].page)
  BY <1>1, <1>2, TypeFacts, WasRead
<1>5. TypeInv'
  BY <1>1, <1>4, TypeFacts
    DEF TypeInv, TypeOK, RowsExist, Pollings, Entries, Now, Only, rows, provider, Processing,
        Working, Read
<1>6. /\ PagesStay /\ HandsStay /\ EntriesStay /\ TwinsStay /\ PausesStay /\ CallsStay
      /\ LeaseStays /\ Spent /\ KindsStay
  BY <1>1, <1>4, TypeFacts
    DEF PagesStay, HandsStay, Processing, EntriesStay, rows, TwinsStay, PausesStay, CallsStay,
        Working, LeaseStays, Spent, KindsStay, Read, Now, Only, provider
<1>7. /\ \A q \in Pollers : q # p => poller'[q] = poller[q]
      /\ poller'[p].row = v /\ poller'[p].seen = t /\ poller'[p].stage = s
  BY <1>4 DEF Now, Only
<1> QED
  BY <1>1, <1>3, <1>5, <1>6, <1>7 DEF t

LEMMA WriteStep ==
  ASSUME TypeInv, NEW p \in Pollers, Write(p)
  PROVE  /\ TypeInv'
         /\ PagesStay /\ HandsStay /\ WritesStay /\ EntriesStay /\ CallsStay /\ LeaseStays
         /\ Spent /\ KindsStay
         /\ poller[p].stage = "write" /\ poller[p].row \in DOMAIN changes
         /\ parked' = parked
         /\ \/ TwinsStay /\ PausesStay
            \/ /\ ~(poller[p].seen = 0 /\ twin[changes[poller[p].row]] # 0)
               /\ twin' = [twin EXCEPT ![changes[poller[p].row]] = poller[p].row]
               /\ sync' = [sync EXCEPT ![changes[poller[p].row]] = "synced"]
<1>1. /\ poller[p].stage = "write" /\ poller[p].row \in DOMAIN changes
      /\ changes[poller[p].row] \in Records
  BY TypeFacts DEF TypeInv, TypeOK, RowsExist, Write, Processing
<1>2. PICK s \in {"fail", "finish"} : Goto(p, s)
  BY DEF Write
<1>3. Now(p, s, poller[p].kind, poller[p].polled, poller[p].row, poller[p].attempt,
          poller[p].seen,
         poller[p].page)
  BY <1>2, TypeFacts, Gone DEF Working, Processing
<1>4. TypeInv'
  BY <1>1, <1>3, TypeFacts
    DEF TypeInv, TypeOK, RowsExist, Pollings, Entries, Now, Only, provider, Processing, Working,
        Write
<1>5. /\ PagesStay /\ HandsStay /\ WritesStay /\ EntriesStay /\ CallsStay /\ LeaseStays /\ Spent
      /\ KindsStay
  BY <1>1, <1>3, TypeFacts
    DEF PagesStay, HandsStay, Processing, WritesStay, EntriesStay, CallsStay, Working,
        LeaseStays, Spent, KindsStay, Write, Now, Only, provider
<1>6. /\ parked' = parked
      /\ \/ TwinsStay /\ PausesStay
         \/ /\ ~(poller[p].seen = 0 /\ twin[changes[poller[p].row]] # 0)
            /\ twin' = [twin EXCEPT ![changes[poller[p].row]] = poller[p].row]
            /\ sync' = [sync EXCEPT ![changes[poller[p].row]] = "synced"]
  BY DEF Write, TwinsStay, PausesStay
<1> QED
  BY <1>1, <1>4, <1>5, <1>6

LEMMA CompleteStep ==
  ASSUME TypeInv, NEW p \in Pollers, Complete(p)
  PROVE  /\ TypeInv'
         /\ PagesStay /\ HandsStay /\ WritesStay /\ TwinsStay /\ PausesStay /\ CallsStay
         /\ LeaseStays /\ Spent /\ KindsStay
         /\ poller[p].stage = "finish" /\ poller[p].row \in DOMAIN changes
         /\ poller'[p].stage = "drain"
         /\ \A q \in Pollers : q # p => poller'[q] = poller[q]
         /\ Becomes(poller[p].row, "completed")
<1>1. poller[p].row \in Versions /\ poller[p].stage = "finish"
      /\ poller[p].row \in DOMAIN changes
  BY TypeFacts DEF TypeInv, RowsExist, Complete, Processing
<1>2. Now(p, "drain", poller[p].kind, poller[p].polled, 0, 0, 0, poller[p].page)
  BY TypeFacts, Ending DEF Complete
<1>3. /\ Becomes(poller[p].row, "completed")
  <2> DEFINE e == Ended(poller[p].row, "completed")
  <2>1. e \in EntryType /\ e.status = "completed"
    BY <1>1, TypeFacts, EndedEntry
  <2>2. entry' = [entry EXCEPT ![poller[p].row] = e]
    BY DEF Complete
  <2> HIDE DEF e
  <2>3. Becomes(poller[p].row, e.status)
    BY <1>1, <2>1, <2>2, TypeFacts, EntryWrite
  <2> QED
    BY <2>1, <2>3 DEF Becomes
<1>4. TypeInv'
  BY <1>1, <1>2, <1>3, TypeFacts
    DEF TypeInv, TypeOK, RowsExist, Pollings, Entries, Now, Only, Becomes, provider, Processing,
        Working, Complete
<1>5. /\ PagesStay /\ HandsStay /\ WritesStay /\ TwinsStay /\ PausesStay /\ CallsStay
      /\ LeaseStays /\ Spent /\ KindsStay
  BY <1>1, <1>2, <1>3, TypeFacts
    DEF PagesStay, Becomes, HandsStay, Processing, WritesStay, TwinsStay, PausesStay, CallsStay,
        Working, LeaseStays, Spent, KindsStay, Complete, Now, Only, provider
<1>6. \A q \in Pollers : q # p => poller'[q] = poller[q]
  BY <1>2 DEF Now, Only
<1> QED
  BY <1>1, <1>2, <1>3, <1>4, <1>5, <1>6 DEF Now

LEMMA FailStep ==
  ASSUME TypeInv, NEW p \in Pollers, Fail(p)
  PROVE  /\ TypeInv'
         /\ PagesStay /\ HandsStay /\ WritesStay /\ TwinsStay /\ CallsStay /\ LeaseStays
         /\ Spent /\ KindsStay
         /\ poller[p].stage = "fail" /\ poller[p].row \in DOMAIN changes
         /\ poller'[p].stage = "drain"
         /\ \A q \in Pollers : q # p => poller'[q] = poller[q]
         /\ \E o \in {"dead", "retry"} :
              /\ Becomes(poller[p].row, o)
              /\ \/ PausesStay
                 \/ /\ o = "dead"
                    /\ parked' = parked
                    /\ sync' = [sync EXCEPT ![changes[poller[p].row]] = "paused"]
<1>1. poller[p].row \in Versions /\ poller[p].stage = "fail"
      /\ poller[p].row \in DOMAIN changes
  BY TypeFacts DEF TypeInv, RowsExist, Fail, Processing
<1>2. Now(p, "drain", poller[p].kind, poller[p].polled, 0, 0, 0, poller[p].page)
  BY TypeFacts, Ending DEF Fail
<1>3. PICK o \in {"dead", "retry"} :
      /\ Becomes(poller[p].row, o)
      /\ \/ PausesStay
         \/ /\ o = "dead"
            /\ parked' = parked
            /\ sync' = [sync EXCEPT ![changes[poller[p].row]] = "paused"]
  <2> DEFINE o == IF poller[p].attempt >= MaxAttempts THEN "dead" ELSE "retry"
             e == Ended(poller[p].row, o)
  <2>1. o \in {"dead", "retry"}
    OBVIOUS
  <2>2. entry' = [entry EXCEPT ![poller[p].row] = e]
    BY DEF Fail
  <2> HIDE DEF o
  <2>3. e \in EntryType /\ e.status = o
    BY <1>1, <2>1, TypeFacts, EndedEntry
  <2> HIDE DEF e
  <2>4. Becomes(poller[p].row, e.status)
    BY <1>1, <2>2, <2>3, TypeFacts, EntryWrite
  <2>5. \/ PausesStay
        \/ /\ o = "dead"
           /\ parked' = parked
           /\ sync' = [sync EXCEPT ![changes[poller[p].row]] = "paused"]
    BY DEF Fail, PausesStay, o
  <2> QED
    BY <2>1, <2>3, <2>4, <2>5 DEF Becomes
<1>4. TypeInv'
  BY <1>1, <1>2, <1>3, TypeFacts
    DEF TypeInv, TypeOK, RowsExist, Pollings, Entries, Now, Only, Becomes, provider, Processing,
        Working, Fail
<1>5. /\ PagesStay /\ HandsStay /\ WritesStay /\ TwinsStay /\ CallsStay /\ LeaseStays /\ Spent
      /\ KindsStay
  BY <1>1, <1>2, <1>3, TypeFacts
    DEF PagesStay, Becomes, HandsStay, Processing, WritesStay, TwinsStay, CallsStay, Working,
        LeaseStays, Spent, KindsStay, Fail, Now, Only, provider
<1>6. \A q \in Pollers : q # p => poller'[q] = poller[q]
  BY <1>2 DEF Now, Only
<1> QED
  BY <1>1, <1>2, <1>3, <1>4, <1>5, <1>6 DEF Now

LEMMA DeferStep ==
  ASSUME TypeInv, NEW p \in Pollers, Defer(p)
  PROVE  /\ TypeInv'
         /\ PagesStay /\ HandsStay /\ WritesStay /\ TwinsStay /\ PausesStay /\ CallsStay
         /\ LeaseStays /\ Spent /\ KindsStay
         /\ poller[p].stage = "defer" /\ poller[p].row \in DOMAIN changes
         /\ poller'[p].stage = "drain"
         /\ \A q \in Pollers : q # p => poller'[q] = poller[q]
         /\ EntriesStay \/ Becomes(poller[p].row, "retry")
<1>1. poller[p].row \in Versions /\ poller[p].stage = "defer"
      /\ poller[p].row \in DOMAIN changes
  BY TypeFacts DEF TypeInv, RowsExist, Defer, Processing
<1>2. Now(p, "drain", poller[p].kind, poller[p].polled, 0, 0, 0, poller[p].page)
  BY TypeFacts, Ending DEF Defer
<1>3. /\ Entries'
      /\ entry' = entry \/ Becomes(poller[p].row, "retry")
  <2>1. CASE entry[poller[p].row].owner = p
    BY <1>1, <2>1, TypeFacts, DeferredEntry DEF Defer, Becomes
  <2>2. CASE entry[poller[p].row].owner # p
    BY <2>2, TypeFacts DEF Defer, Entries
  <2> QED
    BY <2>1, <2>2
<1>4. TypeInv'
  BY <1>1, <1>2, <1>3, TypeFacts
    DEF TypeInv, TypeOK, RowsExist, Pollings, Entries, Now, Only, Becomes, provider, Processing,
        Working, Defer
<1>5. /\ PagesStay /\ HandsStay /\ WritesStay /\ TwinsStay /\ PausesStay /\ CallsStay
      /\ LeaseStays /\ Spent /\ KindsStay
  BY <1>1, <1>2, <1>3, TypeFacts
    DEF PagesStay, Becomes, HandsStay, Processing, WritesStay, TwinsStay, PausesStay, CallsStay,
        Working, LeaseStays, Spent, KindsStay, Defer, Now, Only, provider
<1>6. \A q \in Pollers : q # p => poller'[q] = poller[q]
  BY <1>2 DEF Now, Only
<1> QED
  BY <1>1, <1>2, <1>3, <1>4, <1>5, <1>6 DEF Now, EntriesStay

LEMMA ReinjectStep ==
  ASSUME TypeInv, NEW v \in Versions, Reinject(v)
  PROVE  /\ TypeInv'
         /\ PagesStay /\ HandsStay /\ WritesStay /\ TwinsStay /\ PausesStay /\ CallsStay
         /\ LeaseStays /\ Spent /\ KindsStay
         /\ entry[v].status = "dead" /\ Becomes(v, "pending")
         /\ budget'["reinject"] < budget["reinject"]
<1>1. Becomes(v, "pending") /\ entry[v].status = "dead"
  BY TypeFacts, ReopenedEntry DEF Reinject
<1>2. budget' \in [Troubles -> Nat] /\ Spent /\ budget'["reinject"] < budget["reinject"]
  BY BudgetSpent, TypeFacts DEF TypeInv, TypeOK, Reinject, Troubles, Spent
<1>3. TypeInv'
  BY <1>1, <1>2, TypeFacts
    DEF TypeInv, TypeOK, RowsExist, Pollings, Entries, Becomes, provider, Processing, Working,
        Reinject
<1>4. /\ PagesStay /\ HandsStay /\ WritesStay /\ TwinsStay /\ PausesStay /\ CallsStay
      /\ LeaseStays /\ Spent /\ KindsStay
  BY <1>1, <1>2, TypeFacts
    DEF PagesStay, Becomes, HandsStay, Processing, WritesStay, TwinsStay, PausesStay, CallsStay,
        Working, LeaseStays, Spent, KindsStay, Reinject, provider
<1> QED
  BY <1>1, <1>2, <1>3, <1>4

LEMMA BootstrapStep ==
  ASSUME TypeInv, Bootstrap
  PROVE  /\ TypeInv'
         /\ PagesStay /\ HandsStay /\ WritesStay /\ TwinsStay /\ PausesStay /\ CallsStay
         /\ LeaseStays /\ Spent /\ KindsStay
         /\ \A v \in Versions :
              \/ entry'[v] = entry[v]
              \/ entry[v].status = "processing" /\ entry'[v].status = "retry"
<1>1. /\ Entries'
      /\ \A v \in Versions :
           \/ entry'[v] = entry[v]
           \/ entry[v].status = "processing" /\ entry'[v].status = "retry"
  BY TypeFacts, ReopenedClaims
<1>2. TypeInv'
  BY <1>1, TypeFacts
    DEF TypeInv, TypeOK, RowsExist, Pollings, Entries, provider, Processing, Working, Bootstrap
<1>3. /\ PagesStay /\ HandsStay /\ WritesStay /\ TwinsStay /\ PausesStay /\ CallsStay
      /\ LeaseStays /\ Spent /\ KindsStay
  BY <1>1, TypeFacts
    DEF PagesStay, HandsStay, Processing, WritesStay, TwinsStay, PausesStay, CallsStay, Working,
        LeaseStays, Spent, KindsStay, Bootstrap, provider
<1> QED
  BY <1>1, <1>2, <1>3

LEMMA OrderParksStep ==
  ASSUME TypeInv, NEW r \in Records, OrderParks(r)
  PROVE  /\ TypeInv'
         /\ PagesStay /\ HandsStay /\ WritesStay /\ EntriesStay /\ TwinsStay /\ CallsStay
         /\ LeaseStays /\ Spent /\ KindsStay
<1>1. budget' \in [Troubles -> Nat] /\ Spent
  BY BudgetSpent, TypeFacts DEF TypeInv, TypeOK, OrderParks, Troubles, Spent
<1>2. TypeInv'
  BY <1>1, TypeFacts
    DEF TypeInv, TypeOK, RowsExist, Pollings, Entries, provider, Processing, Working, OrderParks
<1>3. /\ PagesStay /\ HandsStay /\ WritesStay /\ EntriesStay /\ TwinsStay /\ CallsStay
      /\ LeaseStays /\ Spent /\ KindsStay
  BY <1>1, TypeFacts
    DEF PagesStay, HandsStay, Processing, WritesStay, EntriesStay, TwinsStay, CallsStay, Working,
        LeaseStays, Spent, KindsStay, OrderParks, provider
<1> QED
  BY <1>2, <1>3

LEMMA OrderResumesStep ==
  ASSUME TypeInv, NEW r \in Records, OrderResumes(r)
  PROVE  /\ TypeInv'
         /\ PagesStay /\ HandsStay /\ WritesStay /\ EntriesStay /\ TwinsStay /\ CallsStay
         /\ LeaseStays /\ Spent /\ KindsStay
<1>1. TypeInv'
  BY TypeFacts
    DEF TypeInv, TypeOK, RowsExist, Pollings, Entries, provider, Processing, Working,
        OrderResumes
<1>2. /\ PagesStay /\ HandsStay /\ WritesStay /\ EntriesStay /\ TwinsStay /\ CallsStay
      /\ LeaseStays /\ Spent /\ KindsStay
  BY TypeFacts
    DEF PagesStay, HandsStay, Processing, WritesStay, EntriesStay, TwinsStay, CallsStay, Working,
        LeaseStays, Spent, KindsStay, OrderResumes, provider
<1> QED
  BY <1>1, <1>2

LEMMA OrderExecutesStep ==
  ASSUME TypeInv, NEW r \in Records, OrderExecutes(r)
  PROVE  /\ TypeInv'
         /\ PagesStay /\ HandsStay /\ WritesStay /\ EntriesStay /\ TwinsStay /\ CallsStay
         /\ LeaseStays /\ Spent /\ KindsStay
<1>1. budget' \in [Troubles -> Nat] /\ Spent
  BY BudgetSpent, TypeFacts DEF TypeInv, TypeOK, OrderExecutes, Troubles, Spent
<1>2. TypeInv'
  BY <1>1, TypeFacts
    DEF TypeInv, TypeOK, RowsExist, Pollings, Entries, provider, Processing, Working,
        OrderExecutes
<1>3. /\ PagesStay /\ HandsStay /\ WritesStay /\ EntriesStay /\ TwinsStay /\ CallsStay
      /\ LeaseStays /\ Spent /\ KindsStay
  BY <1>1, TypeFacts
    DEF PagesStay, HandsStay, Processing, WritesStay, EntriesStay, TwinsStay, CallsStay, Working,
        LeaseStays, Spent, KindsStay, OrderExecutes, provider
<1> QED
  BY <1>2, <1>3

-----------------------------------------------------------------------------
-----------------------------------------------------------------------------
(* 3. Acceptance. Only changes that happened have entries.                 *)
EntriesExist == \A v \in Versions : entry[v].status # "none" => v \in DOMAIN changes
BudgetLeft == \A trouble \in Troubles : budget[trouble] <= Budget[trouble]

(* The watermark is not ahead of the changes still to come.                *)
Watermark == \A v \in Versions : v > Len(changes) => cursor <= Stamp(v)

(* What a call knows of the page it read: a change it does not accept is   *)
(* not older than what it accepts, or has an entry.                        *)
PagesRead ==
  \A p \in Pollers : poller[p].stage = "accept" =>
    /\ poller[p].page \subseteq DOMAIN changes
    /\ \A v \in Versions : v > Len(changes) => poller[p].seen <= Stamp(v)
    /\ \A v \in Current : \/ entry[v].status # "none"
                          \/ v \in poller[p].page
                          \/ /\ poller[p].seen <= Stamp(v)
                             /\ \A u \in poller[p].page : Stamp(u) <= Stamp(v)

AcceptanceInv == EntriesExist /\ Watermark /\ PagesRead /\ NoChangeLost

(* A later version has no earlier stamp.                                   *)
LEMMA VersionStamps ==
  /\ \A v \in Versions \cup {0} : Stamp(v) \in Nat
  /\ \A v \in Versions : Stamp(0) <= Stamp(v)
  /\ \A v, u \in Versions : u <= v => Stamp(u) <= Stamp(v)
BY StampsAreOrdered DEF Versions

(* Acceptance looks only at the pages, the entries and the watermark.      *)
LEMMA AcceptanceKept ==
  ASSUME TypeInv, AcceptanceInv, PagesStay
  PROVE  AcceptanceInv'
<1>1. Current' = Current
  BY DEF Current, PagesStay
<1>2. EntriesExist' /\ Watermark'
  BY DEF AcceptanceInv, EntriesExist, Watermark, PagesStay
<1>3. NoChangeLost'
  BY <1>1, TypeFacts DEF AcceptanceInv, NoChangeLost, PagesStay, Current
<1>4. PagesRead'
  BY <1>1, TypeFacts DEF AcceptanceInv, PagesRead, PagesStay, Current
<1> QED
  BY <1>2, <1>3, <1>4 DEF AcceptanceInv

(* A page holds every change from the watermark on that has no entry yet.  *)
LEMMA FetchAccepts ==
  ASSUME TypeInv, AcceptanceInv, NEW p \in Pollers, Fetch(p)
  PROVE  AcceptanceInv'
<1>1. PICK P \in SUBSET Changed :
        /\ IsPage(P)
        /\ poller' = [poller EXCEPT ![p] = [@ EXCEPT !.stage = "accept", !.page = P,
                                                     !.seen = cursor]]
  BY DEF Fetch
<1>2. P \subseteq Versions /\ P \subseteq DOMAIN changes /\ cursor \in Nat
  BY TypeFacts DEF Changed, Current, TypeInv, TypeOK
<1>3. Now(p, "accept", poller[p].kind, poller[p].polled, poller[p].row, poller[p].attempt, cursor,
          P)
  BY <1>1, <1>2, TypeFacts, Fetched
<1>4. UNCHANGED <<changes, cursor, entry>>
  BY DEF Fetch, provider, rows
<1>5. Current' = Current
  BY <1>4 DEF Current
<1>6. EntriesExist' /\ Watermark' /\ NoChangeLost'
  BY <1>4, <1>5 DEF AcceptanceInv, EntriesExist, Watermark, NoChangeLost
<1>7. \A v \in Current : \/ entry[v].status # "none"
                         \/ v \in P
                         \/ cursor <= Stamp(v) /\ \A u \in P : Stamp(u) <= Stamp(v)
  <2> SUFFICES ASSUME NEW v \in Current, entry[v].status = "none", v \notin P
               PROVE  cursor <= Stamp(v) /\ \A u \in P : Stamp(u) <= Stamp(v)
    OBVIOUS
  <2>1. v \in Versions /\ Stamp(v) \in Nat
    BY TypeFacts, VersionStamps DEF Current
  <2>2. cursor <= Stamp(v)
    BY <1>2, <2>1 DEF AcceptanceInv, NoChangeLost
  <2>3. v \in Changed
    BY <1>2, <2>1, <2>2 DEF Changed
  <2> QED
    BY <1>1, <2>2, <2>3 DEF IsPage
<1>8. PagesRead'
  <2> SUFFICES ASSUME NEW q \in Pollers, poller'[q].stage = "accept"
               PROVE  /\ poller'[q].page \subseteq DOMAIN changes
                      /\ \A v \in Versions : v > Len(changes) => poller'[q].seen <= Stamp(v)
                      /\ \A v \in Current :
                           \/ entry[v].status # "none"
                           \/ v \in poller'[q].page
                           \/ /\ poller'[q].seen <= Stamp(v)
                              /\ \A u \in poller'[q].page : Stamp(u) <= Stamp(v)
    BY <1>4, <1>5 DEF PagesRead
  <2>1. CASE q = p
    BY <1>2, <1>3, <1>7, <2>1 DEF Now, AcceptanceInv, Watermark
  <2>2. CASE q # p
    BY <1>3, <2>2 DEF Now, Only, AcceptanceInv, PagesRead
  <2> QED
    BY <2>1, <2>2
<1> QED
  BY <1>6, <1>8 DEF AcceptanceInv

(* The watermark moves to a change of the page, and the page is enqueued.  *)
LEMMA AcceptAccepts ==
  ASSUME TypeInv, AcceptanceInv, NEW p \in Pollers, Accept(p)
  PROVE  AcceptanceInv'
<1> DEFINE P == poller[p].page
           n == poller[p].seen
<1>1. PICK c \in {Stamp(v) : v \in P} \cup {n} :
        n <= c /\ (\A v \in P : Stamp(v) <= c) /\ cursor' = c
  BY DEF Accept, Advance
<1>2. changes' = changes /\ poller[p].stage = "accept"
  BY DEF Accept
<1>3. /\ P \subseteq DOMAIN changes
      /\ \A v \in Versions : v > Len(changes) => n <= Stamp(v)
      /\ \A v \in Current : \/ entry[v].status # "none"
                            \/ v \in P
                            \/ n <= Stamp(v) /\ \A u \in P : Stamp(u) <= Stamp(v)
  BY <1>2 DEF AcceptanceInv, PagesRead
<1>4. /\ \A v \in Versions :
           entry'[v].status = IF v \in P /\ entry[v].status = "none"
                                THEN "pending" ELSE entry[v].status
      /\ \A q \in Pollers : poller'[q].stage = "accept" => q # p /\ poller'[q] = poller[q]
  BY AcceptStep
<1>5. c \in Nat /\ n \in Nat
  BY <1>1, TypeFacts, VersionStamps DEF PollerType
<1>6. Current' = Current /\ Current \subseteq Versions
  BY <1>2, TypeFacts DEF Current
<1> HIDE DEF P, n
<1>7. EntriesExist'
  BY <1>2, <1>3, <1>4 DEF AcceptanceInv, EntriesExist
<1>8. Watermark'
  <2> SUFFICES ASSUME NEW v \in Versions, v > Len(changes)
               PROVE  c <= Stamp(v)
    BY <1>1, <1>2 DEF Watermark
  <2>1. \A u \in P : Stamp(u) <= Stamp(v)
    BY <1>3, TypeFacts, VersionStamps DEF Versions
  <2> QED
    BY <1>1, <1>3, <2>1
<1>9. NoChangeLost'
  <2> SUFFICES ASSUME NEW v \in Current, Stamp(v) < c
               PROVE  entry'[v].status # "none"
    BY <1>1, <1>6 DEF NoChangeLost
  <2>1. v \in Versions /\ Stamp(v) \in Nat
    BY <1>6, VersionStamps
  <2>2. ~(n <= Stamp(v) /\ \A u \in P : Stamp(u) <= Stamp(v))
    BY <1>1, <1>5, <2>1
  <2> QED
    BY <1>3, <1>4, <2>1, <2>2
<1>10. PagesRead'
  BY <1>2, <1>4, <1>6 DEF AcceptanceInv, PagesRead
<1> QED
  BY <1>7, <1>8, <1>9, <1>10 DEF AcceptanceInv

(* A new change is not older than the watermark of any call.               *)
LEMMA ChangeAccepts ==
  ASSUME TypeInv, AcceptanceInv, NEW r \in Records, Change(r)
  PROVE  AcceptanceInv'
<1> DEFINE n == Len(changes) + 1
<1>1. /\ Len(changes') = n /\ DOMAIN changes' = 1 .. n /\ DOMAIN changes = 1 .. Len(changes)
      /\ n \in Versions /\ Len(changes) \in Nat
      /\ \A v \in DOMAIN changes : changes'[v] = changes[v]
  BY TypeFacts, BoundAssumption DEF Change, Versions
<1>2. UNCHANGED <<cursor, entry, poller>>
  BY DEF Change, rows
<1>3. Current' \subseteq Current \cup {n}
  BY <1>1 DEF Current
<1>4. \A u \in DOMAIN changes : Stamp(u) <= Stamp(n)
  BY <1>1, TypeFacts, VersionStamps
<1>5. Stamp(n) \in Nat /\ cursor \in Nat
  BY <1>1, VersionStamps DEF TypeInv, TypeOK
<1> HIDE DEF n
<1>6. EntriesExist'
  BY <1>1, <1>2 DEF AcceptanceInv, EntriesExist, n
<1>7. Watermark' /\ n > Len(changes) /\ cursor <= Stamp(n)
  BY <1>1, <1>2 DEF AcceptanceInv, Watermark, n, Versions
<1>8. NoChangeLost'
  BY <1>2, <1>3, <1>5, <1>7 DEF AcceptanceInv, NoChangeLost
<1>9. PagesRead'
  <2> SUFFICES ASSUME NEW p \in Pollers, poller[p].stage = "accept"
               PROVE  /\ poller[p].page \subseteq DOMAIN changes'
                      /\ \A v \in Versions : v > n => poller[p].seen <= Stamp(v)
                      /\ \A v \in Current' :
                           \/ entry[v].status # "none"
                           \/ v \in poller[p].page
                           \/ /\ poller[p].seen <= Stamp(v)
                              /\ \A u \in poller[p].page : Stamp(u) <= Stamp(v)
    BY <1>1, <1>2 DEF PagesRead
  <2>1. poller[p].page \subseteq DOMAIN changes
    BY DEF AcceptanceInv, PagesRead
  <2>2. \A v \in Versions : v > Len(changes) => poller[p].seen <= Stamp(v)
    BY DEF AcceptanceInv, PagesRead
  <2>3. DOMAIN changes \subseteq DOMAIN changes' /\ \A v \in Versions : v > n => v > Len(changes)
    BY <1>1 DEF n, Versions
  <2>4. poller[p].seen <= Stamp(n) /\ \A u \in poller[p].page : Stamp(u) <= Stamp(n)
    BY <1>1, <1>4, <1>7, <2>1, <2>2
  <2> QED
    BY <1>3, <2>1, <2>2, <2>3, <2>4 DEF AcceptanceInv, PagesRead
<1> QED
  BY <1>6, <1>7, <1>8, <1>9 DEF AcceptanceInv

(***************************************************************************)
(* What holds of every call, whatever the parameters.                      *)
(***************************************************************************)
GeneralInv == TypeInv /\ BudgetLeft /\ AcceptanceInv

LEMMA BudgetKept ==
  ASSUME TypeInv, BudgetLeft, TypeInv', Spent
  PROVE  BudgetLeft' /\ (Unstalled' => Unstalled)
<1>1. \A trouble \in Troubles : /\ budget[trouble] \in Nat /\ budget'[trouble] \in Nat
                                /\ Budget[trouble] \in Nat
                                /\ budget'[trouble] <= budget[trouble]
                                /\ budget[trouble] <= Budget[trouble]
  BY BudgetAssumption DEF TypeInv, TypeOK, BudgetLeft, Spent
<1>2. "stall" \in Troubles
  BY DEF Troubles
<1> QED
  BY <1>1, <1>2 DEF BudgetLeft, Unstalled

(* Nothing has happened, so nothing is behind the watermark.               *)
LEMMA GeneralInit == Init => GeneralInv
<1> SUFFICES ASSUME Init
             PROVE  GeneralInv
  OBVIOUS
<1>1. \A p \in Pollers : poller[p].stage = "idle"
  BY DEF Init, Idle
<1>2. TypeOK
  <2>1. /\ changes \in Seq(Records) /\ Len(changes) <= MaxChanges
        /\ cursor \in Nat /\ nextPos \in Nat \ {0} /\ twin \in [Records -> Versions \cup {0}]
        /\ sync \in [Records -> {"synced", "paused"}] /\ parked \subseteq Records
        /\ status \in {"active", "degraded", "error", "paused"}
        /\ budget \in [Troubles -> Nat]
    BY BoundAssumption, BudgetAssumption DEF Init
  <2>2. Absent \in EntryType
    BY DEF Absent, EntryType
  <2>3. Idle \in PollerType
    BY DEF Idle, PollerType
  <2>4. NoLease \in [owner : Pollers \cup {NoOwner}, expired : BOOLEAN]
    BY DEF NoLease
  <2> QED
    BY <2>1, <2>2, <2>3, <2>4 DEF Init, TypeOK
<1>3. RowsExist /\ PagesRead
  BY <1>1 DEF RowsExist, PagesRead, Processing
<1>4. EntriesExist
  BY DEF Init, EntriesExist, Absent
<1>5. Watermark
  BY VersionStamps DEF Init, Watermark
<1>6. NoChangeLost
  BY DEF Init, NoChangeLost, Current
<1>7. BudgetLeft
  BY BudgetAssumption DEF Init, BudgetLeft
<1> QED
  BY <1>2, <1>3, <1>4, <1>5, <1>6, <1>7 DEF GeneralInv, TypeInv, AcceptanceInv

(* One step of each action.                                                *)
LEMMA GeneralStep ==
  ASSUME GeneralInv, Next
  PROVE  GeneralInv'
<1>1. ASSUME NEW p \in Pollers, Start(p) PROVE GeneralInv'
  BY <1>1, StartStep, AcceptanceKept, BudgetKept DEF GeneralInv, Quiet
<1>2. ASSUME NEW p \in Pollers, Acquire(p) PROVE GeneralInv'
  BY <1>2, AcquireStep, AcceptanceKept, BudgetKept DEF GeneralInv
<1>3. ASSUME NEW p \in Pollers, Release(p) PROVE GeneralInv'
  BY <1>3, ReleaseStep, AcceptanceKept, BudgetKept DEF GeneralInv
<1>4. ASSUME NEW p \in Pollers, DrainDone(p) PROVE GeneralInv'
  BY <1>4, DrainDoneStep, AcceptanceKept, BudgetKept DEF GeneralInv
<1>5. ASSUME NEW p \in Pollers, Fetch(p) PROVE GeneralInv'
  BY <1>5, FetchStep, FetchAccepts, BudgetKept DEF GeneralInv
<1>6. ASSUME NEW p \in Pollers, Accept(p) PROVE GeneralInv'
  BY <1>6, AcceptStep, AcceptAccepts, BudgetKept DEF GeneralInv
<1>7. ASSUME NEW p \in Pollers, Finish(p) PROVE GeneralInv'
  BY <1>7, FinishStep, AcceptanceKept, BudgetKept DEF GeneralInv
<1>8. ASSUME NEW p \in Pollers, Claim(p) PROVE GeneralInv'
  BY <1>8, ClaimStep, AcceptanceKept, BudgetKept DEF GeneralInv
<1>9. ASSUME NEW p \in Pollers, Read(p) PROVE GeneralInv'
  BY <1>9, ReadStep, AcceptanceKept, BudgetKept DEF GeneralInv
<1>10. ASSUME NEW p \in Pollers, Write(p) PROVE GeneralInv'
  BY <1>10, WriteStep, AcceptanceKept, BudgetKept DEF GeneralInv
<1>11. ASSUME NEW p \in Pollers, Complete(p) PROVE GeneralInv'
  BY <1>11, CompleteStep, AcceptanceKept, BudgetKept DEF GeneralInv
<1>12. ASSUME NEW p \in Pollers, Fail(p) PROVE GeneralInv'
  BY <1>12, FailStep, AcceptanceKept, BudgetKept DEF GeneralInv
<1>13. ASSUME NEW p \in Pollers, Defer(p) PROVE GeneralInv'
  BY <1>13, DeferStep, AcceptanceKept, BudgetKept DEF GeneralInv
<1>14. ASSUME NEW p \in Pollers, FetchFails(p) PROVE GeneralInv'
  BY <1>14, FetchFailsStep, AcceptanceKept, BudgetKept DEF GeneralInv
<1>15. ASSUME NEW p \in Pollers, Shed(p) PROVE GeneralInv'
  BY <1>15, ShedStep, AcceptanceKept, BudgetKept DEF GeneralInv
<1>16. ASSUME NEW p \in Pollers, RecordFails(p) PROVE GeneralInv'
  BY <1>16, RecordFailsStep, AcceptanceKept, BudgetKept DEF GeneralInv
<1>17. ASSUME NEW p \in Pollers, QueryFails(p) PROVE GeneralInv'
  BY <1>17, QueryFailsStep, AcceptanceKept, BudgetKept DEF GeneralInv
<1>18. ASSUME NEW p \in Pollers, Crash(p) PROVE GeneralInv'
  BY <1>18, CrashStep, AcceptanceKept, BudgetKept DEF GeneralInv
<1>19. ASSUME NEW p \in Pollers, NEW v \in Versions, Select(p, v) PROVE GeneralInv'
  BY <1>19, SelectStep, AcceptanceKept, BudgetKept DEF GeneralInv
<1>20. ASSUME NEW v \in Versions, Backfill(v) PROVE GeneralInv'
  BY <1>20, BackfillStep, AcceptanceKept, BudgetKept DEF GeneralInv
<1>21. ASSUME NEW v \in Versions, ClaimExpires(v) PROVE GeneralInv'
  BY <1>21, ClaimExpiresStep, AcceptanceKept, BudgetKept DEF GeneralInv
<1>22. ASSUME NEW v \in Versions, Reinject(v) PROVE GeneralInv'
  BY <1>22, ReinjectStep, AcceptanceKept, BudgetKept DEF GeneralInv
<1>23. ASSUME NEW r \in Records, Change(r) PROVE GeneralInv'
  BY <1>23, ChangeStep, ChangeAccepts, BudgetKept DEF GeneralInv
<1>24. ASSUME NEW r \in Records, OrderParks(r) PROVE GeneralInv'
  BY <1>24, OrderParksStep, AcceptanceKept, BudgetKept DEF GeneralInv
<1>25. ASSUME NEW r \in Records, OrderResumes(r) PROVE GeneralInv'
  BY <1>25, OrderResumesStep, AcceptanceKept, BudgetKept DEF GeneralInv
<1>26. ASSUME NEW r \in Records, OrderExecutes(r) PROVE GeneralInv'
  BY <1>26, OrderExecutesStep, AcceptanceKept, BudgetKept DEF GeneralInv
<1>27. ASSUME LeaseExpires PROVE GeneralInv'
  BY <1>27, LeaseExpiresStep, AcceptanceKept, BudgetKept DEF GeneralInv
<1>28. ASSUME RenewLease PROVE GeneralInv'
  BY <1>28, RenewLeaseStep, AcceptanceKept, BudgetKept DEF GeneralInv
<1>29. ASSUME Bootstrap PROVE GeneralInv'
  BY <1>29, BootstrapStep, AcceptanceKept, BudgetKept DEF GeneralInv
<1>30. ASSUME Pause PROVE GeneralInv'
  BY <1>30, PauseStep, AcceptanceKept, BudgetKept DEF GeneralInv
<1>31. ASSUME Activate PROVE GeneralInv'
  BY <1>31, ActivateStep, AcceptanceKept, BudgetKept DEF GeneralInv
<1> QED
  BY <1>1, <1>2, <1>3, <1>4, <1>5, <1>6, <1>7, <1>8, <1>9, <1>10, <1>11, <1>12, <1>13, <1>14,
     <1>15, <1>16, <1>17, <1>18, <1>19, <1>20, <1>21, <1>22, <1>23, <1>24, <1>25, <1>26, <1>27,
     <1>28, <1>29, <1>30, <1>31 DEF Next, PollerStep, Trouble

LEMMA GeneralStutters ==
  ASSUME GeneralInv, UNCHANGED vars
  PROVE  GeneralInv'
BY DEF GeneralInv, TypeInv, TypeOK, RowsExist, BudgetLeft, AcceptanceInv, EntriesExist, Watermark,
       PagesRead, NoChangeLost, Current, vars

LEMMA GeneralHolds == Spec => []GeneralInv
<1>1. Init => GeneralInv
  BY GeneralInit
<1>2. GeneralInv /\ [Next]_vars => GeneralInv'
  BY GeneralStep, GeneralStutters
<1> QED
  BY <1>1, <1>2, PTL DEF Spec

(* The rows and the calls keep their types.                                *)
THEOREM TypeCorrect == Spec => []TypeOK
<1>1. GeneralInv => TypeOK
  BY DEF GeneralInv, TypeInv
<1> QED
  BY <1>1, GeneralHolds, PTL

(* No change lies behind the watermark without an entry                    *)
(* (connector.service.ts:618-630).                                         *)
THEOREM NoChangeIsLost == Spec => []NoChangeLost
<1>1. GeneralInv => NoChangeLost
  BY DEF GeneralInv, AcceptanceInv
<1> QED
  BY <1>1, GeneralHolds, PTL

(***************************************************************************)
(* While no process stalls for longer than its lease or its claim, and     *)
(* every drain of the queue is one of a synchronization, with its          *)
(* heartbeat.                                                              *)
(***************************************************************************)
(* Every drain is the first step of a synchronization, whose lease the     *)
(* heartbeat keeps; one that runs by itself has none (913-946).            *)
SyncsOnly == Kinds \subseteq {"sync"}
(* No operator re-injects a dead entry: one that is stale then leaves its  *)
(* twin paused (IntakeQueue_stuck.cfg).                                    *)
NoReinjection == Budget["reinject"] = 0

AllSync == \A p \in Pollers : poller[p].kind = "sync"

(* A working call holds the lease.                                         *)
LeaseHeld ==
  Unstalled => \A p \in Pollers :
    poller[p].stage \in Working => lease.owner = p /\ ~lease.expired

(* The entry in a call's hand is claimed, or was re-opened by a start.     *)
InHand ==
  Unstalled => \A p \in Pollers :
    poller[p].stage \in Processing => entry[poller[p].row].status \in {"processing", "retry"}

(* What a call is about to write is what it compared.                      *)
Reading ==
  Unstalled => \A p \in Pollers :
    poller[p].stage = "write" =>
      /\ poller[p].seen = twin[changes[poller[p].row]]
      /\ poller[p].seen = 0 \/ Stamp(poller[p].seen) <= Stamp(poller[p].row)

SyncInv == AllSync /\ LeaseHeld /\ InHand /\ Reading

(* A twin is paused by a parked order, or by a dead entry.                 *)
PausesEarned ==
  Unstalled => \A r \in Records :
    sync[r] = "paused" =>
      \/ r \in parked
      \/ \E v \in DOMAIN changes : changes[v] = r /\ entry[v].status = "dead"

(* What a step does to entries that are held, and to those that are done.  *)
HeldStay == \A v \in Versions : entry[v].status \in {"processing", "retry"} =>
                                entry'[v].status \in {"processing", "retry"}
DeadStay == \A v \in Versions : entry[v].status = "dead" => entry'[v].status = "dead"
DoneStay == \A v \in Versions : entry[v].status = "completed" => entry'[v].status = "completed"
HistoryStays == \A v \in DOMAIN changes : v \in DOMAIN changes' /\ changes'[v] = changes[v]

(* Two working calls would both hold the lease.                            *)
LEMMA Alone ==
  ASSUME LeaseHeld, Unstalled, NEW p \in Pollers, NEW q \in Pollers,
         poller[p].stage \in Working, poller[q].stage \in Working
  PROVE  p = q
BY DEF LeaseHeld

LEMMA LeaseKept ==
  ASSUME LeaseHeld, CallsStay, LeaseStays, Unstalled' => Unstalled
  PROVE  LeaseHeld'
BY DEF LeaseHeld, CallsStay, LeaseStays

LEMMA HandsKept ==
  ASSUME TypeInv, InHand, HandsStay, HeldStay, Unstalled' => Unstalled
  PROVE  InHand'
<1> SUFFICES ASSUME Unstalled', NEW p \in Pollers, poller'[p].stage \in Processing
             PROVE  entry'[poller'[p].row].status \in {"processing", "retry"}
  BY DEF InHand
<1>1. poller[p].stage \in Processing /\ poller'[p].row = poller[p].row
  BY DEF HandsStay
<1>2. poller[p].row \in Versions /\ entry[poller[p].row].status \in {"processing", "retry"}
  BY <1>1, TypeFacts DEF TypeInv, RowsExist, InHand
<1> QED
  BY <1>1, <1>2 DEF HeldStay

LEMMA ReadingKept ==
  ASSUME TypeInv, Reading, WritesStay, TwinsStay, HistoryStays, Unstalled' => Unstalled
  PROVE  Reading'
<1> SUFFICES ASSUME Unstalled', NEW p \in Pollers, poller'[p].stage = "write"
             PROVE  /\ poller'[p].seen = twin'[changes'[poller'[p].row]]
                    /\ \/ poller'[p].seen = 0
                       \/ Stamp(poller'[p].seen) <= Stamp(poller'[p].row)
  BY DEF Reading
<1>1. poller'[p] = poller[p] /\ poller[p].stage = "write"
  BY DEF WritesStay
<1>2. changes'[poller[p].row] = changes[poller[p].row]
  BY <1>1 DEF TypeInv, RowsExist, HistoryStays, Processing
<1> QED
  BY <1>1, <1>2 DEF Reading, TwinsStay

LEMMA PausesKept ==
  ASSUME TypeInv, PausesEarned, PausesStay, DeadStay, HistoryStays, Unstalled' => Unstalled
  PROVE  PausesEarned'
<1> SUFFICES ASSUME Unstalled', NEW r \in Records, sync'[r] = "paused", r \notin parked'
             PROVE  \E v \in DOMAIN changes' : changes'[v] = r /\ entry'[v].status = "dead"
  BY DEF PausesEarned
<1>1. PICK v \in DOMAIN changes : changes[v] = r /\ entry[v].status = "dead"
  BY DEF PausesEarned, PausesStay
<1>2. v \in Versions
  BY TypeFacts
<1> QED
  BY <1>1, <1>2 DEF DeadStay, HistoryStays

TwinsAdvance == \A r \in Records : Stamp(twin'[r]) >= Stamp(twin[r])

(* What every step has to show.                                            *)
Advances == /\ SyncInv'
            /\ Unstalled => DoneStay /\ TwinsAdvance
            /\ NoReinjection /\ PausesEarned => PausesEarned'

(* An entry that does not move stays held, dead or done.                   *)
LEMMA EntriesKept ==
  ASSUME EntriesStay
  PROVE  HeldStay /\ DeadStay /\ DoneStay
BY DEF EntriesStay, HeldStay, DeadStay, DoneStay

LEMMA TwinsKept ==
  ASSUME TypeInv, TwinsStay
  PROVE  TwinsAdvance
<1>1. \A v \in Versions \cup {0} : Stamp(v) \in Nat
  BY StampsAreOrdered DEF Versions
<1> QED
  BY <1>1 DEF TwinsStay, TwinsAdvance, TypeInv, TypeOK

LEMMA HistoryKept ==
  ASSUME PagesStay
  PROVE  HistoryStays
BY DEF PagesStay, HistoryStays

LEMMA SyncKept ==
  ASSUME GeneralInv, SyncInv, TypeInv', Spent, KindsStay, HistoryStays
  PROVE  /\ AllSync'
         /\ Unstalled' => Unstalled
         /\ CallsStay /\ LeaseStays => LeaseHeld'
         /\ HandsStay /\ HeldStay => InHand'
         /\ WritesStay /\ TwinsStay => Reading'
         /\ TwinsStay => TwinsAdvance
         /\ PausesStay /\ DeadStay /\ PausesEarned => PausesEarned'
<1>1. Unstalled' => Unstalled
  BY BudgetKept DEF GeneralInv
<1>2. AllSync'
  BY DEF SyncInv, AllSync, KindsStay
<1>3. TypeInv /\ LeaseHeld /\ InHand /\ Reading
  BY DEF GeneralInv, SyncInv
<1>4. CallsStay /\ LeaseStays => LeaseHeld'
  BY <1>1, <1>3, LeaseKept
<1>5. HandsStay /\ HeldStay => InHand'
  BY <1>1, <1>3, HandsKept
<1>6. WritesStay /\ TwinsStay => Reading'
  BY <1>1, <1>3, ReadingKept
<1>7. TwinsStay => TwinsAdvance
  BY <1>3, TwinsKept
<1>8. PausesStay /\ DeadStay /\ PausesEarned => PausesEarned'
  BY <1>1, <1>3, PausesKept
<1> QED
  BY <1>1, <1>2, <1>4, <1>5, <1>6, <1>7, <1>8

(* A step that leaves all of it alone.                                     *)
LEMMA QuietAdvances ==
  ASSUME GeneralInv, SyncInv, TypeInv', Quiet, KindsStay
  PROVE  Advances
BY SyncKept, EntriesKept, HistoryKept DEF Quiet, Advances, SyncInv

(* All but the lease stays.                                                *)
LEMMA LeaseAdvances ==
  ASSUME GeneralInv, SyncInv, TypeInv', LeaseHeld', PagesStay, HandsStay, WritesStay, EntriesStay,
         TwinsStay, PausesStay, KindsStay, Spent
  PROVE  Advances
BY SyncKept, EntriesKept, HistoryKept DEF Advances, SyncInv

(* Entries change, but no claimed one and no finished one is re-opened.    *)
LEMMA EntriesAdvance ==
  ASSUME GeneralInv, SyncInv, TypeInv', HistoryStays, HandsStay, WritesStay, TwinsStay,
         PausesStay,
         CallsStay, LeaseStays, KindsStay, Spent, HeldStay, DeadStay, DoneStay
  PROVE  Advances
BY SyncKept DEF Advances, SyncInv

LEMMA AcquireAdvances ==
  ASSUME GeneralInv, SyncInv, NEW p \in Pollers, Acquire(p)
  PROVE  Advances
<1>1. /\ TypeInv' /\ PagesStay /\ HandsStay /\ WritesStay /\ EntriesStay /\ TwinsStay
      /\ PausesStay /\ KindsStay /\ Spent /\ TypeInv
  BY AcquireStep DEF GeneralInv
<1>2. Unstalled' => Unstalled
  BY <1>1, BudgetKept DEF GeneralInv
<1>3. CASE lease.owner = NoOwner \/ lease.expired
  <2>1. lease' = [owner |-> p, expired |-> FALSE] /\ Goto(p, "drain")
    BY <1>3 DEF Acquire
  <2>2. Unstalled => \A q \in Pollers : poller[q].stage \notin Working
    BY <1>3, OwnerAssumption DEF SyncInv, LeaseHeld
  <2>3. \A q \in Pollers : q # p => poller'[q] = poller[q]
    BY <1>1, <2>1, TypeFacts, Gone DEF Working, Now, Only
  <2> QED
    BY <1>1, <1>2, <2>1, <2>2, <2>3, LeaseAdvances DEF LeaseHeld
<1>4. CASE ~(lease.owner = NoOwner \/ lease.expired)
  <2>1. lease' = lease /\ CallsStay
    BY <1>1, <1>4, TypeFacts, Left DEF Acquire, Now, Only, CallsStay, Working, Processing
  <2> QED
    BY <1>1, <1>2, <2>1, LeaseKept, LeaseAdvances DEF LeaseStays, SyncInv
<1> QED
  BY <1>3, <1>4

LEMMA ReleaseAdvances ==
  ASSUME GeneralInv, SyncInv, NEW p \in Pollers, Release(p)
  PROVE  Advances
<1>1. /\ TypeInv' /\ PagesStay /\ HandsStay /\ WritesStay /\ EntriesStay /\ TwinsStay
      /\ PausesStay /\ CallsStay /\ KindsStay /\ Spent /\ TypeInv
  BY ReleaseStep DEF GeneralInv
<1>2. Unstalled' => Unstalled
  BY <1>1, BudgetKept DEF GeneralInv
<1>3. Now(p, "idle", "sync", FALSE, 0, 0, 0, {})
  BY <1>1, TypeFacts, Left DEF Release
<1>4. poller[p].stage \in Working /\ poller'[p].stage \notin Working
  BY <1>3 DEF Release, Working, Processing, Now
<1>5. Unstalled => \A q \in Pollers : q # p => poller[q].stage \notin Working
  BY <1>4, Alone DEF SyncInv
<1> QED
  BY <1>1, <1>2, <1>4, <1>5, LeaseAdvances DEF LeaseHeld, CallsStay

LEMMA LeaseExpiresAdvances ==
  ASSUME GeneralInv, SyncInv, LeaseExpires
  PROVE  Advances
<1>1. /\ TypeInv' /\ PagesStay /\ HandsStay /\ WritesStay /\ EntriesStay /\ TwinsStay
      /\ PausesStay /\ CallsStay /\ KindsStay /\ Spent /\ TypeInv
  BY LeaseExpiresStep DEF GeneralInv
<1>2. Unstalled' => Unstalled
  BY <1>1, BudgetKept DEF GeneralInv
<1>3. CASE Beating
  <2>1. budget'["stall"] < budget["stall"] /\ budget["stall"] <= Budget["stall"]
    BY <1>1, <1>3, BudgetSpent, TypeFacts DEF LeaseExpires, Troubles, GeneralInv, BudgetLeft
  <2>2. budget'["stall"] \in Nat /\ budget["stall"] \in Nat /\ Budget["stall"] \in Nat
    BY <1>1, BudgetAssumption DEF TypeInv, TypeOK, Troubles
  <2>3. ~Unstalled'
    BY <2>1, <2>2 DEF Unstalled
  <2> QED
    BY <1>1, <2>3, LeaseAdvances DEF LeaseHeld
<1>4. CASE ~Beating
  <2>1. Unstalled => \A q \in Pollers : poller[q].stage \notin Working
    BY <1>4 DEF Beating, SyncInv, AllSync, LeaseHeld
  <2> QED
    BY <1>1, <1>2, <2>1, LeaseAdvances DEF LeaseHeld, CallsStay
<1> QED
  BY <1>3, <1>4

LEMMA RenewLeaseAdvances ==
  ASSUME GeneralInv, SyncInv, RenewLease
  PROVE  Advances
<1>1. /\ TypeInv' /\ PagesStay /\ HandsStay /\ WritesStay /\ EntriesStay /\ TwinsStay
      /\ PausesStay /\ CallsStay /\ KindsStay /\ Spent /\ TypeInv
  BY RenewLeaseStep DEF GeneralInv
<1>2. Unstalled' => Unstalled
  BY <1>1, BudgetKept DEF GeneralInv
<1>3. lease \in [owner : Pollers \cup {NoOwner}, expired : BOOLEAN]
  BY <1>1 DEF TypeInv, TypeOK
<1>4. lease'.owner = lease.owner /\ lease'.expired = FALSE
  BY <1>3 DEF RenewLease
<1> QED
  BY <1>1, <1>2, <1>4, LeaseAdvances DEF SyncInv, LeaseHeld, CallsStay

(* A fetch, and a change at the provider, touch no entry and no twin.      *)
LEMMA FetchAdvances ==
  ASSUME GeneralInv, SyncInv, NEW p \in Pollers, Fetch(p)
  PROVE  Advances
<1>1. HistoryStays
  BY DEF Fetch, provider, HistoryStays
<1> QED
  BY <1>1, FetchStep, EntriesKept, EntriesAdvance DEF GeneralInv

LEMMA ChangeAdvances ==
  ASSUME GeneralInv, SyncInv, NEW r \in Records, Change(r)
  PROVE  Advances
<1>1. HistoryStays
  BY TypeFacts DEF GeneralInv, Change, HistoryStays
<1> QED
  BY <1>1, ChangeStep, EntriesKept, EntriesAdvance DEF GeneralInv

(* Entries that were not there are queued.                                 *)
LEMMA AcceptAdvances ==
  ASSUME GeneralInv, SyncInv, NEW p \in Pollers, Accept(p)
  PROVE  Advances
<1>1. HistoryStays
  BY DEF Accept, HistoryStays
<1>2. HeldStay /\ DeadStay /\ DoneStay
  BY AcceptStep DEF GeneralInv, HeldStay, DeadStay, DoneStay
<1> QED
  BY <1>1, <1>2, AcceptStep, EntriesAdvance DEF GeneralInv

LEMMA BackfillAdvances ==
  ASSUME GeneralInv, SyncInv, NEW v \in Versions, Backfill(v)
  PROVE  Advances
<1>1. HeldStay /\ DeadStay /\ DoneStay
  BY BackfillStep DEF GeneralInv, HeldStay, DeadStay, DoneStay
<1> QED
  BY <1>1, BackfillStep, HistoryKept, EntriesAdvance DEF GeneralInv

LEMMA BootstrapAdvances ==
  ASSUME GeneralInv, SyncInv, Bootstrap
  PROVE  Advances
<1>1. HeldStay /\ DeadStay /\ DoneStay
  BY BootstrapStep DEF GeneralInv, HeldStay, DeadStay, DoneStay
<1> QED
  BY <1>1, BootstrapStep, HistoryKept, EntriesAdvance DEF GeneralInv

(* A claim takes an entry that is due, or was given up.                    *)
LEMMA ClaimAdvances ==
  ASSUME GeneralInv, SyncInv, NEW p \in Pollers, Claim(p)
  PROVE  Advances
<1>1. /\ TypeInv' /\ PagesStay /\ WritesStay /\ TwinsStay /\ PausesStay /\ CallsStay
      /\ LeaseStays /\ Spent /\ KindsStay /\ TypeInv
      /\ \A q \in Pollers : q # p => poller'[q] = poller[q]
      /\ \/ EntriesStay /\ poller'[p].stage \notin Processing
         \/ /\ Claimable(entry[poller[p].row]) /\ Becomes(poller[p].row, "processing")
            /\ poller'[p].row = poller[p].row
  BY ClaimStep DEF GeneralInv
<1>2. HeldStay /\ DeadStay /\ DoneStay
  BY <1>1, EntriesKept DEF Becomes, Claimable, HeldStay, DeadStay, DoneStay
<1>3. Unstalled' => Unstalled
  BY <1>1, BudgetKept DEF GeneralInv
<1>4. InHand'
  <2> SUFFICES ASSUME Unstalled', NEW q \in Pollers, poller'[q].stage \in Processing
               PROVE  entry'[poller'[q].row].status \in {"processing", "retry"}
    BY DEF InHand
  <2>1. CASE q = p
    BY <1>1, <2>1 DEF Becomes
  <2>2. CASE q # p
    <3>1. poller'[q] = poller[q]
      BY <1>1, <2>2
    <3>2. /\ poller[q].row \in Versions
          /\ entry[poller[q].row].status \in {"processing", "retry"}
      BY <1>1, <1>3, <3>1, TypeFacts DEF TypeInv, RowsExist, SyncInv, InHand
    <3> QED
      BY <1>2, <3>1, <3>2 DEF HeldStay
  <2> QED
    BY <2>1, <2>2
<1> QED
  BY <1>1, <1>2, <1>4, HistoryKept, SyncKept DEF Advances, SyncInv

(* A read compares the twin with the version in hand.                      *)
LEMMA ReadAdvances ==
  ASSUME GeneralInv, SyncInv, NEW p \in Pollers, Read(p)
  PROVE  Advances
<1>1. /\ TypeInv' /\ PagesStay /\ HandsStay /\ EntriesStay /\ TwinsStay /\ PausesStay
      /\ CallsStay /\ LeaseStays /\ Spent /\ KindsStay /\ TypeInv
      /\ poller[p].row \in DOMAIN changes /\ poller'[p].row = poller[p].row
      /\ poller'[p].seen = twin[changes[poller[p].row]]
      /\ poller'[p].stage = "write" => ~Stale(poller[p].row, poller'[p].seen)
      /\ \A q \in Pollers : q # p => poller'[q] = poller[q]
  BY ReadStep DEF GeneralInv
<1>2. Unstalled' => Unstalled
  BY <1>1, BudgetKept DEF GeneralInv
<1>3. Reading'
  <2> SUFFICES ASSUME Unstalled', NEW q \in Pollers, poller'[q].stage = "write"
               PROVE  /\ poller'[q].seen = twin'[changes'[poller'[q].row]]
                      /\ \/ poller'[q].seen = 0
                         \/ Stamp(poller'[q].seen) <= Stamp(poller'[q].row)
    BY DEF Reading
  <2>1. changes' = changes /\ twin' = twin
    BY <1>1 DEF PagesStay, TwinsStay
  <2>2. CASE q = p
    <3>1. poller'[p].seen \in Versions \cup {0} /\ poller'[p].row \in Versions
      <4>1. poller[p].row \in Versions /\ changes[poller[p].row] \in Records
        BY <1>1, TypeFacts
      <4> QED
        BY <1>1, <4>1 DEF TypeInv, TypeOK
    <3>2. Stamp(poller'[p].seen) \in Nat /\ Stamp(poller'[p].row) \in Nat
      BY <3>1, VersionStamps
    <3>3. poller'[p].seen = 0 \/ ~(Stamp(poller'[p].row) < Stamp(poller'[p].seen))
      BY <1>1, <2>2 DEF Stale
    <3> QED
      BY <1>1, <2>1, <2>2, <3>2, <3>3
  <2>3. CASE q # p
    BY <1>1, <1>2, <2>1, <2>3 DEF SyncInv, Reading
  <2> QED
    BY <2>2, <2>3
<1> QED
  BY <1>1, <1>3, HistoryKept, EntriesKept, SyncKept DEF Advances, SyncInv

(* No other call compared the twin that a write changes.                   *)
LEMMA WriteAdvances ==
  ASSUME GeneralInv, SyncInv, NEW p \in Pollers, Write(p)
  PROVE  Advances
<1> DEFINE v == poller[p].row
           r == changes[v]
<1>1. /\ TypeInv' /\ PagesStay /\ HandsStay /\ WritesStay /\ EntriesStay /\ CallsStay
      /\ LeaseStays /\ Spent /\ KindsStay /\ TypeInv
      /\ poller[p].stage = "write" /\ v \in DOMAIN changes /\ parked' = parked
      /\ \/ TwinsStay /\ PausesStay
         \/ /\ ~(poller[p].seen = 0 /\ twin[r] # 0)
            /\ twin' = [twin EXCEPT ![r] = v]
            /\ sync' = [sync EXCEPT ![r] = "synced"]
  BY WriteStep DEF GeneralInv
<1>2. HistoryStays /\ HeldStay /\ DeadStay /\ DoneStay
  BY <1>1, HistoryKept, EntriesKept
<1>3. Unstalled' => Unstalled
  BY <1>1, BudgetKept DEF GeneralInv
<1>4. Reading'
  <2>1. Unstalled => \A q \in Pollers : poller'[q].stage # "write"
    <3> SUFFICES ASSUME Unstalled, NEW q \in Pollers, poller'[q].stage = "write"
                 PROVE  FALSE
      OBVIOUS
    <3>1. poller[q].stage = "write"
      BY <1>1 DEF WritesStay
    <3>2. q = p
      BY <1>1, <3>1, Alone DEF SyncInv, Working, Processing
    <3>3. poller'[p].stage # "write"
      <4>1. PICK s \in {"fail", "finish"} : Goto(p, s)
        BY DEF Write
      <4> QED
        BY <1>1, <4>1, TypeFacts, Gone DEF Now, Working, Processing
    <3> QED
      BY <3>2, <3>3
  <2> QED
    BY <1>3, <2>1 DEF Reading
<1>5. v \in Versions /\ r \in Records
  BY <1>1, TypeFacts
<1>6. Unstalled => TwinsAdvance
  <2> SUFFICES ASSUME Unstalled, NEW q \in Records
               PROVE  Stamp(twin'[q]) >= Stamp(twin[q])
    BY DEF TwinsAdvance
  <2>0. twin[q] \in Versions \cup {0} /\ twin[r] \in Versions \cup {0}
    BY <1>1, <1>5 DEF TypeInv, TypeOK
  <2>1. /\ Stamp(twin[q]) \in Nat /\ Stamp(v) \in Nat /\ Stamp(0) <= Stamp(v)
    BY <1>5, <2>0, VersionStamps
  <2>2. twin[r] = 0 \/ Stamp(twin[r]) <= Stamp(v)
    BY <1>1 DEF SyncInv, Reading
  <2>3. twin'[q] = twin[q] \/ (q = r /\ twin'[q] = v)
    <3>1. twin \in [Records -> Versions \cup {0}]
      BY <1>1 DEF TypeInv, TypeOK
    <3> QED
      BY <1>1, <1>5, <3>1 DEF TwinsStay
  <2> QED
    BY <2>1, <2>2, <2>3
<1>7. PausesEarned => PausesEarned'
  <2>1. CASE PausesStay
    BY <1>1, <1>2, <2>1, SyncKept
  <2>2. CASE sync' = [sync EXCEPT ![r] = "synced"]
    <3> SUFFICES ASSUME PausesEarned, Unstalled', NEW q \in Records, sync'[q] = "paused",
                        q \notin parked'
                 PROVE  \E u \in DOMAIN changes' : changes'[u] = q /\ entry'[u].status = "dead"
      BY DEF PausesEarned
    <3>1. sync[q] = "paused"
      BY <1>1, <2>2 DEF TypeInv, TypeOK
    <3>2. PICK u \in DOMAIN changes : changes[u] = q /\ entry[u].status = "dead"
      BY <1>1, <1>3, <3>1 DEF PausesEarned
    <3>3. u \in Versions
      BY <1>1, TypeFacts
    <3> QED
      BY <1>2, <3>2, <3>3 DEF DeadStay, HistoryStays
  <2> QED
    BY <1>1, <2>1, <2>2
<1> QED
  BY <1>1, <1>2, <1>4, <1>6, <1>7, SyncKept DEF Advances, SyncInv

(* A call that ends the processing of an entry ends that of its own: no    *)
(* other call has one in hand.                                             *)
LEMMA EndsItsOwn ==
  ASSUME TypeInv, SyncInv, NEW p \in Pollers, poller[p].stage \in Processing,
         poller'[p].stage = "drain",
         \A q \in Pollers : q # p => poller'[q] = poller[q],
         Unstalled' => Unstalled,
         EntriesStay \/ \E o \in {"completed", "dead", "retry"} : Becomes(poller[p].row, o)
  PROVE  InHand' /\ (Unstalled => DeadStay /\ DoneStay)
<1>1. Unstalled => \A q \in Pollers : poller'[q].stage \notin Processing
  <2> SUFFICES ASSUME Unstalled, NEW q \in Pollers, poller'[q].stage \in Processing
               PROVE  FALSE
    OBVIOUS
  <2>1. q # p
    BY DEF Processing
  <2>2. poller[q].stage \in Working /\ poller[p].stage \in Working
    BY <2>1 DEF Working
  <2> QED
    BY <2>1, <2>2, Alone DEF SyncInv
<1>2. ASSUME Unstalled
      PROVE  DeadStay /\ DoneStay
  <2>1. CASE EntriesStay
    BY <2>1, EntriesKept
  <2>2. ASSUME NEW o \in {"completed", "dead", "retry"}, Becomes(poller[p].row, o)
        PROVE  DeadStay /\ DoneStay
    <3>1. entry[poller[p].row].status \in {"processing", "retry"}
      BY <1>2 DEF SyncInv, InHand
    <3> QED
      BY <2>2, <3>1 DEF Becomes, DeadStay, DoneStay
  <2> QED
    BY <2>1, <2>2
<1> QED
  BY <1>1, <1>2 DEF InHand

LEMMA CompleteAdvances ==
  ASSUME GeneralInv, SyncInv, NEW p \in Pollers, Complete(p)
  PROVE  Advances
<1>1. /\ TypeInv' /\ PagesStay /\ HandsStay /\ WritesStay /\ TwinsStay /\ PausesStay
      /\ CallsStay /\ LeaseStays /\ Spent /\ KindsStay /\ TypeInv
      /\ poller[p].stage = "finish" /\ poller'[p].stage = "drain"
      /\ \A q \in Pollers : q # p => poller'[q] = poller[q]
      /\ Becomes(poller[p].row, "completed")
  BY CompleteStep DEF GeneralInv
<1>2. Unstalled' => Unstalled
  BY <1>1, BudgetKept DEF GeneralInv
<1>3. InHand' /\ (Unstalled => DeadStay /\ DoneStay)
  BY <1>1, <1>2, EndsItsOwn, EntriesKept DEF Processing
<1>4. PausesEarned => PausesEarned'
  <2>1. CASE Unstalled
    BY <1>1, <1>3, <2>1, HistoryKept, SyncKept
  <2>2. CASE ~Unstalled
    BY <1>2, <2>2 DEF PausesEarned
  <2> QED
    BY <2>1, <2>2
<1> QED
  BY <1>1, <1>3, <1>4, HistoryKept, SyncKept DEF Advances, SyncInv

LEMMA DeferAdvances ==
  ASSUME GeneralInv, SyncInv, NEW p \in Pollers, Defer(p)
  PROVE  Advances
<1>1. /\ TypeInv' /\ PagesStay /\ HandsStay /\ WritesStay /\ TwinsStay /\ PausesStay
      /\ CallsStay /\ LeaseStays /\ Spent /\ KindsStay /\ TypeInv
      /\ poller[p].stage = "defer" /\ poller'[p].stage = "drain"
      /\ \A q \in Pollers : q # p => poller'[q] = poller[q]
      /\ EntriesStay \/ Becomes(poller[p].row, "retry")
  BY DeferStep DEF GeneralInv
<1>2. Unstalled' => Unstalled
  BY <1>1, BudgetKept DEF GeneralInv
<1>3. InHand' /\ (Unstalled => DeadStay /\ DoneStay)
  BY <1>1, <1>2, EndsItsOwn, EntriesKept DEF Processing
<1>4. PausesEarned => PausesEarned'
  <2>1. CASE Unstalled
    BY <1>1, <1>3, <2>1, HistoryKept, SyncKept
  <2>2. CASE ~Unstalled
    BY <1>2, <2>2 DEF PausesEarned
  <2> QED
    BY <2>1, <2>2
<1> QED
  BY <1>1, <1>3, <1>4, HistoryKept, SyncKept DEF Advances, SyncInv

(* A final failure leaves a dead entry beside the pause.                   *)
LEMMA FailAdvances ==
  ASSUME GeneralInv, SyncInv, NEW p \in Pollers, Fail(p)
  PROVE  Advances
<1> DEFINE v == poller[p].row
           r == changes[v]
<1>1. /\ TypeInv' /\ PagesStay /\ HandsStay /\ WritesStay /\ TwinsStay
      /\ CallsStay /\ LeaseStays /\ Spent /\ KindsStay /\ TypeInv
      /\ poller[p].stage = "fail" /\ poller'[p].stage = "drain" /\ v \in DOMAIN changes
      /\ \A q \in Pollers : q # p => poller'[q] = poller[q]
  BY FailStep DEF GeneralInv
<1>2. PICK o \in {"dead", "retry"} :
        /\ Becomes(v, o)
        /\ \/ PausesStay
           \/ /\ o = "dead" /\ parked' = parked
              /\ sync' = [sync EXCEPT ![r] = "paused"]
  BY FailStep DEF GeneralInv
<1>3. Unstalled' => Unstalled
  BY <1>1, BudgetKept DEF GeneralInv
<1>4. InHand' /\ (Unstalled => DeadStay /\ DoneStay)
  BY <1>1, <1>2, <1>3, EndsItsOwn DEF Processing
<1>5. PausesEarned => PausesEarned'
  <2>1. CASE PausesStay /\ Unstalled
    BY <1>1, <1>4, <2>1, HistoryKept, SyncKept
  <2>2. CASE o = "dead" /\ parked' = parked /\ sync' = [sync EXCEPT ![r] = "paused"]
    <3> SUFFICES ASSUME PausesEarned, Unstalled', NEW q \in Records, sync'[q] = "paused",
                        q \notin parked'
                 PROVE  \E u \in DOMAIN changes' : changes'[u] = q /\ entry'[u].status = "dead"
      BY DEF PausesEarned
    <3>1. CASE q = r
      BY <1>1, <1>2, <2>2, <3>1 DEF Becomes, PagesStay
    <3>2. CASE q # r
      <4>1. sync[q] = "paused"
        BY <1>1, <2>2, <3>2 DEF TypeInv, TypeOK
      <4>2. PICK u \in DOMAIN changes : changes[u] = q /\ entry[u].status = "dead"
        BY <1>3, <2>2, <4>1 DEF PausesEarned
      <4>3. u \in Versions /\ DeadStay
        BY <1>1, <1>3, <1>4, TypeFacts
      <4> QED
        BY <1>1, <4>2, <4>3 DEF DeadStay, PagesStay
    <3> QED
      BY <3>1, <3>2
  <2>3. CASE ~Unstalled
    BY <1>3, <2>3 DEF PausesEarned
  <2> QED
    BY <1>2, <2>1, <2>2, <2>3
<1> QED
  BY <1>1, <1>4, <1>5, HistoryKept, SyncKept DEF Advances, SyncInv

(* A re-injection takes away the dead entry that explains a pause.         *)
LEMMA ReinjectAdvances ==
  ASSUME GeneralInv, SyncInv, NEW v \in Versions, Reinject(v)
  PROVE  Advances
<1>1. /\ TypeInv' /\ PagesStay /\ HandsStay /\ WritesStay /\ TwinsStay /\ PausesStay
      /\ CallsStay /\ LeaseStays /\ Spent /\ KindsStay /\ TypeInv
      /\ entry[v].status = "dead" /\ Becomes(v, "pending")
      /\ budget'["reinject"] < budget["reinject"]
  BY ReinjectStep DEF GeneralInv
<1>2. HeldStay /\ DoneStay
  BY <1>1 DEF Becomes, HeldStay, DoneStay
<1>3. ~NoReinjection
  <2>1. /\ budget["reinject"] \in Nat /\ budget'["reinject"] \in Nat
        /\ budget["reinject"] <= Budget["reinject"]
    BY <1>1, TypeFacts DEF GeneralInv, BudgetLeft, TypeInv, TypeOK, Troubles
  <2> QED
    BY <1>1, <2>1 DEF NoReinjection
<1> QED
  BY <1>1, <1>2, <1>3, HistoryKept, SyncKept DEF Advances, SyncInv

(* The outbound queue pauses a twin for a parked order and no other.       *)
LEMMA OrdersAdvance ==
  ASSUME GeneralInv, SyncInv, NEW r \in Records,
         OrderParks(r) \/ OrderResumes(r) \/ OrderExecutes(r)
  PROVE  Advances
<1>1. /\ TypeInv' /\ PagesStay /\ HandsStay /\ WritesStay /\ EntriesStay /\ TwinsStay
      /\ CallsStay /\ LeaseStays /\ Spent /\ KindsStay /\ TypeInv
  BY OrderParksStep, OrderResumesStep, OrderExecutesStep DEF GeneralInv
<1>2. Unstalled' => Unstalled
  BY <1>1, BudgetKept DEF GeneralInv
<1>3. PausesEarned => PausesEarned'
  <2> SUFFICES ASSUME PausesEarned, Unstalled', NEW q \in Records, sync'[q] = "paused",
                      q \notin parked'
               PROVE  \E u \in DOMAIN changes' : changes'[u] = q /\ entry'[u].status = "dead"
    BY DEF PausesEarned
  <2>1. sync[q] = "paused" /\ q \notin parked
    BY <1>1 DEF OrderParks, OrderResumes, OrderExecutes, TypeInv, TypeOK
  <2>2. PICK u \in DOMAIN changes : changes[u] = q /\ entry[u].status = "dead"
    BY <1>2, <2>1 DEF PausesEarned
  <2>3. u \in Versions
    BY <1>1, TypeFacts
  <2> QED
    BY <1>1, <2>2, <2>3 DEF EntriesStay, PagesStay
<1> QED
  BY <1>1, <1>3, HistoryKept, EntriesKept, SyncKept DEF Advances, SyncInv

(* A synchronization starts.                                               *)
LEMMA StartAdvances ==
  ASSUME SyncsOnly, GeneralInv, SyncInv, NEW p \in Pollers, Start(p)
  PROVE  Advances
<1>1. /\ TypeInv' /\ Quiet
      /\ \A q \in Pollers : poller'[q].kind \in Kinds \cup {poller[q].kind}
  BY StartStep DEF GeneralInv
<1>2. KindsStay
  BY <1>1 DEF SyncsOnly, KindsStay
<1> QED
  BY <1>1, <1>2, QuietAdvances

LEMMA SyncStep ==
  ASSUME SyncsOnly, GeneralInv, SyncInv, Next
  PROVE  Advances
<1>1. ASSUME NEW p \in Pollers, Start(p) PROVE Advances
  BY <1>1, StartAdvances
<1>2. ASSUME NEW p \in Pollers, Acquire(p) PROVE Advances
  BY <1>2, AcquireAdvances
<1>3. ASSUME NEW p \in Pollers, Release(p) PROVE Advances
  BY <1>3, ReleaseAdvances
<1>4. ASSUME NEW p \in Pollers, DrainDone(p) PROVE Advances
  BY <1>4, DrainDoneStep, QuietAdvances DEF GeneralInv, Quiet
<1>5. ASSUME NEW p \in Pollers, Fetch(p) PROVE Advances
  BY <1>5, FetchAdvances
<1>6. ASSUME NEW p \in Pollers, Accept(p) PROVE Advances
  BY <1>6, AcceptAdvances
<1>7. ASSUME NEW p \in Pollers, Finish(p) PROVE Advances
  BY <1>7, FinishStep, QuietAdvances DEF GeneralInv, Quiet
<1>8. ASSUME NEW p \in Pollers, Claim(p) PROVE Advances
  BY <1>8, ClaimAdvances
<1>9. ASSUME NEW p \in Pollers, Read(p) PROVE Advances
  BY <1>9, ReadAdvances
<1>10. ASSUME NEW p \in Pollers, Write(p) PROVE Advances
  BY <1>10, WriteAdvances
<1>11. ASSUME NEW p \in Pollers, Complete(p) PROVE Advances
  BY <1>11, CompleteAdvances
<1>12. ASSUME NEW p \in Pollers, Fail(p) PROVE Advances
  BY <1>12, FailAdvances
<1>13. ASSUME NEW p \in Pollers, Defer(p) PROVE Advances
  BY <1>13, DeferAdvances
<1>14. ASSUME NEW p \in Pollers, FetchFails(p) PROVE Advances
  BY <1>14, FetchFailsStep, QuietAdvances DEF GeneralInv, Quiet
<1>15. ASSUME NEW p \in Pollers, Shed(p) PROVE Advances
  BY <1>15, ShedStep, QuietAdvances DEF GeneralInv, Quiet
<1>16. ASSUME NEW p \in Pollers, RecordFails(p) PROVE Advances
  BY <1>16, RecordFailsStep, QuietAdvances DEF GeneralInv, Quiet
<1>17. ASSUME NEW p \in Pollers, QueryFails(p) PROVE Advances
  BY <1>17, QueryFailsStep, QuietAdvances DEF GeneralInv, Quiet
<1>18. ASSUME NEW p \in Pollers, Crash(p) PROVE Advances
  BY <1>18, CrashStep, QuietAdvances DEF GeneralInv, Quiet
<1>19. ASSUME NEW p \in Pollers, NEW v \in Versions, Select(p, v) PROVE Advances
  BY <1>19, SelectStep, QuietAdvances DEF GeneralInv, Quiet
<1>20. ASSUME NEW v \in Versions, Backfill(v) PROVE Advances
  BY <1>20, BackfillAdvances
<1>21. ASSUME NEW v \in Versions, ClaimExpires(v) PROVE Advances
  BY <1>21, ClaimExpiresStep, QuietAdvances DEF GeneralInv, Quiet
<1>22. ASSUME NEW v \in Versions, Reinject(v) PROVE Advances
  BY <1>22, ReinjectAdvances
<1>23. ASSUME NEW r \in Records, Change(r) PROVE Advances
  BY <1>23, ChangeAdvances
<1>24. ASSUME NEW r \in Records, OrderParks(r) PROVE Advances
  BY <1>24, OrdersAdvance
<1>25. ASSUME NEW r \in Records, OrderResumes(r) PROVE Advances
  BY <1>25, OrdersAdvance
<1>26. ASSUME NEW r \in Records, OrderExecutes(r) PROVE Advances
  BY <1>26, OrdersAdvance
<1>27. ASSUME LeaseExpires PROVE Advances
  BY <1>27, LeaseExpiresAdvances
<1>28. ASSUME RenewLease PROVE Advances
  BY <1>28, RenewLeaseAdvances
<1>29. ASSUME Bootstrap PROVE Advances
  BY <1>29, BootstrapAdvances
<1>30. ASSUME Pause PROVE Advances
  BY <1>30, PauseStep, QuietAdvances DEF GeneralInv, Quiet
<1>31. ASSUME Activate PROVE Advances
  BY <1>31, ActivateStep, QuietAdvances DEF GeneralInv, Quiet
<1> QED
  BY <1>1, <1>2, <1>3, <1>4, <1>5, <1>6, <1>7, <1>8, <1>9, <1>10, <1>11, <1>12, <1>13, <1>14,
     <1>15, <1>16, <1>17, <1>18, <1>19, <1>20, <1>21, <1>22, <1>23, <1>24, <1>25, <1>26, <1>27,
     <1>28, <1>29, <1>30, <1>31 DEF Next, PollerStep, Trouble

LEMMA SyncStutters ==
  ASSUME GeneralInv, SyncInv, UNCHANGED vars
  PROVE  Advances
<1>1. \A v \in Versions \cup {0} : Stamp(v) \in Nat
  BY VersionStamps
<1>2. TwinsAdvance
  BY <1>1 DEF GeneralInv, TypeInv, TypeOK, TwinsAdvance, vars
<1>3. SyncInv' /\ DoneStay
  BY DEF SyncInv, AllSync, LeaseHeld, InHand, Reading, Unstalled, DoneStay, vars
<1>4. PausesEarned => PausesEarned'
  BY DEF PausesEarned, Unstalled, vars
<1> QED
  BY <1>2, <1>3, <1>4 DEF Advances

LEMMA SyncInit == Init => SyncInv /\ PausesEarned
<1> SUFFICES ASSUME Init
             PROVE  SyncInv /\ PausesEarned
  OBVIOUS
<1>1. \A p \in Pollers : poller[p].stage = "idle" /\ poller[p].kind = "sync"
  BY DEF Init, Idle
<1>2. SyncInv
  BY <1>1 DEF SyncInv, AllSync, LeaseHeld, InHand, Reading, Working, Processing
<1>3. PausesEarned
  BY DEF Init, PausesEarned
<1> QED
  BY <1>2, <1>3

LEMMA SyncHolds == SyncsOnly => (Spec => [](GeneralInv /\ SyncInv))
<1> SUFFICES ASSUME SyncsOnly
             PROVE  Spec => [](GeneralInv /\ SyncInv)
  OBVIOUS
<1>1. Init => SyncInv
  BY SyncInit
<1>2. GeneralInv /\ SyncInv /\ [Next]_vars => SyncInv'
  BY SyncStep, SyncStutters DEF Advances
<1> QED
  BY <1>1, <1>2, GeneralHolds, PTL DEF Spec

(* One synchronization of a connector runs at a time                       *)
(* (connector.service.ts:548-554).                                         *)
THEOREM SyncsAreExclusive == SyncsOnly => (Spec => []OneAtATime)
<1> SUFFICES ASSUME SyncsOnly
             PROVE  Spec => []OneAtATime
  OBVIOUS
<1>1. SyncInv => OneAtATime
  BY Alone DEF SyncInv, OneAtATime
<1> QED
  BY <1>1, SyncHolds, PTL

(* No twin goes back in the provider's time, and no completed entry is     *)
(* processed again (connector.service.ts:1068-1074, 989).                  *)
THEOREM MirrorsAdvance == SyncsOnly => (Spec => NothingGoesBack)
<1> SUFFICES ASSUME SyncsOnly
             PROVE  Spec => NothingGoesBack
  OBVIOUS
<1> DEFINE Step == Unstalled =>
             /\ \A r \in Records : Stamp(twin'[r]) >= Stamp(twin[r])
             /\ \A v \in Versions : entry[v].status = "completed" =>
                entry'[v].status = "completed"
<1>1. GeneralInv /\ SyncInv /\ [Next]_vars => Step
  BY SyncStep, SyncStutters DEF Advances, DoneStay, TwinsAdvance
<1>2. NothingGoesBack <=> [][Step]_vars
  BY DEF NothingGoesBack
<1> HIDE DEF Step
<1> QED
  BY <1>1, <1>2, SyncHolds, PTL DEF Spec

(* Unless a dead entry is re-injected, a paused twin has something parked  *)
(* (connector.service.ts:1025-1033, 1782-1804).                            *)
THEOREM PausesAreExplained == SyncsOnly /\ NoReinjection => (Spec => []PauseIsExplained)
<1> SUFFICES ASSUME SyncsOnly, NoReinjection
             PROVE  Spec => []PauseIsExplained
  OBVIOUS
<1>1. Init => PausesEarned
  BY SyncInit
<1>2. GeneralInv /\ SyncInv /\ PausesEarned /\ [Next]_vars => PausesEarned'
  BY SyncStep, SyncStutters DEF Advances
<1>3. PausesEarned => PauseIsExplained
  BY DEF PausesEarned, PauseIsExplained, Blocking
<1> QED
  BY <1>1, <1>2, <1>3, SyncHolds, PTL DEF Spec
====
