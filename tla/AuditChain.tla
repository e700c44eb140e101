----------------------------- MODULE AuditChain -----------------------------
(***************************************************************************)
(* The tamper-evident audit chain of Cadena: audit-integrity.ts, the       *)
(* transactional callers of appendAuditIntegrityEntry (the outbox and the  *)
(* event store), and the start-up backfill of database.service.ts.         *)
(*                                                                         *)
(* Writers run on several API replicas against one PostgreSQL database.    *)
(* A writer is either a transaction (it appends one or more entries of one *)
(* tenant, then commits or rolls back) or a loader (the backfill: every    *)
(* statement commits on its own).  Each query the code awaits is a step of *)
(* its own.                                                                *)
(*                                                                         *)
(* SHA-256 is modelled by an injective function: the hash of an entry is   *)
(* the sequence of events it authenticates, so hashing extends the         *)
(* previous hash by one event, and 'GENESIS' is the empty sequence.        *)
(***************************************************************************)
EXTENDS Naturals, Sequences, FiniteSets

CONSTANTS Orgs,               \* tenants
          Events,             \* (source, event_id) pairs that may be appended
          OrgOf,              \* the tenant of each event
          Txns,               \* business transactions, each run once
          Loaders,            \* start-up backfills, one per starting process
          Legacy,             \* events that pre-date the chain, oldest first
          MaxAppendAttempts   \* MAX_APPEND_ATTEMPTS

Writers == Txns \cup Loaders

ASSUME EventAssumption == Events # {}
ASSUME OrgAssumption == OrgOf \in [Events -> Orgs]
ASSUME WriterAssumption == Txns \cap Loaders = {}
ASSUME LegacyAssumption == Legacy \in Seq(Events)
ASSUME AttemptAssumption == MaxAppendAttempts \in Nat \ {0}

VARIABLES entries,   \* committed rows of audit_integrity_entries
          pending,   \* rows a still open transaction has inserted
          nextSeq,   \* the BIGSERIAL that numbers rows; never rolled back
          backlog,   \* what each loader has still to visit
          pc,        \* where each writer is
          event,     \* the event a writer is appending
          head,      \* previousHash, as the writer last read it
          seq,       \* the sequence number its INSERT has drawn
          attempt    \* the loop counter of appendAuditIntegrityEntry

vars == <<entries, pending, nextSeq, backlog, pc, event, head, seq, attempt>>

Hash == Seq(Events)
Genesis == << >>
calculateAuditHashMutant(previousHash, e) == <<e>>
calculateAuditHash(previousHash, e) == Append(previousHash, e)

Row == [seq : Nat, org : Orgs, ev : Events, prev : Hash, hash : Hash]

Of(S, o) == {r \in S : r.org = o}
Visible(w) == entries \cup pending[w]
Others(w) == UNION {pending[v] : v \in Writers \ {w}}
AllRows == entries \cup UNION {pending[v] : v \in Writers}

-----------------------------------------------------------------------------
(* The value of 'event' outside a call of appendAuditIntegrityEntry.        *)
NoEvent == CHOOSE e \in Events : TRUE

Init == /\ entries = {}
        /\ pending = [w \in Writers |-> {}]
        /\ nextSeq = 1
        /\ backlog = [l \in Loaders |-> Legacy]
        /\ pc = [w \in Writers |-> "idle"]
        /\ event = [w \in Writers |-> NoEvent]
        /\ head = [w \in Writers |-> Genesis]
        /\ seq = [w \in Writers |-> 0]
        /\ attempt = [w \in Writers |-> 0]

(* The first SELECT of appendAuditIntegrityEntry: an event that already    *)
(* has an entry is left alone, otherwise the retry loop starts.            *)
CheckExisting(w, e, resume) ==
  /\ IF \E r \in Visible(w) : r.ev = e
       THEN /\ pc' = [pc EXCEPT ![w] = resume]
            /\ UNCHANGED <<event, attempt>>
       ELSE /\ pc' = [pc EXCEPT ![w] = "read"]
            /\ event' = [event EXCEPT ![w] = e]
            /\ attempt' = [attempt EXCEPT ![w] = 1]
  /\ UNCHANGED <<entries, pending, nextSeq, head, seq>>

TxnAppendMutant(w, e) ==
  /\ w \in Txns
  /\ pc[w] \in {"idle", "open"}
  /\ \A r \in pending[w] : r.ev # e
  /\ CheckExisting(w, e, "open")
  /\ UNCHANGED backlog

(* A transaction appends its next event; all its events are of one tenant, *)
(* because every caller passes the tenant of the request it serves.        *)
TxnAppend(w, e) ==
  /\ w \in Txns
  /\ pc[w] \in {"idle", "open"}
  /\ \A r \in pending[w] : r.org = OrgOf[e]
  /\ \A r \in pending[w] : r.ev # e
  /\ CheckExisting(w, e, "open")
  /\ UNCHANGED backlog

(* backfillAuditIntegrity visits the rows it selected, oldest first.       *)
LoaderAppend(w) ==
  /\ w \in Loaders
  /\ pc[w] = "idle"
  /\ backlog[w] # << >>
  /\ backlog' = [backlog EXCEPT ![w] = Tail(@)]
  /\ CheckExisting(w, Head(backlog[w]), "idle")

(* Reads the head of the tenant's chain: ORDER BY sequence DESC LIMIT 1.   *)
ReadHead(w) ==
  /\ pc[w] = "read"
  /\ LET chain == Of(Visible(w), OrgOf[event[w]])
     IN  \/ /\ chain = {}
            /\ head' = [head EXCEPT ![w] = Genesis]
         \/ \E r \in chain : /\ \A s \in chain : s.seq <= r.seq
                             /\ head' = [head EXCEPT ![w] = r.hash]
  /\ pc' = [pc EXCEPT ![w] = "draw"]
  /\ UNCHANGED <<entries, pending, nextSeq, backlog, event, seq, attempt>>

(* The INSERT draws its sequence number before any unique index is probed. *)
DrawSequence(w) ==
  /\ pc[w] = "draw"
  /\ seq' = [seq EXCEPT ![w] = nextSeq]
  /\ nextSeq' = nextSeq + 1
  /\ pc' = [pc EXCEPT ![w] = "insert"]
  /\ UNCHANGED <<entries, pending, backlog, event, head, attempt>>

NewRowMutant(w) == [seq |-> seq[w], org |-> event[w], ev |-> OrgOf[event[w]],
                    prev |-> head[w], hash |-> calculateAuditHash(head[w], event[w])]
NewRow(w) == [seq |-> seq[w], org |-> OrgOf[event[w]], ev |-> event[w],
              prev |-> head[w], hash |-> calculateAuditHash(head[w], event[w])]

(* UNIQUE(source, event_id), the arbiter of ON CONFLICT DO NOTHING.        *)
SameEventMutant(S, w) == FALSE
SameEvent(S, w) == \E r \in S : r.ev = event[w]
(* audit_integrity_chain_link and audit_integrity_chain_genesis.           *)
SameLinkMutant(S, w) == FALSE
SameLink(S, w) == \E r \in S : r.org = OrgOf[event[w]] /\ r.prev = head[w]

(* PostgreSQL makes an inserter wait for the transaction that holds a      *)
(* conflicting uncommitted row.                                            *)
BlockedMutant(w) == SameEvent(Others(w), w)
Blocked(w) == SameEvent(Others(w), w) \/ SameLink(Others(w), w)

(* The call returns: its local variables are gone.                         *)
Return(w, stage) == /\ pc' = [pc EXCEPT ![w] = stage]
                    /\ event' = [event EXCEPT ![w] = NoEvent]
                    /\ head' = [head EXCEPT ![w] = Genesis]
                    /\ seq' = [seq EXCEPT ![w] = 0]
                    /\ attempt' = [attempt EXCEPT ![w] = 0]

Insert(w) ==
  /\ pc[w] = "insert"
  /\ ~Blocked(w)
  /\ ~SameEvent(Visible(w), w)
  /\ ~SameLink(Visible(w), w)
  /\ IF w \in Txns
       THEN /\ pending' = [pending EXCEPT ![w] = @ \cup {NewRow(w)}]
            /\ Return(w, "open")
            /\ UNCHANGED entries
       ELSE /\ entries' = entries \cup {NewRow(w)}
            /\ Return(w, "idle")
            /\ UNCHANGED pending
  /\ UNCHANGED <<nextSeq, backlog>>

(* ON CONFLICT (source, event_id) DO NOTHING: another writer was first.    *)
InsertNothing(w) ==
  /\ pc[w] = "insert"
  /\ ~Blocked(w)
  /\ SameEvent(Visible(w), w)
  /\ Return(w, IF w \in Txns THEN "open" ELSE "idle")
  /\ UNCHANGED <<entries, pending, nextSeq, backlog>>

LosesRace(w) == /\ pc[w] = "insert"
                /\ ~Blocked(w)
                /\ ~SameEvent(Visible(w), w)
                /\ SameLink(Visible(w), w)

(* The unique violation outside a transaction: go round the loop, or       *)
(* rethrow once the attempts are spent (initialization then fails).        *)
RetryAfterRace(w) ==
  /\ w \in Loaders
  /\ LosesRace(w)
  /\ IF attempt[w] < MaxAppendAttempts
       THEN /\ attempt' = [attempt EXCEPT ![w] = @ + 1]
            /\ pc' = [pc EXCEPT ![w] = "read"]
       ELSE /\ pc' = [pc EXCEPT ![w] = "gaveUp"]
            /\ UNCHANGED attempt
  /\ head' = [head EXCEPT ![w] = Genesis]
  /\ seq' = [seq EXCEPT ![w] = 0]
  /\ UNCHANGED <<entries, pending, nextSeq, backlog, event>>

(* The unique violation inside a transaction aborts it: the SELECT that    *)
(* starts the next round of the loop is refused (25P02), that error leaves *)
(* the function, and the database adapter rolls the transaction back.      *)
AbortAfterRace(w) ==
  /\ w \in Txns
  /\ LosesRace(w)
  /\ pending' = [pending EXCEPT ![w] = {}]
  /\ pc' = [pc EXCEPT ![w] = "gaveUp"]
  /\ UNCHANGED <<entries, nextSeq, backlog, event, head, seq, attempt>>

Commit(w) ==
  /\ w \in Txns
  /\ pc[w] = "open"
  /\ entries' = entries \cup pending[w]
  /\ pending' = [pending EXCEPT ![w] = {}]
  /\ pc' = [pc EXCEPT ![w] = "done"]
  /\ UNCHANGED <<nextSeq, backlog, event, head, seq, attempt>>

(* The business transaction fails elsewhere, or its process stops.         *)
Rollback(w) ==
  /\ w \in Txns
  /\ pc[w] \in {"read", "draw", "insert", "open"}
  /\ pending' = [pending EXCEPT ![w] = {}]
  /\ Return(w, "done")
  /\ UNCHANGED <<entries, nextSeq, backlog>>

(* The backfill has visited every row it selected.                         *)
LoaderDone(w) ==
  /\ w \in Loaders
  /\ pc[w] = "idle"
  /\ backlog[w] = << >>
  /\ pc' = [pc EXCEPT ![w] = "done"]
  /\ UNCHANGED <<entries, pending, nextSeq, backlog, event, head, seq, attempt>>

Advance(w) == \/ LoaderAppend(w)
              \/ ReadHead(w)
              \/ DrawSequence(w)
              \/ Insert(w)
              \/ InsertNothing(w)
              \/ RetryAfterRace(w)
              \/ AbortAfterRace(w)
              \/ Commit(w)
              \/ LoaderDone(w)

Next == \E w \in Writers : \/ Advance(w)
                           \/ Rollback(w)
                           \/ \E e \in Events : TxnAppend(w, e)

Spec == Init /\ [][Next]_vars

(* A query the database accepts is answered, and a transaction is not left *)
(* open for ever; nothing obliges a business transaction to begin.         *)
Fairness == \A w \in Writers : WF_vars(Advance(w))
FairSpec == Spec /\ Fairness
-----------------------------------------------------------------------------
(***************************************************************************)
(* Properties.                                                             *)
(***************************************************************************)

Stages == {"idle", "read", "draw", "insert", "open", "done", "gaveUp"}

(* Every column holds a value of its type, and nextSeq is positive.        *)
TypeOK == /\ entries \in SUBSET Row
          /\ pending \in [Writers -> SUBSET Row]
          /\ nextSeq \in Nat \ {0}
          /\ backlog \in [Loaders -> Seq(Events)]
          /\ pc \in [Writers -> Stages]
          /\ event \in [Writers -> Events]
          /\ head \in [Writers -> Hash]
          /\ seq \in [Writers -> Nat]
          /\ attempt \in [Writers -> Nat]

(* Row r of the rows S links to its predecessor in sequence order, or to   *)
(* GENESIS when it has none: one round of the loop of                      *)
(* verifyTenantAuditChain, 'linked' and 'hashMatches'.                     *)
LinkedIn(S, r) ==
  /\ r.hash = calculateAuditHash(r.prev, r.ev)
  /\ \/ /\ r.prev = Genesis
        /\ \A t \in Of(S, r.org) : r.seq <= t.seq
     \/ \E s \in Of(S, r.org) :
          /\ s.hash = r.prev
          /\ s.seq < r.seq
          /\ \A t \in Of(S, r.org) : t.seq <= s.seq \/ r.seq <= t.seq

(* verifyTenantAuditChain finds every tenant's committed chain intact at   *)
(* every moment: the order of the sequence numbers is the order of the     *)
(* links, although a number is drawn before the unique indexes are probed, *)
(* transactions roll back with their numbers spent, and the losers of a    *)
(* race for the head read it again.                                        *)
ChainVerifies == \A r \in entries : LinkedIn(entries, r)

(* An event is in the chain at most once, whether the outbox, the event    *)
(* store or two concurrent start-up backfills append it.                   *)
OneEntryPerEvent == \A r, s \in entries : r.ev = s.ev => r = s

(* The committed chain of a tenant only ever grows at its end: a commit    *)
(* never slips rows below a row somebody may already have verified.        *)
OnlyAppends ==
  /\ entries \subseteq entries'
  /\ \A n \in entries' \ entries, o \in entries : n.org = o.org => o.seq < n.seq
AppendOnly == [][OnlyAppends]_vars

(* Waiting on another transaction's uncommitted link never becomes a       *)
(* deadlock: every append that was begun ends, because a transaction keeps *)
(* to one tenant and so never holds one chain while it waits for another.  *)
EveryAppendEnds ==
  \A w \in Writers : pc[w] \in {"read", "draw", "insert"} ~> pc[w] \in {"idle", "open", "done", "gaveUp"}

-----------------------------------------------------------------------------
(***************************************************************************)
(* What the chain promises, in one line per tenant: an append-only log.    *)
(* The hash of the newest committed entry is that log.                     *)
(***************************************************************************)
ChainHead(o) ==
  LET chain == Of(entries, o)
  IN  IF chain = {} THEN Genesis
      ELSE (CHOOSE r \in chain : \A s \in chain : s.seq <= r.seq).hash

Log == INSTANCE AuditLog WITH log <- [o \in Orgs |-> ChainHead(o)]

(* Every step of the chain is one append of whole, new events to one       *)
(* tenant's log, or invisible: the detailed protocol implements AuditLog.  *)
ImplementsLog == Log!Spec
=============================================================================
