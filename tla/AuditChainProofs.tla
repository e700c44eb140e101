-------------------------- MODULE AuditChainProofs --------------------------
(***************************************************************************)
(* Machine-checked theorems about AuditChain, for every set of tenants,    *)
(* events, transactions and loaders, and every MAX_APPEND_ATTEMPTS.        *)
(*                                                                         *)
(* The argument.  Look at all rows, committed or not.  An open             *)
(* transaction's rows of a tenant are a suffix of that tenant's rows       *)
(* (Suffix), and every row that is not the newest of its tenant already    *)
(* has a row linked to it (Succeeded).  A writer whose INSERT meets no     *)
(* conflict therefore read the newest row there is, and its sequence       *)
(* number, drawn after that read, is larger than every other               *)
(* (InsertIsNewest).  So inserting appends, rolling back cuts a suffix     *)
(* off, and committing changes no row.                                     *)
(***************************************************************************)
EXTENDS AuditChain, TLAPS

(* Sequence numbers: unique, below the counter, and what a pending INSERT  *)
(* has drawn is nobody else's.                                             *)
Numbered == /\ \A r, s \in AllRows : r.seq = s.seq => r = s
            /\ \A r \in AllRows : r.seq < nextSeq
            /\ \A w \in Writers : pc[w] = "insert" =>
                 /\ seq[w] < nextSeq
                 /\ \A r \in AllRows : r.seq # seq[w]
                 /\ \A v \in Writers \ {w} : pc[v] = "insert" => seq[v] # seq[w]

(* A row has one place: committed, or in one open transaction.             *)
Exclusive == /\ \A w \in Writers : entries \cap pending[w] = {}
             /\ \A v, w \in Writers : v # w => pending[v] \cap pending[w] = {}
             /\ \A l \in Loaders : pending[l] = {}

OneEntry == \A r, s \in AllRows : r.ev = s.ev => r = s

Linked == \A r \in AllRows : LinkedIn(AllRows, r)

Succeeded == \A s, t \in AllRows : s.org = t.org /\ s.seq < t.seq =>
               \E u \in AllRows : /\ u.org = s.org
                                  /\ u.prev = s.hash
                                  /\ s.seq < u.seq
                                  /\ u.seq <= t.seq

Rooted == \A r \in AllRows : \E g \in AllRows : /\ g.org = r.org
                                                /\ g.prev = Genesis
                                                /\ g.seq <= r.seq

Suffix == \A w \in Writers : \A r \in pending[w] : \A t \in AllRows :
            t.org = r.org /\ r.seq < t.seq => t \in pending[w]

(* The head a writer read is GENESIS or a row it still sees, older than    *)
(* the number it has drawn.                                                *)
HeadKnown ==
  \A w \in Writers : pc[w] \in {"draw", "insert"} =>
    \/ head[w] = Genesis
    \/ \E s \in Visible(w) : /\ s.org = OrgOf[event[w]]
                             /\ s.hash = head[w]
                             /\ pc[w] = "insert" => s.seq < seq[w]

RowInv == Exclusive /\ OneEntry /\ Linked /\ Succeeded /\ Rooted /\ Suffix
ChainInv == TypeOK /\ Numbered /\ RowInv /\ HeadKnown

-----------------------------------------------------------------------------
(* NoEvent is an event; hashing yields a hash.                             *)
LEMMA Typing == /\ NoEvent \in Events
                /\ Genesis \in Hash
                /\ \A h \in Hash, e \in Events : calculateAuditHash(h, e) \in Hash
  BY EventAssumption DEF NoEvent, Genesis, Hash, calculateAuditHash

LEMMA RowSets == \A w \in Writers : AllRows = Visible(w) \cup Others(w)
  BY DEF AllRows, Visible, Others

(* The row an INSERT is about to add has the type of a row.                *)
LEMMA NewRowType ==
  ASSUME TypeOK, NEW w \in Writers
  PROVE  /\ NewRow(w) \in Row
         /\ NewRow(w).seq = seq[w]
         /\ NewRow(w).org = OrgOf[event[w]]
         /\ NewRow(w).ev = event[w]
         /\ NewRow(w).prev = head[w]
         /\ NewRow(w).hash = calculateAuditHash(head[w], event[w])
  BY Typing, OrgAssumption DEF TypeOK, NewRow, Row

(* A call that returns leaves its local variables well typed.              *)
LEMMA ReturnType ==
  ASSUME TypeOK, NEW w \in Writers,
         NEW stage \in {"open", "idle", "done"}, Return(w, stage)
  PROVE  /\ pc' \in [Writers -> Stages]
         /\ event' \in [Writers -> Events]
         /\ head' \in [Writers -> Hash]
         /\ seq' \in [Writers -> Nat]
         /\ attempt' \in [Writers -> Nat]
  BY Typing DEF TypeOK, Return, Stages

(* The typing of the code's variables, for every value of the constants.   *)
LEMMA TypeInit == Init => TypeOK
  BY Typing, LegacyAssumption DEF Init, TypeOK, Stages, Row

LEMMA TypeStep == TypeOK /\ [Next]_vars => TypeOK'
<1> SUFFICES ASSUME TypeOK, [Next]_vars PROVE TypeOK'
  OBVIOUS
<1> USE Typing
<1>0. ASSUME NEW w \in Writers, NEW e \in Events, NEW resume \in Stages,
             CheckExisting(w, e, resume), backlog' \in [Loaders -> Seq(Events)]
      PROVE  TypeOK'
  <2>1. CASE \E r \in Visible(w) : r.ev = e
    <3>1. /\ pc' = [pc EXCEPT ![w] = resume]
          /\ UNCHANGED <<entries, pending, nextSeq, event, head, seq, attempt>>
      BY <1>0, <2>1 DEF CheckExisting
    <3> QED
      BY <1>0, <3>1 DEF TypeOK
  <2>2. CASE ~\E r \in Visible(w) : r.ev = e
    <3>1. /\ pc' = [pc EXCEPT ![w] = "read"]
          /\ event' = [event EXCEPT ![w] = e]
          /\ attempt' = [attempt EXCEPT ![w] = 1]
          /\ UNCHANGED <<entries, pending, nextSeq, head, seq>>
      BY <1>0, <2>2 DEF CheckExisting
    <3>2. "read" \in Stages
      BY DEF Stages
    <3> QED
      BY <1>0, <3>1, <3>2 DEF TypeOK
  <2> QED
    BY <2>1, <2>2
<1>1. ASSUME NEW w \in Writers, NEW e \in Events, TxnAppend(w, e) PROVE TypeOK'
  <2>1. /\ CheckExisting(w, e, "open")
        /\ "open" \in Stages
        /\ backlog' \in [Loaders -> Seq(Events)]
    BY <1>1 DEF TypeOK, TxnAppend, Stages
  <2> QED
    BY <1>0, <2>1
<1>2. ASSUME NEW w \in Writers, LoaderAppend(w) PROVE TypeOK'
  <2>1. /\ backlog[w] \in Seq(Events)
        /\ backlog[w] # << >>
    BY <1>2 DEF TypeOK, LoaderAppend
  <2>2. /\ Head(backlog[w]) \in Events
        /\ Tail(backlog[w]) \in Seq(Events)
    BY <2>1
  <2>3. /\ CheckExisting(w, Head(backlog[w]), "idle")
        /\ "idle" \in Stages
        /\ backlog' \in [Loaders -> Seq(Events)]
    BY <1>2, <2>2 DEF TypeOK, LoaderAppend, Stages
  <2> QED
    BY <1>0, <2>2, <2>3
<1>3. ASSUME NEW w \in Writers, ReadHead(w) PROVE TypeOK'
  <2>0. \A r \in Of(Visible(w), OrgOf[event[w]]) : r.hash \in Hash
    BY DEF TypeOK, Of, Visible, Row
  <2>1. head' \in [Writers -> Hash]
    BY <1>3, <2>0 DEF TypeOK, ReadHead
  <2> QED
    BY <1>3, <2>1 DEF TypeOK, ReadHead, Stages
<1>4. ASSUME NEW w \in Writers, DrawSequence(w) PROVE TypeOK'
  BY <1>4 DEF TypeOK, DrawSequence, Stages
<1>5. ASSUME NEW w \in Writers, Insert(w) PROVE TypeOK'
  <2>1. CASE w \in Txns
    <3>1. /\ Return(w, "open")
          /\ pending' = [pending EXCEPT ![w] = @ \cup {NewRow(w)}]
          /\ UNCHANGED <<entries, nextSeq, backlog>>
      BY <1>5, <2>1 DEF Insert
    <3> QED
      BY <3>1, ReturnType, NewRowType DEF TypeOK
  <2>2. CASE w \notin Txns
    <3>1. /\ Return(w, "idle")
          /\ entries' = entries \cup {NewRow(w)}
          /\ UNCHANGED <<pending, nextSeq, backlog>>
      BY <1>5, <2>2 DEF Insert
    <3> QED
      BY <3>1, ReturnType, NewRowType DEF TypeOK
  <2> QED
    BY <2>1, <2>2
<1>6. ASSUME NEW w \in Writers, InsertNothing(w) PROVE TypeOK'
  <2>1. PICK stage \in {"open", "idle"} : Return(w, stage)
    <3>1. CASE w \in Txns
      BY <1>6, <3>1 DEF InsertNothing
    <3>2. CASE w \notin Txns
      BY <1>6, <3>2 DEF InsertNothing
    <3> QED
      BY <3>1, <3>2
  <2>2. UNCHANGED <<entries, pending, nextSeq, backlog>>
    BY <1>6 DEF InsertNothing
  <2> QED
    BY <2>1, <2>2, ReturnType DEF TypeOK
<1>7. ASSUME NEW w \in Writers, RetryAfterRace(w) PROVE TypeOK'
  <2>1. /\ pc' \in [Writers -> Stages]
        /\ attempt' \in [Writers -> Nat]
    <3>1. CASE attempt[w] < MaxAppendAttempts
      <4>1. /\ attempt' = [attempt EXCEPT ![w] = attempt[w] + 1]
            /\ pc' = [pc EXCEPT ![w] = "read"]
        BY <1>7, <3>1 DEF RetryAfterRace
      <4>2. attempt[w] + 1 \in Nat
        BY DEF TypeOK
      <4> QED
        BY <4>1, <4>2 DEF TypeOK, Stages
    <3>2. CASE ~(attempt[w] < MaxAppendAttempts)
      BY <1>7, <3>2 DEF TypeOK, RetryAfterRace, Stages
    <3> QED
      BY <3>1, <3>2
  <2> QED
    BY <1>7, <2>1 DEF TypeOK, RetryAfterRace
<1>8. ASSUME NEW w \in Writers, AbortAfterRace(w) PROVE TypeOK'
  BY <1>8 DEF TypeOK, AbortAfterRace, Stages
<1>9. ASSUME NEW w \in Writers, Commit(w) PROVE TypeOK'
  BY <1>9 DEF TypeOK, Commit, Stages
<1>10. ASSUME NEW w \in Writers, Rollback(w) PROVE TypeOK'
  BY <1>10 DEF TypeOK, Rollback, Return, Stages
<1>11. ASSUME NEW w \in Writers, LoaderDone(w) PROVE TypeOK'
  BY <1>11 DEF TypeOK, LoaderDone, Stages
<1>12. ASSUME UNCHANGED vars PROVE TypeOK'
  BY <1>12 DEF TypeOK, vars
<1> QED
  BY <1>1, <1>2, <1>3, <1>4, <1>5, <1>6, <1>7, <1>8, <1>9, <1>10, <1>11, <1>12
  DEF Next, Advance

(* TypeOK holds in every state of every behaviour of the chain's code.     *)
THEOREM TypeCorrect == Spec => []TypeOK
<1>1. Init => TypeOK
  BY TypeInit
<1>2. TypeOK /\ [Next]_vars => TypeOK'
  BY TypeStep
<1> QED
  BY <1>1, <1>2, PTL DEF Spec

-----------------------------------------------------------------------------
(* Every row, committed or not, is a row.                                  *)
LEMMA RowTypes == ASSUME TypeOK, NEW r \in AllRows
                  PROVE  r \in Row /\ r.seq \in Nat
  BY DEF TypeOK, AllRows, Row

(* An INSERT that meets no conflict read the tenant's newest row, and no   *)
(* other open transaction holds a row of that tenant.                      *)
LEMMA InsertIsNewest ==
  ASSUME ChainInv, NEW w \in Writers, pc[w] = "insert",
         ~Blocked(w), ~SameLink(Visible(w), w),
         NEW t \in AllRows, t.org = OrgOf[event[w]]
  PROVE  /\ t.seq < seq[w]
         /\ t \notin Others(w)
         /\ head[w] # Genesis
         /\ \E s \in Visible(w) : /\ s.org = OrgOf[event[w]]
                                  /\ s.hash = head[w]
                                  /\ s.seq < seq[w]
                                  /\ t.seq <= s.seq
<1>1. \A u \in AllRows : u.org = OrgOf[event[w]] => u.prev # head[w]
  BY RowSets DEF Blocked, SameLink
<1>2. head[w] # Genesis
  BY <1>1 DEF ChainInv, RowInv, Rooted
<1>3. PICK s \in Visible(w) : /\ s.org = OrgOf[event[w]]
                              /\ s.hash = head[w]
                              /\ s.seq < seq[w]
  BY <1>2 DEF ChainInv, HeadKnown
<1>4. s \in AllRows
  BY RowSets
<1>5. s.seq \in Nat /\ t.seq \in Nat /\ seq[w] \in Nat
  BY <1>4, RowTypes DEF ChainInv, TypeOK
<1>6. ~(s.seq < t.seq)
  BY <1>1, <1>3, <1>4 DEF ChainInv, RowInv, Succeeded
<1>7. t \notin Others(w)
  <2> SUFFICES ASSUME NEW v \in Writers \ {w}, t \in pending[v] PROVE FALSE
    BY DEF Others
  <2>1. s \notin pending[v]
    BY <1>3 DEF Visible, ChainInv, RowInv, Exclusive
  <2>2. t.seq # s.seq
    BY <1>4, <2>1 DEF ChainInv, Numbered
  <2>3. t.seq < s.seq
    BY <1>5, <1>6, <2>2
  <2> QED
    BY <1>3, <1>4, <2>1, <2>3 DEF ChainInv, RowInv, Suffix
<1> QED
  BY <1>2, <1>3, <1>5, <1>6, <1>7

(* Adding a row that is newer than its tenant's other rows, and linked to  *)
(* the newest of them, keeps the rows of all tenants well formed.          *)
LEMMA Extend ==
  ASSUME NEW S, NEW n, S \subseteq Row, n \in Row,
         \A r \in S : LinkedIn(S, r),
         n.hash = calculateAuditHash(n.prev, n.ev),
         \A t \in S : t.org = n.org => t.seq < n.seq,
         \/ n.prev = Genesis /\ \A t \in S : t.org # n.org
         \/ \E s \in S : /\ s.org = n.org
                        /\ s.hash = n.prev
                        /\ \A t \in S : t.org = n.org => t.seq <= s.seq
  PROVE  \A r \in S \cup {n} : LinkedIn(S \cup {n}, r)
<1>0. \A r \in S \cup {n} : r.seq \in Nat
  BY DEF Row
<1>1. LinkedIn(S \cup {n}, n)
  <2>1. CASE n.prev = Genesis /\ \A t \in S : t.org # n.org
    BY <1>0, <2>1 DEF LinkedIn, Of
  <2>2. CASE \E s \in S : /\ s.org = n.org
                          /\ s.hash = n.prev
                          /\ \A t \in S : t.org = n.org => t.seq <= s.seq
    BY <1>0, <2>2 DEF LinkedIn, Of
  <2> QED
    BY <2>1, <2>2
<1>2. ASSUME NEW r \in S PROVE LinkedIn(S \cup {n}, r)
  <2>1. n.org = r.org => r.seq <= n.seq
    BY <1>0
  <2>2. CASE r.prev = Genesis /\ \A t \in Of(S, r.org) : r.seq <= t.seq
    BY <2>1, <2>2 DEF LinkedIn, Of
  <2>3. ASSUME NEW s \in Of(S, r.org), s.hash = r.prev, s.seq < r.seq,
               \A t \in Of(S, r.org) : t.seq <= s.seq \/ r.seq <= t.seq
        PROVE  LinkedIn(S \cup {n}, r)
    BY <2>1, <2>3 DEF LinkedIn, Of
  <2> QED
    BY <2>2, <2>3 DEF LinkedIn
<1> QED
  BY <1>1, <1>2

-----------------------------------------------------------------------------
(* An INSERT adds one row.                                                 *)
LEMMA InsertAdds ==
  ASSUME ChainInv, NEW w \in Writers, Insert(w)
  PROVE  /\ AllRows' = AllRows \cup {NewRow(w)}
         /\ NewRow(w) \notin AllRows
         /\ \/ /\ w \in Txns
               /\ entries' = entries
               /\ pending' = [pending EXCEPT ![w] = @ \cup {NewRow(w)}]
            \/ /\ w \notin Txns
               /\ entries' = entries \cup {NewRow(w)}
               /\ pending' = pending
<1> DEFINE n == NewRow(w)
<1>1. n \notin AllRows
  BY NewRowType DEF ChainInv, Numbered, Insert
<1>2. CASE w \in Txns
  <2>1. entries' = entries /\ pending' = [pending EXCEPT ![w] = @ \cup {n}]
    BY <1>2 DEF Insert
  <2>2. AllRows' = AllRows \cup {n}
    BY <2>1 DEF AllRows, ChainInv, TypeOK
  <2> QED
    BY <1>1, <1>2, <2>1, <2>2
<1>3. CASE w \notin Txns
  <2>1. entries' = entries \cup {n} /\ pending' = pending
    BY <1>3 DEF Insert
  <2>2. AllRows' = AllRows \cup {n}
    BY <2>1 DEF AllRows
  <2> QED
    BY <1>1, <1>3, <2>1, <2>2
<1> QED
  BY <1>2, <1>3

(* An INSERT keeps every part of RowInv.                                   *)
LEMMA InsertKeepsRows ==
  ASSUME ChainInv, NEW w \in Writers, Insert(w)
  PROVE  RowInv'
<1> DEFINE n == NewRow(w)
<1>1. /\ pc[w] = "insert"
      /\ ~Blocked(w)
      /\ ~SameLink(Visible(w), w)
      /\ ~SameEvent(Visible(w), w)
  BY DEF Insert
<1>2. /\ n \in Row
      /\ n.seq = seq[w]
      /\ n.org = OrgOf[event[w]]
      /\ n.ev = event[w]
      /\ n.prev = head[w]
      /\ n.hash = calculateAuditHash(head[w], event[w])
      /\ n.seq \in Nat
  BY NewRowType DEF ChainInv, TypeOK
<1>3. AllRows' = AllRows \cup {n} /\ n \notin AllRows
  BY InsertAdds
<1>4. /\ w \in Txns => /\ entries' = entries
                       /\ pending' = [pending EXCEPT ![w] = @ \cup {n}]
      /\ w \notin Txns => /\ entries' = entries \cup {n}
                          /\ pending' = pending
  BY InsertAdds
<1>5. /\ pending \in [Writers -> SUBSET Row]
      /\ entries \subseteq AllRows
      /\ \A v \in Writers : pending[v] \subseteq AllRows
      /\ AllRows \subseteq Row
  BY DEF ChainInv, TypeOK, AllRows
<1>6. ASSUME NEW t \in AllRows, t.org = n.org
      PROVE  /\ t.seq < n.seq
             /\ t \notin Others(w)
             /\ head[w] # Genesis
             /\ \E s \in AllRows : /\ s.org = n.org
                                   /\ s.hash = head[w]
                                   /\ s.seq < n.seq
                                   /\ t.seq <= s.seq
  BY <1>1, <1>2, <1>6, InsertIsNewest, RowSets
<1>7. Exclusive'
  BY <1>3, <1>4, <1>5, WriterAssumption DEF ChainInv, RowInv, Exclusive, Writers
<1>8. OneEntry'
  <2>1. \A r \in AllRows : r.ev # n.ev
    BY <1>1, <1>2, RowSets DEF Blocked, SameEvent
  <2> QED
    BY <1>3, <2>1 DEF ChainInv, RowInv, OneEntry
<1>9. Linked'
  <2>1. \/ n.prev = Genesis /\ \A t \in AllRows : t.org # n.org
        \/ \E s \in AllRows : /\ s.org = n.org
                              /\ s.hash = n.prev
                              /\ \A t \in AllRows : t.org = n.org => t.seq <= s.seq
    <3>1. CASE n.prev = Genesis
      BY <1>2, <1>6, <3>1
    <3>2. CASE n.prev # Genesis
      <4>1. PICK s \in Visible(w) : s.org = n.org /\ s.hash = n.prev
        BY <1>1, <1>2, <3>2 DEF ChainInv, HeadKnown
      <4>2. s \in AllRows
        BY RowSets
      <4>3. \A t \in AllRows : t.org = n.org => ~(s.seq < t.seq)
        <5>1. \A u \in AllRows : u.org = n.org => u.prev # n.prev
          BY <1>1, <1>2, RowSets DEF Blocked, SameLink
        <5> QED
          BY <4>1, <4>2, <5>1 DEF ChainInv, RowInv, Succeeded
      <4>4. \A t \in AllRows : t.seq \in Nat
        BY <1>5 DEF Row
      <4> QED
        BY <4>1, <4>2, <4>3, <4>4
    <3> QED
      BY <3>1, <3>2
  <2>2. \A r \in AllRows : LinkedIn(AllRows, r)
    BY DEF ChainInv, RowInv, Linked
  <2>3. \A t \in AllRows : t.org = n.org => t.seq < n.seq
    BY <1>6
  <2>4. n.hash = calculateAuditHash(n.prev, n.ev)
    BY <1>2
  <2>5. \A r \in AllRows \cup {n} : LinkedIn(AllRows \cup {n}, r)
    <3> HIDE DEF n
    <3> QED
      BY <1>2, <1>5, <2>1, <2>2, <2>3, <2>4, Extend
  <2> QED
    BY <1>3, <2>5 DEF Linked, LinkedIn, Of
<1>10. Succeeded'
  <2> SUFFICES ASSUME NEW s \in AllRows \cup {n}, NEW t \in AllRows \cup {n},
                      s.org = t.org, s.seq < t.seq
               PROVE  \E u \in AllRows \cup {n} : /\ u.org = s.org
                                                  /\ u.prev = s.hash
                                                  /\ s.seq < u.seq
                                                  /\ u.seq <= t.seq
    BY <1>3 DEF Succeeded
  <2>0. s.seq \in Nat /\ t.seq \in Nat
    BY <1>2, <1>5 DEF Row
  <2>1. CASE s \in AllRows /\ t \in AllRows
    BY <2>1 DEF ChainInv, RowInv, Succeeded
  <2>2. CASE s = n
    BY <1>2, <1>6, <2>0, <2>2
  <2>3. CASE s \in AllRows /\ t = n
    <3>1. PICK m \in AllRows : /\ m.org = n.org
                               /\ m.hash = head[w]
                               /\ m.seq < n.seq
                               /\ s.seq <= m.seq
      BY <1>6, <2>3
    <3>2. m.seq \in Nat
      BY <1>5 DEF Row
    <3>3. CASE s.seq = m.seq
      <4>1. s = m
        BY <2>3, <3>3 DEF ChainInv, Numbered
      <4> QED
        BY <1>2, <2>0, <2>3, <3>1, <4>1
    <3>4. CASE s.seq < m.seq
      <4>1. PICK u \in AllRows : /\ u.org = s.org
                                 /\ u.prev = s.hash
                                 /\ s.seq < u.seq
                                 /\ u.seq <= m.seq
        BY <2>3, <3>1, <3>4 DEF ChainInv, RowInv, Succeeded
      <4>2. u.seq \in Nat
        BY <1>5 DEF Row
      <4> QED
        BY <1>2, <2>3, <3>1, <3>2, <4>1, <4>2
    <3> QED
      BY <2>0, <3>1, <3>2, <3>3, <3>4
  <2> QED
    BY <2>1, <2>2, <2>3
<1>11. Rooted'
  <2>1. \A r \in AllRows : \E g \in AllRows \cup {n} :
          g.org = r.org /\ g.prev = Genesis /\ g.seq <= r.seq
    BY DEF ChainInv, RowInv, Rooted
  <2>2. \E g \in AllRows \cup {n} : g.org = n.org /\ g.prev = Genesis /\ g.seq <= n.seq
    <3>1. CASE head[w] = Genesis
      BY <1>2, <3>1
    <3>2. CASE head[w] # Genesis
      <4>1. PICK s \in Visible(w) : s.org = n.org /\ s.seq < n.seq
        BY <1>1, <1>2, <3>2 DEF ChainInv, HeadKnown
      <4>2. s \in AllRows
        BY RowSets
      <4>3. PICK g \in AllRows : g.org = s.org /\ g.prev = Genesis /\ g.seq <= s.seq
        BY <4>2 DEF ChainInv, RowInv, Rooted
      <4>4. g.seq \in Nat /\ s.seq \in Nat
        BY <1>5, <4>2 DEF Row
      <4> QED
        BY <1>2, <4>1, <4>3, <4>4
    <3> QED
      BY <3>1, <3>2
  <2> QED
    BY <1>3, <2>1, <2>2 DEF Rooted
<1>12. Suffix'
  <2> SUFFICES ASSUME NEW v \in Writers, NEW r \in pending'[v],
                      NEW t \in AllRows \cup {n}, t.org = r.org, r.seq < t.seq
               PROVE  t \in pending'[v]
    BY <1>3 DEF Suffix
  <2>1. CASE r = n
    BY <1>2, <1>5, <1>6, <2>1 DEF Row
  <2>2. CASE r \in pending[v] /\ t \in AllRows
    BY <1>4, <1>5, <2>2 DEF ChainInv, RowInv, Suffix
  <2>3. CASE r \in pending[v] /\ t = n
    <3>1. r \in AllRows /\ r \notin Others(w)
      BY <1>5, <1>6, <2>3
    <3>2. v = w
      BY <2>3, <3>1 DEF Others
    <3>3. w \in Txns
      BY <2>3, <3>2 DEF ChainInv, RowInv, Exclusive, Writers
    <3> QED
      BY <1>4, <1>5, <2>3, <3>2, <3>3
  <2>4. r \in pending[v] \/ r = n
    BY <1>4, <1>5
  <2> QED
    BY <2>1, <2>2, <2>3, <2>4
<1> QED
  BY <1>7, <1>8, <1>9, <1>10, <1>11, <1>12 DEF RowInv

-----------------------------------------------------------------------------
(* A rollback cuts one transaction's rows off the ends of the chains.      *)
LEMMA RollbackKeepsRows ==
  ASSUME ChainInv, NEW w \in Writers,
         entries' = entries, pending' = [pending EXCEPT ![w] = {}]
  PROVE  RowInv' /\ AllRows' \subseteq AllRows
<1>1. /\ pending \in [Writers -> SUBSET Row]
      /\ AllRows \subseteq Row
      /\ \A v \in Writers : pending[v] \subseteq AllRows
  BY DEF ChainInv, TypeOK, AllRows
<1>2. \A v \in Writers : pending'[v] = IF v = w THEN {} ELSE pending[v]
  BY <1>1
<1>3. AllRows' = AllRows \ pending[w]
  BY <1>1, <1>2 DEF AllRows, ChainInv, RowInv, Exclusive
<1>4. \A r, t \in AllRows : r \in pending[w] /\ t.org = r.org /\ r.seq <= t.seq
                            => t \in pending[w]
  <2> SUFFICES ASSUME NEW r \in AllRows, NEW t \in AllRows,
                      r \in pending[w], t.org = r.org, r.seq <= t.seq
               PROVE  t \in pending[w]
    OBVIOUS
  <2>1. r.seq \in Nat /\ t.seq \in Nat
    BY <1>1 DEF Row
  <2>2. CASE r.seq = t.seq
    BY <2>2 DEF ChainInv, Numbered
  <2>3. CASE r.seq < t.seq
    BY <2>3 DEF ChainInv, RowInv, Suffix
  <2> QED
    BY <2>1, <2>2, <2>3
<1>5. Exclusive'
  BY <1>2 DEF ChainInv, RowInv, Exclusive, Writers
<1>6. OneEntry'
  BY <1>3 DEF ChainInv, RowInv, OneEntry
<1>7. Linked'
  <2> SUFFICES ASSUME NEW r \in AllRows \ pending[w]
               PROVE  LinkedIn(AllRows \ pending[w], r)
    BY <1>3 DEF Linked, LinkedIn, Of
  <2>1. LinkedIn(AllRows, r)
    BY DEF ChainInv, RowInv, Linked
  <2>2. ASSUME NEW s \in Of(AllRows, r.org), s.seq < r.seq
        PROVE  s \in Of(AllRows \ pending[w], r.org)
    <3>1. s.seq \in Nat /\ r.seq \in Nat /\ s \in AllRows
      BY <1>1 DEF Of, Row
    <3> QED
      BY <1>4, <2>2, <3>1 DEF Of
  <2> QED
    BY <2>1, <2>2 DEF LinkedIn, Of
<1>8. Succeeded'
  <2> SUFFICES ASSUME NEW s \in AllRows \ pending[w], NEW t \in AllRows \ pending[w],
                      s.org = t.org, s.seq < t.seq
               PROVE  \E u \in AllRows \ pending[w] : /\ u.org = s.org
                                                      /\ u.prev = s.hash
                                                      /\ s.seq < u.seq
                                                      /\ u.seq <= t.seq
    BY <1>3 DEF Succeeded
  <2> QED
    BY <1>4 DEF ChainInv, RowInv, Succeeded
<1>9. Rooted'
  <2> SUFFICES ASSUME NEW r \in AllRows \ pending[w]
               PROVE  \E g \in AllRows \ pending[w] :
                        g.org = r.org /\ g.prev = Genesis /\ g.seq <= r.seq
    BY <1>3 DEF Rooted
  <2> QED
    BY <1>4 DEF ChainInv, RowInv, Rooted
<1>10. Suffix'
  BY <1>2, <1>3 DEF ChainInv, RowInv, Suffix, Exclusive
<1> QED
  BY <1>3, <1>5, <1>6, <1>7, <1>8, <1>9, <1>10 DEF RowInv

(* A commit changes where rows are, not which rows there are.              *)
LEMMA CommitKeepsRows ==
  ASSUME ChainInv, NEW w \in Writers,
         entries' = entries \cup pending[w],
         pending' = [pending EXCEPT ![w] = {}]
  PROVE  RowInv' /\ AllRows' = AllRows
<1>1. pending \in [Writers -> SUBSET Row]
  BY DEF ChainInv, TypeOK
<1>2. \A v \in Writers : pending'[v] = IF v = w THEN {} ELSE pending[v]
  BY <1>1
<1>3. AllRows' = AllRows
  BY <1>1, <1>2 DEF AllRows
<1>4. Exclusive'
  BY <1>2 DEF ChainInv, RowInv, Exclusive, Writers
<1>5. OneEntry' /\ Linked' /\ Succeeded' /\ Rooted'
  BY <1>3 DEF ChainInv, RowInv, OneEntry, Linked, LinkedIn, Of, Succeeded, Rooted
<1>6. Suffix'
  BY <1>2, <1>3 DEF ChainInv, RowInv, Suffix
<1> QED
  BY <1>3, <1>4, <1>5, <1>6 DEF RowInv

(* The steps that touch no row.                                            *)
LEMMA SameRows ==
  ASSUME ChainInv, entries' = entries, pending' = pending
  PROVE  RowInv' /\ AllRows' = AllRows
BY DEF ChainInv, RowInv, AllRows, Exclusive, OneEntry, Linked, LinkedIn, Of,
       Succeeded, Rooted, Suffix

(* What a writer sees never disappears while its own call goes on, so the  *)
(* facts about the other writers' heads and numbers are kept.              *)
LEMMA OthersKept ==
  ASSUME ChainInv, TypeOK', NEW w \in Writers,
         AllRows' \subseteq AllRows,
         \A v \in Writers \ {w} : /\ Visible(v) \subseteq entries' \cup pending'[v]
                                 /\ pc'[v] = pc[v]
                                 /\ event'[v] = event[v]
                                 /\ head'[v] = head[v]
                                 /\ seq'[v] = seq[v],
         pc'[w] \notin {"draw", "insert"},
         nextSeq' = nextSeq
  PROVE  Numbered' /\ HeadKnown'
<1>1. Numbered'
  BY DEF ChainInv, Numbered
<1>2. ASSUME NEW v \in Writers, pc'[v] \in {"draw", "insert"}
      PROVE  \/ head'[v] = Genesis
             \/ \E s \in entries' \cup pending'[v] :
                  /\ s.org = OrgOf[event'[v]]
                  /\ s.hash = head'[v]
                  /\ pc'[v] = "insert" => s.seq < seq'[v]
  <2>1. /\ v \in Writers \ {w}
        /\ Visible(v) \subseteq entries' \cup pending'[v]
        /\ pc'[v] = pc[v] /\ event'[v] = event[v] /\ head'[v] = head[v] /\ seq'[v] = seq[v]
    BY <1>2
  <2>2. \/ head[v] = Genesis
        \/ \E s \in Visible(v) : /\ s.org = OrgOf[event[v]]
                                 /\ s.hash = head[v]
                                 /\ pc[v] = "insert" => s.seq < seq[v]
    BY <1>2, <2>1 DEF ChainInv, HeadKnown
  <2> QED
    BY <2>1, <2>2
<1>3. HeadKnown'
  BY <1>2 DEF HeadKnown, Visible
<1> QED
  BY <1>1, <1>3

-----------------------------------------------------------------------------
LEMMA ChainInvInit == Init => ChainInv
<1> SUFFICES ASSUME Init PROVE ChainInv
  OBVIOUS
<1>1. TypeOK
  BY TypeInit
<1>2. AllRows = {} /\ \A w \in Writers : pending[w] = {} /\ pc[w] = "idle"
  BY DEF Init, AllRows
<1>3. Numbered /\ HeadKnown
  BY <1>2 DEF Numbered, HeadKnown
<1>4. RowInv
  BY <1>2 DEF RowInv, Exclusive, OneEntry, Linked, Succeeded, Rooted, Suffix, Writers
<1> QED
  BY <1>1, <1>3, <1>4 DEF ChainInv

(* The steps of a call that neither read the head, draw a number nor       *)
(* insert: they only move the writer that takes them.                      *)
LEMMA LocalStep ==
  ASSUME ChainInv, TypeOK', NEW w \in Writers,
         entries' = entries, pending' = pending, nextSeq' = nextSeq,
         NEW stage \in Stages \ {"draw", "insert"},
         pc' = [pc EXCEPT ![w] = stage],
         \A v \in Writers \ {w} : /\ event'[v] = event[v]
                                 /\ head'[v] = head[v]
                                 /\ seq'[v] = seq[v]
  PROVE  ChainInv'
<1>1. RowInv' /\ AllRows' = AllRows
  BY SameRows
<1>2. /\ pc'[w] \notin {"draw", "insert"}
      /\ \A v \in Writers \ {w} : pc'[v] = pc[v]
  BY DEF ChainInv, TypeOK
<1>3. \A v \in Writers : Visible(v) \subseteq entries' \cup pending'[v]
  BY DEF Visible
<1>4. Numbered' /\ HeadKnown'
  BY <1>1, <1>2, <1>3, OthersKept
<1> QED
  BY <1>1, <1>4 DEF ChainInv

LEMMA ReadHeadKeeps ==
  ASSUME ChainInv, TypeOK', NEW w \in Writers, ReadHead(w)
  PROVE  ChainInv'
<1>1. /\ entries' = entries /\ pending' = pending /\ nextSeq' = nextSeq
      /\ event' = event /\ seq' = seq
      /\ pc' = [pc EXCEPT ![w] = "draw"]
  BY DEF ReadHead
<1>2. RowInv' /\ AllRows' = AllRows
  BY <1>1, SameRows
<1>3. /\ pc'[w] = "draw"
      /\ \A v \in Writers \ {w} : pc'[v] = pc[v] /\ head'[v] = head[v]
  BY <1>1 DEF ChainInv, TypeOK, ReadHead
<1>4. \/ head'[w] = Genesis
      \/ \E s \in entries \cup pending[w] : s.org = OrgOf[event[w]] /\ s.hash = head'[w]
  BY DEF ChainInv, TypeOK, ReadHead, Of, Visible
<1>5. Numbered'
  BY <1>1, <1>2, <1>3 DEF ChainInv, Numbered
<1>6. ASSUME NEW v \in Writers, pc'[v] \in {"draw", "insert"}
      PROVE  \/ head'[v] = Genesis
             \/ \E s \in entries' \cup pending'[v] :
                  /\ s.org = OrgOf[event'[v]]
                  /\ s.hash = head'[v]
                  /\ pc'[v] = "insert" => s.seq < seq'[v]
  <2>1. CASE v = w
    BY <1>1, <1>3, <1>4, <2>1
  <2>2. CASE v # w
    BY <1>1, <1>3, <1>6, <2>2 DEF ChainInv, HeadKnown, Visible
  <2> QED
    BY <2>1, <2>2
<1>7. HeadKnown'
  BY <1>6 DEF HeadKnown, Visible
<1> QED
  BY <1>2, <1>5, <1>7 DEF ChainInv

LEMMA DrawSequenceKeeps ==
  ASSUME ChainInv, TypeOK', NEW w \in Writers, DrawSequence(w)
  PROVE  ChainInv'
<1>1. /\ entries' = entries /\ pending' = pending
      /\ event' = event /\ head' = head
      /\ nextSeq' = nextSeq + 1 /\ nextSeq \in Nat
      /\ pc[w] = "draw"
      /\ pc' = [pc EXCEPT ![w] = "insert"]
      /\ seq' = [seq EXCEPT ![w] = nextSeq]
  BY DEF DrawSequence, ChainInv, TypeOK
<1>2. RowInv' /\ AllRows' = AllRows
  BY <1>1, SameRows
<1>3. /\ pc'[w] = "insert" /\ seq'[w] = nextSeq
      /\ \A v \in Writers \ {w} : pc'[v] = pc[v] /\ seq'[v] = seq[v]
  BY <1>1 DEF ChainInv, TypeOK
<1>4. /\ \A r \in AllRows : r.seq \in Nat /\ r.seq < nextSeq
      /\ \A v \in Writers : seq[v] \in Nat
  BY RowTypes DEF ChainInv, Numbered, TypeOK
<1>5. Numbered'
  BY <1>1, <1>2, <1>3, <1>4 DEF ChainInv, Numbered
<1>6. ASSUME NEW v \in Writers, pc'[v] \in {"draw", "insert"}
      PROVE  \/ head'[v] = Genesis
             \/ \E s \in entries' \cup pending'[v] :
                  /\ s.org = OrgOf[event'[v]]
                  /\ s.hash = head'[v]
                  /\ pc'[v] = "insert" => s.seq < seq'[v]
  <2>1. CASE v = w
    <3>1. \/ head[w] = Genesis
          \/ \E s \in Visible(w) : s.org = OrgOf[event[w]] /\ s.hash = head[w]
      BY <1>1 DEF ChainInv, HeadKnown
    <3>2. \A s \in Visible(w) : s \in AllRows /\ s \in entries' \cup pending'[w]
      BY <1>1, RowSets DEF Visible
    <3> QED
      BY <1>1, <1>3, <1>4, <2>1, <3>1, <3>2
  <2>2. CASE v # w
    BY <1>1, <1>3, <1>6, <2>2 DEF ChainInv, HeadKnown, Visible
  <2> QED
    BY <2>1, <2>2
<1>7. HeadKnown'
  BY <1>6 DEF HeadKnown, Visible
<1> QED
  BY <1>2, <1>5, <1>7 DEF ChainInv

LEMMA InsertKeeps ==
  ASSUME ChainInv, TypeOK', NEW w \in Writers, Insert(w)
  PROVE  ChainInv'
<1>1. RowInv'
  BY InsertKeepsRows
<1>2. /\ AllRows' = AllRows \cup {NewRow(w)}
      /\ NewRow(w) \notin AllRows
      /\ NewRow(w).seq = seq[w]
  BY InsertAdds, NewRowType DEF ChainInv
<1>3. \A v \in Writers : Visible(v) \subseteq entries' \cup pending'[v]
  <2>1. pending \in [Writers -> SUBSET Row]
    BY DEF ChainInv, TypeOK
  <2>2. \/ /\ entries' = entries
           /\ pending' = [pending EXCEPT ![w] = @ \cup {NewRow(w)}]
        \/ /\ entries' = entries \cup {NewRow(w)}
           /\ pending' = pending
    BY InsertAdds
  <2> QED
    BY <2>1, <2>2 DEF Visible
<1>4. PICK stage \in {"open", "idle"} : Return(w, stage)
  <2>1. CASE w \in Txns
    BY <2>1 DEF Insert
  <2>2. CASE w \notin Txns
    BY <2>2 DEF Insert
  <2> QED
    BY <2>1, <2>2
<1>5. /\ pc[w] = "insert" /\ nextSeq' = nextSeq
      /\ pc'[w] \notin {"draw", "insert"}
      /\ \A v \in Writers \ {w} : /\ pc'[v] = pc[v]
                                  /\ event'[v] = event[v]
                                  /\ head'[v] = head[v]
                                  /\ seq'[v] = seq[v]
  BY <1>4 DEF Insert, Return, ChainInv, TypeOK
<1>6. Numbered'
  BY <1>2, <1>5 DEF ChainInv, Numbered
<1>7. ASSUME NEW v \in Writers, pc'[v] \in {"draw", "insert"}
      PROVE  \/ head'[v] = Genesis
             \/ \E s \in entries' \cup pending'[v] :
                  /\ s.org = OrgOf[event'[v]]
                  /\ s.hash = head'[v]
                  /\ pc'[v] = "insert" => s.seq < seq'[v]
  <2>1. v \in Writers \ {w}
    BY <1>5, <1>7
  <2> QED
    BY <1>3, <1>5, <1>7, <2>1 DEF ChainInv, HeadKnown
<1>8. HeadKnown'
  BY <1>7 DEF HeadKnown, Visible
<1> QED
  BY <1>1, <1>6, <1>8 DEF ChainInv

-----------------------------------------------------------------------------
(* Every step of the chain's code keeps ChainInv.                          *)
LEMMA ChainInvStep == ChainInv /\ [Next]_vars => ChainInv'
<1> SUFFICES ASSUME ChainInv, [Next]_vars PROVE ChainInv'
  OBVIOUS
<1>0. TypeOK'
  BY TypeStep DEF ChainInv
<1>1. ASSUME NEW w \in Writers, NEW e \in Events, NEW resume \in {"idle", "open"},
             CheckExisting(w, e, resume)
      PROVE  ChainInv'
  <2>1. PICK stage \in Stages \ {"draw", "insert"} : pc' = [pc EXCEPT ![w] = stage]
    <3>1. CASE \E r \in Visible(w) : r.ev = e
      BY <1>1, <3>1 DEF CheckExisting, Stages
    <3>2. CASE ~\E r \in Visible(w) : r.ev = e
      BY <1>1, <3>2 DEF CheckExisting, Stages
    <3> QED
      BY <3>1, <3>2
  <2>2. /\ UNCHANGED <<entries, pending, nextSeq, head, seq>>
        /\ \A v \in Writers \ {w} : event'[v] = event[v]
    BY <1>1 DEF CheckExisting, ChainInv, TypeOK
  <2> QED
    BY <1>0, <2>1, <2>2, LocalStep
<1>2. ASSUME NEW w \in Writers, NEW e \in Events, TxnAppend(w, e) PROVE ChainInv'
  BY <1>1, <1>2 DEF TxnAppend
<1>3. ASSUME NEW w \in Writers, LoaderAppend(w) PROVE ChainInv'
  <2>1. /\ backlog[w] \in Seq(Events)
        /\ backlog[w] # << >>
        /\ CheckExisting(w, Head(backlog[w]), "idle")
    BY <1>3 DEF LoaderAppend, ChainInv, TypeOK
  <2>2. Head(backlog[w]) \in Events
    BY <2>1
  <2> QED
    BY <1>1, <2>1, <2>2
<1>4. ASSUME NEW w \in Writers, ReadHead(w) PROVE ChainInv'
  BY <1>0, <1>4, ReadHeadKeeps
<1>5. ASSUME NEW w \in Writers, DrawSequence(w) PROVE ChainInv'
  BY <1>0, <1>5, DrawSequenceKeeps
<1>6. ASSUME NEW w \in Writers, Insert(w) PROVE ChainInv'
  BY <1>0, <1>6, InsertKeeps
<1>7. ASSUME NEW w \in Writers, InsertNothing(w) PROVE ChainInv'
  <2>1. PICK stage \in Stages \ {"draw", "insert"} : Return(w, stage)
    <3>1. CASE w \in Txns
      BY <1>7, <3>1 DEF InsertNothing, Stages
    <3>2. CASE w \notin Txns
      BY <1>7, <3>2 DEF InsertNothing, Stages
    <3> QED
      BY <3>1, <3>2
  <2>2. UNCHANGED <<entries, pending, nextSeq>>
    BY <1>7 DEF InsertNothing
  <2>3. /\ pc' = [pc EXCEPT ![w] = stage]
        /\ \A v \in Writers \ {w} : /\ event'[v] = event[v]
                                    /\ head'[v] = head[v]
                                    /\ seq'[v] = seq[v]
    BY <2>1 DEF Return, ChainInv, TypeOK
  <2> QED
    BY <1>0, <2>2, <2>3, LocalStep
<1>8. ASSUME NEW w \in Writers, RetryAfterRace(w) PROVE ChainInv'
  <2>1. PICK stage \in Stages \ {"draw", "insert"} : pc' = [pc EXCEPT ![w] = stage]
    <3>1. CASE attempt[w] < MaxAppendAttempts
      BY <1>8, <3>1 DEF RetryAfterRace, Stages
    <3>2. CASE ~(attempt[w] < MaxAppendAttempts)
      BY <1>8, <3>2 DEF RetryAfterRace, Stages
    <3> QED
      BY <3>1, <3>2
  <2>2. /\ UNCHANGED <<entries, pending, nextSeq>>
        /\ \A v \in Writers \ {w} : /\ event'[v] = event[v]
                                    /\ head'[v] = head[v]
                                    /\ seq'[v] = seq[v]
    BY <1>8 DEF RetryAfterRace, ChainInv, TypeOK
  <2> QED
    BY <1>0, <2>1, <2>2, LocalStep
<1>9. ASSUME NEW w \in Writers, NEW stage \in {"gaveUp", "done"},
             entries' = entries, pending' = [pending EXCEPT ![w] = {}],
             nextSeq' = nextSeq, pc' = [pc EXCEPT ![w] = stage],
             \A v \in Writers \ {w} : /\ event'[v] = event[v]
                                     /\ head'[v] = head[v]
                                     /\ seq'[v] = seq[v]
      PROVE  ChainInv'
  <2>1. RowInv' /\ AllRows' \subseteq AllRows
    BY <1>9, RollbackKeepsRows
  <2>2. \A v \in Writers \ {w} : /\ Visible(v) \subseteq entries' \cup pending'[v]
                                /\ pc'[v] = pc[v]
    BY <1>9 DEF Visible, ChainInv, TypeOK
  <2>3. pc'[w] \notin {"draw", "insert"}
    BY <1>9 DEF ChainInv, TypeOK
  <2>4. Numbered' /\ HeadKnown'
    BY <1>0, <1>9, <2>1, <2>2, <2>3, OthersKept
  <2> QED
    BY <1>0, <2>1, <2>4 DEF ChainInv
<1>10. ASSUME NEW w \in Writers, AbortAfterRace(w) PROVE ChainInv'
  BY <1>9, <1>10 DEF AbortAfterRace
<1>11. ASSUME NEW w \in Writers, Rollback(w) PROVE ChainInv'
  <2>1. /\ entries' = entries /\ pending' = [pending EXCEPT ![w] = {}]
        /\ nextSeq' = nextSeq /\ pc' = [pc EXCEPT ![w] = "done"]
        /\ \A v \in Writers \ {w} : /\ event'[v] = event[v]
                                    /\ head'[v] = head[v]
                                    /\ seq'[v] = seq[v]
    BY <1>11 DEF Rollback, Return, ChainInv, TypeOK
  <2> QED
    BY <1>9, <2>1
<1>12. ASSUME NEW w \in Writers, Commit(w) PROVE ChainInv'
  <2>1. /\ entries' = entries \cup pending[w]
        /\ pending' = [pending EXCEPT ![w] = {}]
        /\ pc' = [pc EXCEPT ![w] = "done"]
        /\ UNCHANGED <<nextSeq, event, head, seq>>
    BY <1>12 DEF Commit
  <2>2. RowInv' /\ AllRows' = AllRows
    BY <2>1, CommitKeepsRows
  <2>3. /\ pc'[w] \notin {"draw", "insert"}
        /\ \A v \in Writers \ {w} : /\ pc'[v] = pc[v]
                                    /\ Visible(v) \subseteq entries' \cup pending'[v]
    BY <2>1 DEF Visible, ChainInv, TypeOK
  <2>4. Numbered' /\ HeadKnown'
    BY <1>0, <2>1, <2>2, <2>3, OthersKept
  <2> QED
    BY <1>0, <2>2, <2>4 DEF ChainInv
<1>13. ASSUME NEW w \in Writers, LoaderDone(w) PROVE ChainInv'
  <2>1. "done" \in Stages \ {"draw", "insert"}
    BY DEF Stages
  <2> QED
    BY <1>0, <1>13, <2>1, LocalStep DEF LoaderDone
<1>14. ASSUME UNCHANGED vars PROVE ChainInv'
  <2>1. RowInv' /\ AllRows' = AllRows
    BY <1>14, SameRows DEF vars
  <2>2. Numbered' /\ HeadKnown'
    BY <1>14, <2>1 DEF vars, ChainInv, Numbered, HeadKnown, Visible
  <2> QED
    BY <1>0, <2>1, <2>2 DEF ChainInv
<1> QED
  BY <1>2, <1>3, <1>4, <1>5, <1>6, <1>7, <1>8, <1>10, <1>11, <1>12, <1>13, <1>14
  DEF Next, Advance

(* ChainInv holds in every reachable state.                                *)
LEMMA ChainInvariant == Spec => []ChainInv
<1> QED
  BY ChainInvInit, ChainInvStep, PTL DEF Spec

(* A committed chain is the chain of all rows without its uncommitted end. *)
LEMMA CommittedLinks == ChainInv => ChainVerifies
<1> SUFFICES ASSUME ChainInv, NEW r \in entries PROVE LinkedIn(entries, r)
  BY DEF ChainVerifies
<1>1. entries \subseteq AllRows /\ r \in AllRows
  BY DEF AllRows
<1>2. LinkedIn(AllRows, r)
  BY <1>1 DEF ChainInv, RowInv, Linked
<1>3. ASSUME NEW s \in Of(AllRows, r.org), s.seq < r.seq
      PROVE  s \in Of(entries, r.org)
  <2>1. s \in entries \/ \E w \in Writers : s \in pending[w]
    BY DEF Of, AllRows
  <2>2. ASSUME NEW w \in Writers, s \in pending[w] PROVE FALSE
    <3>1. r \in pending[w]
      BY <1>1, <1>3, <2>2 DEF Of, ChainInv, RowInv, Suffix
    <3> QED
      BY <3>1 DEF ChainInv, RowInv, Exclusive
  <2> QED
    BY <2>1, <2>2 DEF Of
<1> QED
  BY <1>1, <1>2, <1>3 DEF LinkedIn, Of

(* Whatever the interleaving of replicas, rollbacks and start-up           *)
(* backfills, verifyTenantAuditChain's walk over the committed rows in     *)
(* sequence order finds every link intact.                                 *)
THEOREM ChainAlwaysVerifies == Spec => []ChainVerifies
<1> QED
  BY ChainInvariant, CommittedLinks, PTL

(* An event has at most one entry in the audit trail.                      *)
THEOREM NoDuplicateEntry == Spec => []OneEntryPerEvent
<1>1. ChainInv => OneEntryPerEvent
  BY DEF ChainInv, RowInv, OneEntry, OneEntryPerEvent, AllRows
<1> QED
  BY <1>1, ChainInvariant, PTL

(* A commit only ever puts rows after the committed rows of their tenant:  *)
(* nothing that was verified is removed, and nothing slips in between.     *)
THEOREM ChainOnlyAppends == Spec => AppendOnly
<1>1. ChainInv /\ [Next]_vars => [OnlyAppends]_vars
  <2> SUFFICES ASSUME ChainInv, Next PROVE OnlyAppends
    OBVIOUS
  <2>1. CASE entries' = entries
    BY <2>1 DEF OnlyAppends
  <2>2. ASSUME NEW w \in Writers, Insert(w), w \notin Txns PROVE OnlyAppends
    <3>1. entries' = entries \cup {NewRow(w)}
      BY <2>2, InsertAdds
    <3>2. \A o \in entries : o.org = NewRow(w).org => o.seq < NewRow(w).seq
      <4>1. entries \subseteq AllRows
        BY DEF AllRows
      <4> QED
        BY <2>2, <4>1, InsertIsNewest, NewRowType DEF Insert, ChainInv
    <3> QED
      BY <3>1, <3>2 DEF OnlyAppends
  <2>3. ASSUME NEW w \in Writers, Commit(w) PROVE OnlyAppends
    <3>1. entries' = entries \cup pending[w]
      BY <2>3 DEF Commit
    <3>2. ASSUME NEW n \in pending[w], NEW o \in entries, n.org = o.org
          PROVE  o.seq < n.seq
      <4>1. n \in AllRows /\ o \in AllRows /\ o \notin pending[w]
        BY DEF AllRows, ChainInv, RowInv, Exclusive
      <4>2. n.seq \in Nat /\ o.seq \in Nat
        BY <4>1, RowTypes DEF ChainInv
      <4>3. n.seq # o.seq
        BY <4>1 DEF ChainInv, Numbered
      <4>4. ~(n.seq < o.seq)
        BY <3>2, <4>1 DEF ChainInv, RowInv, Suffix
      <4> QED
        BY <4>2, <4>3, <4>4
    <3> QED
      BY <3>1, <3>2 DEF OnlyAppends
  <2>4. \/ entries' = entries
        \/ \E w \in Writers : Insert(w) /\ w \notin Txns
        \/ \E w \in Writers : Commit(w)
    BY DEF Next, Advance, TxnAppend, CheckExisting, LoaderAppend, ReadHead, DrawSequence,
       Insert, InsertNothing, RetryAfterRace, AbortAfterRace, Rollback, LoaderDone
  <2> QED
    BY <2>1, <2>2, <2>3, <2>4
<1> QED
  BY <1>1, ChainInvariant, PTL DEF Spec, AppendOnly

-----------------------------------------------------------------------------
(***************************************************************************)
(* AuditChain implements AuditLog, for every set of tenants, events,       *)
(* transactions and loaders: under the mapping of ChainHead, which takes   *)
(* the hash of a tenant's newest committed row for its log, every step of  *)
(* the chain's code is one append to one log, or changes none.             *)
(*                                                                         *)
(* The argument.  A hash is the sequence of the events it covers, so what  *)
(* is to be shown of a commit is that the hash of the newest row extends   *)
(* that of the newest row before.  ChainInv says how rows are linked; the  *)
(* invariant LogInv adds what follows of their hashes: each covers events  *)
(* of its tenant, each once, each with a row (Covered), and extends those  *)
(* of all older rows (Extending).  It also names the newest committed row  *)
(* and the newest of a transaction (Topped), and says that a transaction   *)
(* serves one tenant (OneTenant), so that its commit moves one log only.   *)
(***************************************************************************)
Newest(S, r) == r \in S /\ \A s \in S : s.org = r.org => s.seq <= r.seq

Covered == \A r \in AllRows :
  /\ \A i \in 1 .. Len(r.hash) :
       /\ OrgOf[r.hash[i]] = r.org
       /\ \E s \in AllRows : s.org = r.org /\ s.seq <= r.seq /\ s.ev = r.hash[i]
  /\ \A i, j \in 1 .. Len(r.hash) : r.hash[i] = r.hash[j] => i = j

Extending == \A r, s \in AllRows : s.org = r.org /\ s.seq < r.seq => Log!IsExtension(s.hash, r.hash)

Topped == /\ \A r \in entries : \E n \in entries : n.org = r.org /\ Newest(entries, n)
          /\ \A w \in Writers : pending[w] # {} => \E n \in pending[w] : Newest(pending[w], n)

OneTenant == \A w \in Writers :
  /\ \A r, s \in pending[w] : r.org = s.org
  /\ pc[w] \in {"read", "draw", "insert"} => \A r \in pending[w] : r.org = OrgOf[event[w]]

LogInv == Covered /\ Extending /\ Topped /\ OneTenant

(* The newest row of a tenant among some rows, as ChainHead finds it.      *)
HeadOf(S, o) == LET chain == Of(S, o)
                IN  IF chain = {} THEN Genesis
                    ELSE (CHOOSE r \in chain : \A s \in chain : s.seq <= r.seq).hash

LEMMA ChainHeads == \A o \in Orgs : /\ ChainHead(o) = HeadOf(entries, o)
                                    /\ ChainHead(o)' = HeadOf(entries', o)
  BY DEF ChainHead, HeadOf, Of

LEMMA HeadIsNewest ==
  ASSUME NEW S \in SUBSET Row, NEW r, Newest(S, r), \A s, t \in S : s.seq = t.seq => s = t
  PROVE  HeadOf(S, r.org) = r.hash
<1> DEFINE chain == Of(S, r.org)
<1>1. r \in chain /\ \A s \in chain : s.seq <= r.seq
  BY DEF Newest, Of
<1>2. ASSUME NEW t \in chain, \A s \in chain : s.seq <= t.seq PROVE t = r
  <2>1. t.seq <= r.seq /\ r.seq <= t.seq /\ t.seq \in Nat /\ r.seq \in Nat /\ t \in S /\ r \in S
    BY <1>1, <1>2 DEF Of, Row
  <2>2. t.seq = r.seq
    BY <2>1
  <2> QED
    BY <2>1, <2>2
<1>3. (CHOOSE t \in chain : \A s \in chain : s.seq <= t.seq) = r
  <2> HIDE DEF chain
  <2> QED
    BY <1>1, <1>2
<1>4. HeadOf(S, r.org) = IF chain = {} THEN Genesis
                         ELSE (CHOOSE t \in chain : \A s \in chain : s.seq <= t.seq).hash
  BY DEF HeadOf
<1> HIDE DEF chain
<1> QED
  BY <1>1, <1>3, <1>4

LEMMA HeadOfNone ==
  ASSUME NEW S, NEW o, \A s \in S : s.org # o
  PROVE  HeadOf(S, o) = Genesis
  BY DEF HeadOf, Of

(* Hashing extends a hash by one event.                                    *)
LEMMA HashExtends ==
  ASSUME NEW h \in Hash, NEW e \in Events
  PROVE  LET k == calculateAuditHash(h, e)
         IN  /\ k \in Hash
             /\ Len(k) = Len(h) + 1
             /\ \A i \in 1 .. Len(h) : k[i] = h[i]
             /\ k[Len(h) + 1] = e
             /\ Log!IsExtension(h, k)
             /\ Len(h) \in Nat
  BY DEF Hash, calculateAuditHash, Log!IsExtension

LEMMA ExtensionsCompose ==
  ASSUME NEW h \in Hash, NEW k \in Hash, NEW m \in Hash,
         Log!IsExtension(h, k), Log!IsExtension(k, m)
  PROVE  Log!IsExtension(h, m)
<1>1. Len(h) \in Nat /\ Len(k) \in Nat /\ Len(m) \in Nat
  BY DEF Hash
<1> QED
  BY <1>1 DEF Log!IsExtension

-----------------------------------------------------------------------------
(* The rows, wherever they are: their types, and that numbers tell them    *)
(* apart.                                                                  *)
LEMMA RowFacts ==
  ASSUME ChainInv
  PROVE  /\ entries \subseteq AllRows /\ AllRows \subseteq Row
         /\ \A w \in Writers : pending[w] \subseteq AllRows
         /\ \A r \in AllRows : /\ r.seq \in Nat /\ r.org \in Orgs /\ r.ev \in Events
                               /\ r.hash \in Hash /\ r.prev \in Hash
         /\ \A r, s \in AllRows : r.seq = s.seq => r = s
<1>1. entries \subseteq AllRows /\ \A w \in Writers : pending[w] \subseteq AllRows
  BY DEF AllRows
<1>2. AllRows \subseteq Row
  BY DEF ChainInv, TypeOK, AllRows
<1>3. \A r \in Row : /\ r.seq \in Nat /\ r.org \in Orgs /\ r.ev \in Events
                    /\ r.hash \in Hash /\ r.prev \in Hash
  BY DEF Row
<1> QED
  BY <1>1, <1>2, <1>3 DEF ChainInv, Numbered

(* The row an INSERT adds, as far as its hash goes.                        *)
LEMMA InsertCovers ==
  ASSUME ChainInv, LogInv, NEW w \in Writers, Insert(w)
  PROVE  LET n == NewRow(w)
         IN  /\ n \in Row
             /\ AllRows' = AllRows \cup {n}
             /\ \A t \in AllRows : t.org = n.org => /\ t.seq < n.seq
                                                    /\ Log!IsExtension(t.hash, n.hash)
             /\ \A i \in 1 .. Len(n.hash) :
                  /\ OrgOf[n.hash[i]] = n.org
                  /\ \E s \in AllRows \cup {n} :
                       s.org = n.org /\ s.seq <= n.seq /\ s.ev = n.hash[i]
             /\ \A i, j \in 1 .. Len(n.hash) : n.hash[i] = n.hash[j] => i = j
<1> DEFINE n == NewRow(w)
           h == head[w]
           e == event[w]
<1>1. /\ pc[w] = "insert" /\ ~Blocked(w)
      /\ ~SameEvent(Visible(w), w) /\ ~SameLink(Visible(w), w)
  BY DEF Insert
<1>2. /\ n \in Row /\ n.seq = seq[w] /\ n.org = OrgOf[e] /\ n.ev = e /\ n.prev = h
      /\ n.hash = calculateAuditHash(h, e) /\ n.seq \in Nat
  BY NewRowType DEF ChainInv, TypeOK
<1>3. AllRows' = AllRows \cup {n}
  BY InsertAdds
<1>4. \A t \in AllRows : t.ev # e
  BY <1>1, RowSets DEF Blocked, SameEvent
<1>5. h \in Hash /\ e \in Events
  BY DEF ChainInv, TypeOK
<1>6. /\ Len(n.hash) = Len(h) + 1
      /\ \A i \in 1 .. Len(h) : n.hash[i] = h[i]
      /\ n.hash[Len(h) + 1] = e
      /\ Log!IsExtension(h, n.hash)
      /\ Len(h) \in Nat
      /\ n.hash \in Hash
  BY <1>2, <1>5, HashExtends
<1>7. \/ h = Genesis /\ \A t \in AllRows : t.org # n.org
      \/ \E s \in AllRows : /\ s.org = n.org /\ s.hash = h /\ s.seq < n.seq
                            /\ \A t \in AllRows : t.org = n.org => t.seq <= s.seq
  <2>1. \A t \in AllRows : t.org = n.org => head[w] # Genesis
    BY <1>1, <1>2, InsertIsNewest
  <2>2. CASE h = Genesis
    BY <2>1, <2>2
  <2>3. CASE h # Genesis
    <3>1. PICK s \in Visible(w) : s.org = n.org /\ s.hash = h /\ s.seq < n.seq
      BY <1>1, <1>2, <2>3 DEF ChainInv, HeadKnown
    <3>2. s \in AllRows
      BY <3>1, RowSets
    <3>3. \A t \in AllRows : t.org = n.org => ~(s.seq < t.seq)
      <4>1. \A u \in AllRows : u.org = n.org => u.prev # h
        BY <1>1, <1>2, RowSets DEF Blocked, SameLink
      <4> QED
        BY <3>1, <3>2, <4>1 DEF ChainInv, RowInv, Succeeded
    <3>4. \A t \in AllRows : t.seq \in Nat
      BY RowFacts
    <3> QED
      BY <3>1, <3>2, <3>3, <3>4
  <2> QED
    BY <2>2, <2>3
<1>8. \A t \in AllRows : t.org = n.org => t.seq < n.seq
  BY <1>1, <1>2, InsertIsNewest
<1>9. CASE h = Genesis /\ \A t \in AllRows : t.org # n.org
  <2>1. Len(h) = 0
    BY <1>9 DEF Genesis
  <2>2. \A i \in 1 .. Len(n.hash) : i = 1 /\ n.hash[i] = e
    BY <1>6, <2>1
  <2> QED
    BY <1>2, <1>3, <1>8, <1>9, <2>2
<1>10. ASSUME NEW s \in AllRows, s.org = n.org, s.hash = h, s.seq < n.seq,
              \A t \in AllRows : t.org = n.org => t.seq <= s.seq
       PROVE  /\ \A t \in AllRows : t.org = n.org => Log!IsExtension(t.hash, n.hash)
              /\ \A i \in 1 .. Len(n.hash) :
                   /\ OrgOf[n.hash[i]] = n.org
                   /\ \E r \in AllRows \cup {n} :
                        r.org = n.org /\ r.seq <= n.seq /\ r.ev = n.hash[i]
              /\ \A i, j \in 1 .. Len(n.hash) : n.hash[i] = n.hash[j] => i = j
  <2>1. ASSUME NEW t \in AllRows, t.org = n.org PROVE Log!IsExtension(t.hash, n.hash)
    <3>1. CASE t = s
      BY <1>6, <1>10, <3>1
    <3>2. CASE t # s
      <4>1. t.seq < s.seq
        BY <1>10, <2>1, <3>2, RowFacts
      <4>2. Log!IsExtension(t.hash, h)
        BY <1>10, <2>1, <4>1 DEF LogInv, Extending
      <4> QED
        BY <1>5, <1>6, <4>2, ExtensionsCompose, RowFacts
    <3> QED
      BY <3>1, <3>2
  <2>2. /\ \A i \in 1 .. Len(h) :
             /\ OrgOf[h[i]] = n.org
             /\ \E r \in AllRows : r.org = n.org /\ r.seq <= s.seq /\ r.ev = h[i]
        /\ \A i, j \in 1 .. Len(h) : h[i] = h[j] => i = j
    BY <1>10 DEF LogInv, Covered
  <2>3. \A i \in 1 .. Len(h) : h[i] # e
    BY <1>4, <2>2
  <2>4. \A i \in 1 .. Len(n.hash) : i \in 1 .. Len(h) \/ i = Len(h) + 1
    BY <1>6
  <2>5. \A r \in AllRows : r.seq <= s.seq => r.seq <= n.seq
    BY <1>2, <1>10, RowFacts
  <2>6. \A i \in 1 .. Len(n.hash) :
          /\ OrgOf[n.hash[i]] = n.org
          /\ \E r \in AllRows \cup {n} : r.org = n.org /\ r.seq <= n.seq /\ r.ev = n.hash[i]
    BY <1>2, <1>6, <2>2, <2>4, <2>5
  <2>7. \A i, j \in 1 .. Len(n.hash) : n.hash[i] = n.hash[j] => i = j
    BY <1>6, <2>2, <2>3, <2>4, SMTT(30)
  <2> QED
    BY <2>1, <2>6, <2>7
<1> HIDE DEF n, h, e
<1> QED
  BY <1>2, <1>3, <1>7, <1>8, <1>9, <1>10 DEF n

-----------------------------------------------------------------------------
(* Rows that neither come nor change place.                                *)
RowsStay == entries' = entries /\ pending' = pending

(* An INSERT keeps what is known of hashes: the row covers what its        *)
(* predecessor covers, and its own event, which no row had.                *)
LEMMA InsertKeepsHashes ==
  ASSUME ChainInv, LogInv, NEW w \in Writers, Insert(w)
  PROVE  Covered' /\ Extending'
<1> DEFINE n == NewRow(w)
<1>1. /\ n \in Row
      /\ AllRows' = AllRows \cup {n}
      /\ \A t \in AllRows : t.org = n.org => t.seq < n.seq /\ Log!IsExtension(t.hash, n.hash)
      /\ \A i \in 1 .. Len(n.hash) :
           /\ OrgOf[n.hash[i]] = n.org
           /\ \E s \in AllRows \cup {n} : s.org = n.org /\ s.seq <= n.seq /\ s.ev = n.hash[i]
      /\ \A i, j \in 1 .. Len(n.hash) : n.hash[i] = n.hash[j] => i = j
  BY InsertCovers
<1>2. n.seq \in Nat
  BY <1>1 DEF Row
<1> HIDE DEF n
<1>3. Covered'
  BY <1>1 DEF LogInv, Covered
<1>4. Extending'
  <2> SUFFICES ASSUME NEW r \in AllRows \cup {n}, NEW s \in AllRows \cup {n},
                      s.org = r.org, s.seq < r.seq
               PROVE  Log!IsExtension(s.hash, r.hash)
    BY <1>1 DEF Extending
  <2>1. CASE r \in AllRows /\ s \in AllRows
    BY <2>1 DEF LogInv, Extending
  <2>2. CASE r = n /\ s \in AllRows
    BY <1>1, <2>2
  <2>3. CASE s = n
    BY <1>1, <1>2, <2>3, RowFacts
  <2> QED
    BY <2>1, <2>2, <2>3
<1> QED
  BY <1>3, <1>4

(* A roll-back takes the newest rows of a chain away, and the hashes of    *)
(* the others never covered them.                                          *)
LEMMA RollbackKeepsHashes ==
  ASSUME ChainInv, LogInv, NEW w \in Writers,
         entries' = entries, pending' = [pending EXCEPT ![w] = {}]
  PROVE  Covered' /\ Extending'
<1>1. AllRows' \subseteq AllRows /\ \A r \in AllRows : r \in AllRows' \/ r \in pending[w]
  BY DEF AllRows, ChainInv, TypeOK
<1>2. \A r \in AllRows' : r \notin pending[w]
  BY DEF AllRows, ChainInv, TypeOK, RowInv, Exclusive
<1>3. ASSUME NEW r \in AllRows', NEW s \in AllRows, s.org = r.org, s.seq <= r.seq
      PROVE  s \in AllRows'
  <2> SUFFICES ASSUME s \in pending[w] PROVE FALSE
    BY <1>1
  <2>1. r \in AllRows /\ r # s
    BY <1>1, <1>2
  <2>2. s.seq < r.seq
    BY <1>3, <2>1, RowFacts
  <2> QED
    BY <1>2, <1>3, <2>1, <2>2 DEF ChainInv, RowInv, Suffix
<1>4. Covered'
  BY <1>1, <1>3 DEF LogInv, Covered
<1>5. Extending'
  BY <1>1 DEF LogInv, Extending
<1> QED
  BY <1>4, <1>5

(* The same rows in other places have the same hashes.                     *)
LEMMA SameHashes ==
  ASSUME LogInv, AllRows' = AllRows
  PROVE  Covered' /\ Extending'
  BY DEF LogInv, Covered, Extending

-----------------------------------------------------------------------------
(* Every step keeps LogInv.  First the steps that move no row.             *)
LEMMA QuietStep ==
  ASSUME ChainInv, LogInv, RowsStay, NEW w \in Writers,
         \A v \in Writers \ {w} : event'[v] = event[v] /\ pc'[v] = pc[v],
         pc'[w] \in {"read", "draw", "insert"} => \A r \in pending[w] : r.org = OrgOf[event'[w]]
  PROVE  LogInv'
<1>1. Covered' /\ Extending'
  <2>1. AllRows' = AllRows
    BY DEF AllRows, RowsStay
  <2> QED
    BY <2>1, SameHashes
<1>2. Topped'
  BY DEF LogInv, Topped, RowsStay, Newest
<1>3. OneTenant'
  BY DEF LogInv, OneTenant, RowsStay
<1> QED
  BY <1>1, <1>2, <1>3 DEF LogInv

(* A roll-back leaves a transaction without rows.                          *)
LEMMA DropStep ==
  ASSUME ChainInv, LogInv, NEW w \in Writers,
         entries' = entries, pending' = [pending EXCEPT ![w] = {}],
         \A v \in Writers \ {w} : event'[v] = event[v] /\ pc'[v] = pc[v]
  PROVE  LogInv'
<1>1. pending'[w] = {} /\ \A v \in Writers \ {w} : pending'[v] = pending[v]
  BY DEF ChainInv, TypeOK
<1>2. Covered' /\ Extending'
  BY RollbackKeepsHashes
<1>3. Topped'
  BY <1>1 DEF LogInv, Topped, Newest
<1>4. OneTenant'
  BY <1>1 DEF LogInv, OneTenant
<1> QED
  BY <1>2, <1>3, <1>4 DEF LogInv

LEMMA InsertStep ==
  ASSUME ChainInv, LogInv, NEW w \in Writers, Insert(w)
  PROVE  LogInv'
<1> DEFINE n == NewRow(w)
<1>1. Covered' /\ Extending'
  BY InsertKeepsHashes
<1>2. /\ n \in Row /\ \A t \in AllRows : t.org = n.org => t.seq < n.seq
      /\ n.org = OrgOf[event[w]]
  BY InsertCovers, NewRowType DEF ChainInv
<1>3. pc[w] = "insert" /\ \A v \in Writers \ {w} : event'[v] = event[v] /\ pc'[v] = pc[v]
  BY DEF Insert, Return, ChainInv, TypeOK
<1>4. pc'[w] \notin {"read", "draw", "insert"}
  BY DEF Insert, Return, ChainInv, TypeOK
<1>5. n.seq \in Nat
  BY <1>2 DEF Row
<1>6. CASE w \in Txns
  <2>1. entries' = entries /\ pending' = [pending EXCEPT ![w] = pending[w] \cup {n}]
    BY <1>6 DEF Insert
  <2>2. /\ pending'[w] = pending[w] \cup {n}
        /\ \A v \in Writers \ {w} : pending'[v] = pending[v]
    BY <2>1 DEF ChainInv, TypeOK
  <2>3. \A r \in pending[w] : r.org = n.org
    BY <1>2, <1>3 DEF LogInv, OneTenant
  <2> HIDE DEF n
  <2>4. Newest(pending[w] \cup {n}, n)
    BY <1>2, <1>5, RowFacts DEF Newest
  <2>5. Topped'
    BY <2>1, <2>2, <2>4 DEF LogInv, Topped, Newest
  <2>6. OneTenant'
    BY <1>3, <1>4, <2>2, <2>3 DEF LogInv, OneTenant
  <2> QED
    BY <1>1, <2>5, <2>6 DEF LogInv
<1>7. CASE w \notin Txns
  <2>1. entries' = entries \cup {n} /\ pending' = pending
    BY <1>7 DEF Insert
  <2> HIDE DEF n
  <2>2. Newest(entries \cup {n}, n)
    BY <1>2, <1>5, RowFacts DEF Newest
  <2>3. ASSUME NEW r \in entries, r.org # n.org
        PROVE  \E m \in entries \cup {n} : m.org = r.org /\ Newest(entries \cup {n}, m)
    BY <2>3 DEF LogInv, Topped, Newest
  <2>4. Topped'
    BY <2>1, <2>2, <2>3 DEF LogInv, Topped, Newest
  <2>5. OneTenant'
    BY <1>3, <1>4, <2>1 DEF LogInv, OneTenant
  <2> QED
    BY <1>1, <2>4, <2>5 DEF LogInv
<1> QED
  BY <1>6, <1>7

(* The rows a transaction commits are of one tenant, newer than those that *)
(* are committed.                                                          *)
LEMMA CommitIsNewer ==
  ASSUME ChainInv, NEW w \in Writers, NEW r \in pending[w], NEW t \in entries, t.org = r.org
  PROVE  t.seq < r.seq
<1>1. r \in AllRows /\ t \in AllRows /\ t \notin pending[w]
  BY RowFacts DEF ChainInv, RowInv, Exclusive
<1>2. ~(r.seq < t.seq) /\ r.seq # t.seq
  BY <1>1, RowFacts DEF ChainInv, RowInv, Suffix
<1> QED
  BY <1>1, <1>2, RowFacts

LEMMA CommitStep ==
  ASSUME ChainInv, LogInv, NEW w \in Writers, Commit(w)
  PROVE  LogInv'
<1>1. /\ entries' = entries \cup pending[w] /\ pending' = [pending EXCEPT ![w] = {}]
      /\ pc' = [pc EXCEPT ![w] = "done"] /\ event' = event
  BY DEF Commit
<1>2. /\ pending'[w] = {} /\ \A v \in Writers \ {w} : pending'[v] = pending[v] /\ pc'[v] = pc[v]
  BY <1>1 DEF ChainInv, TypeOK
<1>3. Covered' /\ Extending'
  BY <1>1, CommitKeepsRows, SameHashes
<1>4. OneTenant'
  BY <1>1, <1>2 DEF LogInv, OneTenant
<1>5. Topped'
  <2>1. CASE pending[w] = {}
    BY <1>1, <1>2, <2>1 DEF LogInv, Topped, Newest
  <2>2. CASE pending[w] # {}
    <3>1. PICK n \in pending[w] : Newest(pending[w], n)
      BY <2>2 DEF LogInv, Topped
    <3>2. \A r \in pending[w] : r.org = n.org
      BY DEF LogInv, OneTenant
    <3>3. \A t \in entries : t.org = n.org => t.seq <= n.seq
      BY CommitIsNewer, RowFacts
    <3>4. Newest(entries \cup pending[w], n)
      BY <3>1, <3>3 DEF Newest
    <3>5. ASSUME NEW r \in entries, r.org # n.org
          PROVE  \E m \in entries : m.org = r.org /\ Newest(entries \cup pending[w], m)
      BY <3>2, <3>5 DEF LogInv, Topped, Newest
    <3>6. \A r \in entries' : \E m \in entries' : m.org = r.org /\ Newest(entries', m)
      BY <1>1, <3>2, <3>4, <3>5
    <3>7. \A v \in Writers : pending'[v] # {} => \E m \in pending'[v] : Newest(pending'[v], m)
      BY <1>2 DEF LogInv, Topped
    <3> QED
      BY <3>6, <3>7 DEF Topped, Newest
  <2> QED
    BY <2>1, <2>2
<1> QED
  BY <1>3, <1>4, <1>5 DEF LogInv
LEMMA LogInvInit == Init => LogInv
<1> SUFFICES ASSUME Init PROVE LogInv
  OBVIOUS
<1>1. AllRows = {} /\ entries = {} /\ \A w \in Writers : pending[w] = {}
  BY DEF Init, AllRows
<1> QED
  BY <1>1 DEF LogInv, Covered, Extending, Topped, OneTenant

LEMMA LogInvStep == ChainInv /\ LogInv /\ [Next]_vars => LogInv'
<1> SUFFICES ASSUME ChainInv, LogInv, [Next]_vars PROVE LogInv'
  OBVIOUS
<1>1. ASSUME NEW w \in Writers, NEW e \in Events, NEW resume \in {"idle", "open"},
             CheckExisting(w, e, resume), \A r \in pending[w] : r.org = OrgOf[e]
      PROVE  LogInv'
  <2>1. /\ RowsStay
        /\ \A v \in Writers \ {w} : event'[v] = event[v] /\ pc'[v] = pc[v]
        /\ pc'[w] = resume \/ event'[w] = e
    BY <1>1 DEF CheckExisting, RowsStay, ChainInv, TypeOK
  <2> QED
    BY <1>1, <2>1, QuietStep
<1>2. ASSUME NEW w \in Writers, NEW e \in Events, TxnAppend(w, e) PROVE LogInv'
  BY <1>1, <1>2 DEF TxnAppend
<1>3. ASSUME NEW w \in Writers, LoaderAppend(w) PROVE LogInv'
  <2>1. /\ backlog[w] \in Seq(Events)
        /\ backlog[w] # << >>
        /\ CheckExisting(w, Head(backlog[w]), "idle")
        /\ pending[w] = {}
    BY <1>3 DEF LoaderAppend, ChainInv, TypeOK, RowInv, Exclusive
  <2>2. Head(backlog[w]) \in Events
    BY <2>1
  <2> QED
    BY <1>1, <2>1, <2>2
<1>4. ASSUME NEW w \in Writers, ReadHead(w) \/ DrawSequence(w) PROVE LogInv'
  <2>1. /\ RowsStay /\ event' = event /\ pc[w] \in {"read", "draw", "insert"}
        /\ \A v \in Writers \ {w} : pc'[v] = pc[v]
    BY <1>4 DEF ReadHead, DrawSequence, RowsStay, ChainInv, TypeOK
  <2>2. \A r \in pending[w] : r.org = OrgOf[event'[w]]
    BY <2>1 DEF LogInv, OneTenant
  <2> QED
    BY <2>1, <2>2, QuietStep
<1>5. ASSUME NEW w \in Writers, Insert(w) PROVE LogInv'
  BY <1>5, InsertStep
<1>6. ASSUME NEW w \in Writers, InsertNothing(w) PROVE LogInv'
  <2>1. /\ RowsStay /\ pc'[w] \in {"open", "idle"}
        /\ \A v \in Writers \ {w} : event'[v] = event[v] /\ pc'[v] = pc[v]
    BY <1>6 DEF InsertNothing, Return, RowsStay, ChainInv, TypeOK
  <2> QED
    BY <2>1, QuietStep
<1>7. ASSUME NEW w \in Writers, RetryAfterRace(w) \/ LoaderDone(w) PROVE LogInv'
  <2>1. RowsStay /\ event' = event /\ w \in Loaders
    BY <1>7 DEF RetryAfterRace, LoaderDone, RowsStay
  <2>2. \A v \in Writers \ {w} : pc'[v] = pc[v]
    BY <1>7 DEF RetryAfterRace, LoaderDone, ChainInv, TypeOK
  <2>3. pending[w] = {}
    BY <2>1 DEF ChainInv, RowInv, Exclusive
  <2> QED
    BY <2>1, <2>2, <2>3, QuietStep
<1>8. ASSUME NEW w \in Writers, AbortAfterRace(w) \/ Rollback(w) PROVE LogInv'
  <2>1. /\ entries' = entries /\ pending' = [pending EXCEPT ![w] = {}]
        /\ \A v \in Writers \ {w} : event'[v] = event[v] /\ pc'[v] = pc[v]
    BY <1>8 DEF AbortAfterRace, Rollback, Return, ChainInv, TypeOK
  <2> QED
    BY <2>1, DropStep
<1>9. ASSUME NEW w \in Writers, Commit(w) PROVE LogInv'
  BY <1>9, CommitStep
<1>10. ASSUME UNCHANGED vars PROVE LogInv'
  <2>1. AllRows' = AllRows
    BY <1>10 DEF vars, AllRows
  <2>2. Covered' /\ Extending'
    BY <2>1, SameHashes
  <2>3. Topped' /\ OneTenant'
    BY <1>10 DEF vars, LogInv, Topped, OneTenant, Newest
  <2> QED
    BY <2>2, <2>3 DEF LogInv
<1> QED
  BY <1>2, <1>3, <1>4, <1>5, <1>6, <1>7, <1>8, <1>9, <1>10 DEF Next, Advance

LEMMA LogInvariant == Spec => [](ChainInv /\ LogInv)
<1>1. Init => ChainInv /\ LogInv
  BY ChainInvInit, LogInvInit
<1>2. (ChainInv /\ LogInv) /\ [Next]_vars => (ChainInv /\ LogInv)'
  BY ChainInvStep, LogInvStep
<1> QED
  BY <1>1, <1>2, PTL DEF Spec
-----------------------------------------------------------------------------
(* Committing new rows of one tenant, after those it has, appends to that  *)
(* tenant's log.                                                           *)
LEMMA CommitAppends ==
  ASSUME ChainInv, LogInv, ChainInv', LogInv',
         NEW o \in Orgs, NEW new, new # {}, entries' = entries \cup new,
         \A r \in new : r.org = o /\ \A t \in entries : t.org = o => t.seq < r.seq
  PROVE  Log!Next
<1>1. entries' \subseteq AllRows' /\ AllRows' \subseteq Row
  BY DEF AllRows, ChainInv, TypeOK
<1>2. /\ entries' \in SUBSET Row
      /\ \A r, s \in entries' : r.seq = s.seq => r = s
      /\ \A r \in entries' : r.seq \in Nat /\ r.hash \in Hash /\ r.prev \in Hash
                              /\ r.ev \in Events
  BY <1>1 DEF ChainInv, Numbered, Row
<1>3. /\ entries \in SUBSET Row
      /\ \A r, s \in entries : r.seq = s.seq => r = s
      /\ entries \subseteq entries'
  BY RowFacts
<1>4. \A r \in entries' : \E n \in entries' : n.org = r.org /\ Newest(entries', n)
  BY DEF LogInv, Topped, Newest
<1>5. \A p \in Orgs : HeadOf(entries', p) \in Hash
  <2> TAKE p \in Orgs
  <2>1. CASE \A r \in entries' : r.org # p
    BY <2>1, HeadOfNone, Typing
  <2>2. CASE \E r \in entries' : r.org = p
    <3>1. PICK n \in entries' : n.org = p /\ Newest(entries', n)
      BY <1>4, <2>2
    <3>2. HeadOf(entries', n.org) = n.hash
      BY <1>2, <3>1, HeadIsNewest
    <3> QED
      BY <1>2, <3>1, <3>2
  <2> QED
    BY <2>1, <2>2
<1>6. \A p \in Orgs \ {o} : HeadOf(entries', p) = HeadOf(entries, p)
  <2> TAKE p \in Orgs \ {o}
  <2>1. \A r \in entries' : r.org = p <=> r \in entries /\ r.org = p
    OBVIOUS
  <2>2. CASE \A r \in entries : r.org # p
    BY <2>1, <2>2, HeadOfNone
  <2>3. CASE \E r \in entries : r.org = p
    <3>1. PICK m \in entries : m.org = p /\ Newest(entries, m)
      BY <2>3 DEF LogInv, Topped
    <3>2. Newest(entries', m)
      BY <1>3, <2>1, <3>1 DEF Newest
    <3> QED
      BY <1>2, <1>3, <3>1, <3>2, HeadIsNewest
  <2> QED
    BY <2>2, <2>3
<1>7. PICK n \in entries' : n.org = o /\ Newest(entries', n)
  BY <1>4
<1>8. HeadOf(entries', o) = n.hash
  BY <1>2, <1>7, HeadIsNewest
<1>9. Log!IsExtension(HeadOf(entries, o), n.hash) /\ Len(HeadOf(entries, o)) \in Nat
  <2>1. CASE \A t \in entries : t.org # o
    <3>1. HeadOf(entries, o) = << >>
      BY <2>1, HeadOfNone DEF Genesis
    <3>2. n.hash = calculateAuditHash(n.prev, n.ev)
      BY <1>1 DEF ChainInv, RowInv, Linked, LinkedIn
    <3>3. Len(n.hash) = Len(n.prev) + 1 /\ Len(n.prev) \in Nat
      BY <1>2, <3>2, HashExtends
    <3> QED
      BY <3>1, <3>3 DEF Log!IsExtension
  <2>2. CASE \E t \in entries : t.org = o
    <3>1. PICK m \in entries : m.org = o /\ Newest(entries, m)
      BY <2>2 DEF LogInv, Topped
    <3>2. HeadOf(entries, o) = m.hash
      BY <1>3, <3>1, HeadIsNewest
    <3>3. PICK r \in new : r.org = o /\ m.seq < r.seq
      BY <3>1
    <3>4. m.seq < n.seq
      <4>1. r.seq <= n.seq /\ r.seq \in Nat /\ n.seq \in Nat /\ m.seq \in Nat
        BY <1>2, <1>3, <1>7, <3>3 DEF Newest
      <4> QED
        BY <3>3, <4>1
    <3>5. m \in AllRows' /\ n \in AllRows'
      BY <1>1, <1>3
    <3>6. Log!IsExtension(m.hash, n.hash)
      BY <1>7, <3>1, <3>4, <3>5 DEF LogInv, Extending
    <3>7. Len(m.hash) \in Nat
      BY <1>2, <1>3 DEF Hash
    <3> QED
      BY <3>2, <3>6, <3>7
  <2> QED
    BY <2>1, <2>2
<1>10. /\ \A i \in 1 .. Len(n.hash) : OrgOf[n.hash[i]] = o
       /\ \A i, j \in 1 .. Len(n.hash) : n.hash[i] = n.hash[j] => i = j
       /\ Len(n.hash) \in Nat
  BY <1>1, <1>2, <1>7 DEF LogInv, Covered, Hash
<1>11. \A i \in Len(HeadOf(entries, o)) + 1 .. Len(n.hash) :
         /\ OrgOf[n.hash[i]] = o
         /\ \A j \in 1 .. i - 1 : n.hash[j] # n.hash[i]
  BY <1>9, <1>10
<1>12. Log!AppendTo(o)
  <2> DEFINE old == [p \in Orgs |-> ChainHead(p)]
  <2>1. /\ old[o] = HeadOf(entries, o) /\ old'[o] = n.hash
        /\ old' \in [Orgs -> Hash]
        /\ \A p \in Orgs \ {o} : old'[p] = old[p]
    BY <1>5, <1>6, <1>8, ChainHeads
  <2> HIDE DEF old
  <2>2. /\ old' \in [Orgs -> Seq(Events)]
        /\ \A p \in Orgs \ {o} : old'[p] = old[p]
        /\ Log!IsExtension(old[o], old'[o])
        /\ \A i \in Len(old[o]) + 1 .. Len(old'[o]) :
             /\ OrgOf[old'[o][i]] = o
             /\ \A j \in 1 .. i - 1 : old'[o][j] # old'[o][i]
    BY <1>9, <1>11, <2>1 DEF Hash
  <2> QED
    BY <2>2 DEF Log!AppendTo, old
<1> QED
  BY <1>12 DEF Log!Next

(* A step commits rows of one tenant, newer than what is committed, or     *)
(* commits none.                                                           *)
LEMMA StepAppends ==
  ASSUME ChainInv, LogInv, ChainInv', LogInv', [Next]_vars
  PROVE  entries' = entries \/ Log!Next
<1>1. ASSUME NEW w \in Writers, Insert(w), w \notin Txns PROVE Log!Next
  <2> DEFINE n == NewRow(w)
  <2>1. entries' = entries \cup {n}
    BY <1>1, InsertAdds
  <2>2. n \in Row /\ \A t \in AllRows : t.org = n.org => t.seq < n.seq
    BY <1>1, InsertCovers
  <2>3. n.org \in Orgs
    BY <2>2 DEF Row
  <2> HIDE DEF n
  <2>4. /\ {n} # {}
        /\ \A r \in {n} : r.org = n.org /\ \A t \in entries : t.org = n.org => t.seq < r.seq
    BY <2>2, RowFacts
  <2> QED
    BY <2>1, <2>3, <2>4, CommitAppends
<1>2. ASSUME NEW w \in Writers, Commit(w) PROVE entries' = entries \/ Log!Next
  <2>1. entries' = entries \cup pending[w]
    BY <1>2 DEF Commit
  <2>2. CASE pending[w] = {}
    BY <2>1, <2>2
  <2>3. CASE pending[w] # {}
    <3>1. PICK n \in pending[w] : TRUE
      BY <2>3
    <3>2. n.org \in Orgs /\ \A r \in pending[w] : r.org = n.org
      BY RowFacts DEF LogInv, OneTenant
    <3>3. \A r \in pending[w] : \A t \in entries : t.org = n.org => t.seq < r.seq
      BY <3>2, CommitIsNewer
    <3> QED
      BY <2>1, <2>3, <3>2, <3>3, CommitAppends
  <2> QED
    BY <2>2, <2>3
<1>3. CASE UNCHANGED vars
  BY <1>3 DEF vars
<1>4. ASSUME NEW w \in Writers,
             \/ ReadHead(w) \/ DrawSequence(w) \/ InsertNothing(w) \/ RetryAfterRace(w)
             \/ AbortAfterRace(w) \/ Rollback(w) \/ LoaderDone(w) \/ LoaderAppend(w)
             \/ (Insert(w) /\ w \in Txns) \/ \E e \in Events : TxnAppend(w, e)
      PROVE  entries' = entries
  BY <1>4 DEF ReadHead, DrawSequence, InsertNothing, RetryAfterRace, AbortAfterRace, Rollback,
     LoaderDone, LoaderAppend, Insert, TxnAppend, CheckExisting
<1> QED
  BY <1>1, <1>2, <1>3, <1>4 DEF Next, Advance

(* The audit trail is, for every tenant, a log to which each commit        *)
(* appends events of that tenant that it did not hold, and from which no   *)
(* race, roll-back or start-up backfill ever takes anything away.          *)
THEOREM ChainImplementsLog == Spec => ImplementsLog
<1> DEFINE log == [o \in Orgs |-> ChainHead(o)]
<1>1. Init => Log!Init
  <2> SUFFICES ASSUME Init PROVE \A o \in Orgs : ChainHead(o) = << >>
    BY DEF Log!Init
  <2> QED
    BY DEF Init, ChainHead, Of, Genesis
<1>2. (ChainInv /\ LogInv) /\ (ChainInv /\ LogInv)' /\ [Next]_vars => [Log!Next]_log
  <2> SUFFICES ASSUME ChainInv, LogInv, ChainInv', LogInv', [Next]_vars
               PROVE  Log!Next \/ log' = log
    OBVIOUS
  <2>1. CASE entries' = entries
    BY <2>1, ChainHeads
  <2> QED
    BY <2>1, StepAppends
<1> QED
  BY <1>1, <1>2, LogInvariant, PTL DEF Spec, ImplementsLog, Log!Spec
=============================================================================
