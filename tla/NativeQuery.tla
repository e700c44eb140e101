----------------------------- MODULE NativeQuery -----------------------------
(***************************************************************************)
(* A scheduled native query (connectors/native-query/): users draft, edit, *)
(* publish and disable it while schedulers and operators run it.  A run    *)
(* claims the row by a lease, reads one page of matching changes since the *)
(* watermark, and stores records and watermark in one transaction.  The    *)
(* watermark belongs to the text that was published: an edited query       *)
(* starts over.                                                            *)
(***************************************************************************)
EXTENDS Naturals, Sequences, FiniteSetsExt

CONSTANTS Users,       \* concurrent requests to update or publish
          Runners,     \* scheduler ticks and manual runs, over all processes
          Texts,       \* query texts with their entity type
          Bounded,     \* those the validator accepts
          Matches,     \* the records each text matches
          Records,     \* provider records
          MaxChanges,  \* bound: changes of records
          Budgets      \* bounds: requests of users, leases that run out under a live run

VARIABLES changes,  \* the provider's history: change v, at time v, is of changes[v]
          query,    \* the row of integration_native_queries
          user,     \* requests in progress, with the text each has read or sends
          run,      \* claimed runs, with the copy of the row each works on
          queue,    \* changes accepted into the ingestion queue
          from,     \* history: where the watermark last started
          raced,    \* history: a published row whose text is not the published one
          budget    \* requests and stalls still to come

vars == <<changes, query, user, run, queue, from, raced, budget>>

NoText == "none"
Nobody == "nobody"
Draft(text) == [status |-> "draft", text |-> text, mark |-> 0, hash |-> NoText,
                owner |-> Nobody, expired |-> FALSE, due |-> FALSE]
Rest == [stage |-> "idle", text |-> NoText]
NoRun == [stage |-> "idle", text |-> NoText, mark |-> 0, page |-> {}]
Now == Len(changes) + 1

Init == /\ changes = << >>
        /\ \E text \in Texts : query = Draft(text)
        /\ user = [u \in Users |-> Rest]
        /\ run = [w \in Runners |-> NoRun]
        /\ queue = {}
        /\ from = 0
        /\ raced = FALSE
        /\ budget \in Budgets

Change(r) == /\ Len(changes) < MaxChanges
             /\ changes' = Append(changes, r)
             /\ UNCHANGED <<query, user, run, queue, from, raced, budget>>

(***************************************************************************)
(* Users.                                                                  *)
(***************************************************************************)

Ask == budget.request > 0 /\ budget' = [budget EXCEPT !.request = @ - 1]
Astray(q) == q.status = "published" /\ q.text # q.hash

(* update refuses a published query, by the row it reads ...               *)
BeginUpdate(u, text) ==
  /\ user[u].stage = "idle"
  /\ query.status # "published"
  /\ Ask
  /\ user' = [user EXCEPT ![u] = [stage |-> "update", text |-> text]]
  /\ UNCHANGED <<changes, query, run, queue, from, raced>>

(* ... and writes the row whatever it has become.                          *)
Update(u) ==
  /\ user[u].stage = "update"
  /\ query' = [query EXCEPT !.text = user[u].text]
  /\ raced' = (raced \/ Astray(query'))
  /\ user' = [user EXCEPT ![u] = Rest]
  /\ UNCHANGED <<changes, run, queue, from, budget>>

(* publish validates, and hashes, the text it reads.                       *)
BeginPublish(u) ==
  /\ user[u].stage = "idle"
  /\ query.status # "published"
  /\ query.text \in Bounded
  /\ Ask
  /\ user' = [user EXCEPT ![u] = [stage |-> "publish", text |-> query.text]]
  /\ UNCHANGED <<changes, query, run, queue, from, raced>>

KeepsWatermarkMutant(text) == query.mark # 0
KeepsWatermark(text) == query.mark # 0 /\ query.hash = text

(* A query published meanwhile is left alone.  Otherwise the watermark     *)
(* survives only the same text; else it starts now, or at start_from.      *)
Publish(u) ==
  LET text == user[u].text
  IN  /\ user[u].stage = "publish"
      /\ IF query.status = "published"
           THEN UNCHANGED <<query, from, raced>>
           ELSE \E start \in 1 .. Now :
                  /\ query' = [query EXCEPT !.status = "published", !.hash = text, !.due = TRUE,
                                            !.mark = IF KeepsWatermark(text) THEN @ ELSE start]
                  /\ from' = IF KeepsWatermark(text) THEN from ELSE start
                  /\ raced' = (raced \/ Astray(query'))
      /\ user' = [user EXCEPT ![u] = Rest]
      /\ UNCHANGED <<changes, run, queue, budget>>

(* disable takes the lease away from a run in progress.                    *)
Disable ==
  /\ query.status = "published"
  /\ Ask
  /\ query' = [query EXCEPT !.status = "disabled", !.due = FALSE,
                            !.owner = Nobody, !.expired = FALSE]
  /\ UNCHANGED <<changes, user, run, queue, from, raced>>

(***************************************************************************)
(* Runs.                                                                   *)
(***************************************************************************)

(* runDue claims due queries, runNow a query that is not running.  The     *)
(* text and the watermark are copied with the claim.                       *)
Claimable == query.status = "published" /\ (query.owner = Nobody \/ query.expired)

Claim(w) ==
  /\ run[w].stage = "idle"
  /\ Claimable
  /\ query' = [query EXCEPT !.owner = w, !.expired = FALSE, !.due = FALSE]
  /\ run' = [run EXCEPT ![w] = [stage |-> "check", text |-> query.text, mark |-> query.mark,
                                page |-> {}]]
  /\ UNCHANGED <<changes, user, queue, from, raced, budget>>

(* A connector that is gone, paused or not activated, an invalid text, a   *)
(* failed or shed request: the run ends, the watermark stays, and the      *)
(* query is due again later, if the lease still is this run's.             *)
Mine(w) == query.owner = w
Released == [query EXCEPT !.owner = Nobody, !.expired = FALSE]
End(w) == run' = [run EXCEPT ![w] = NoRun]

GiveUp(w) ==
  /\ run[w].stage \in {"check", "fetch"}
  /\ query' = IF Mine(w) THEN Released ELSE query
  /\ End(w)
  /\ UNCHANGED <<changes, user, queue, from, raced, budget>>

(* Every run validates its text again.                                     *)
PassesMutant(text) == TRUE
Passes(text) == text \in Bounded

Check(w) ==
  /\ run[w].stage = "check"
  /\ Passes(run[w].text)
  /\ run' = [run EXCEPT ![w].stage = "fetch"]
  /\ UNCHANGED <<changes, query, user, queue, from, raced, budget>>

(* The provider answers with the oldest matching changes since the         *)
(* watermark; it shows only the last change of a record.                   *)
Current == {v \in DOMAIN changes : \A u \in DOMAIN changes : u > v => changes[u] # changes[v]}
Found(w) == {v \in Current : changes[v] \in Matches[run[w].text] /\ v >= run[w].mark}

Fetch(w) ==
  /\ run[w].stage = "fetch"
  /\ \E last \in Found(w) \cup {0} :
       run' = [run EXCEPT ![w].stage = "commit", ![w].page = {v \in Found(w) : v <= last}]
  /\ UNCHANGED <<changes, query, user, queue, from, raced, budget>>

(* One transaction: the records and the watermark, or, when the lease is   *)
(* lost or the query no longer published, neither.                         *)
CommitsMutant(w) == query.status = "published"
Commits(w) == Mine(w) /\ query.status = "published"

Commit(w) ==
  /\ run[w].stage = "commit"
  /\ IF Commits(w)
       THEN /\ queue' = queue \cup run[w].page
            /\ query' = [Released EXCEPT !.mark = Max({run[w].mark} \cup run[w].page)]
       ELSE UNCHANGED <<queue, query>>
  /\ End(w)
  /\ UNCHANGED <<changes, user, from, raced, budget>>

(* The next run comes due.                                                 *)
ComeDue == /\ query.status = "published"
           /\ ~query.due
           /\ query' = [query EXCEPT !.due = TRUE]
           /\ UNCHANGED <<changes, user, run, queue, from, raced, budget>>

(* A run is not renewed: a slow page, or the queries claimed with it and   *)
(* run before it, may outlast the lease.  A stopped process is a run that  *)
(* never continues.                                                        *)
LeaseExpires ==
  /\ query.owner # Nobody
  /\ ~query.expired
  /\ budget.stall > 0
  /\ budget' = [budget EXCEPT !.stall = @ - 1]
  /\ query' = [query EXCEPT !.expired = TRUE]
  /\ UNCHANGED <<changes, user, run, queue, from, raced>>

Next == \/ \E r \in Records : Change(r)
        \/ \E u \in Users : \/ \E text \in Texts : BeginUpdate(u, text)
                            \/ Update(u)
                            \/ BeginPublish(u)
                            \/ Publish(u)
        \/ \E w \in Runners : \/ Claim(w)
                              \/ GiveUp(w)
                              \/ Check(w)
                              \/ Fetch(w)
                              \/ Commit(w)
        \/ Disable
        \/ ComeDue
        \/ LeaseExpires

Spec == Init /\ [][Next]_vars

-----------------------------------------------------------------------------
(* Rows hold values of the schema; requests and runs stand at their awaits.*)
TypeOK ==
  /\ changes \in Seq(Records)
  /\ query \in [status : {"draft", "published", "disabled"}, text : Texts, mark : Nat,
                hash : Texts \cup {NoText}, owner : Runners \cup {Nobody},
                expired : BOOLEAN, due : BOOLEAN]
  /\ user \in [Users -> [stage : {"idle", "update", "publish"}, text : Texts \cup {NoText}]]
  /\ \A w \in Runners : /\ run[w].stage \in {"idle", "check", "fetch", "commit"}
                        /\ run[w].page \subseteq DOMAIN changes
  /\ queue \subseteq DOMAIN changes
  /\ query.status = "draft" => query.owner = Nobody

(* native-query.service.ts:160-163: the watermark survives only a          *)
(* re-publish of the same query, "changed text or scope could match        *)
(* records that changed before it".  However users edit, publish and       *)
(* disable, and runs overlap, no change the published text matches lies    *)
(* behind the watermark unread; unless an update crossed a publish.        *)
NothingSkipped ==
  ~raced /\ query.hash # NoText =>
    \A v \in Current :
      changes[v] \in Matches[query.hash] /\ from <= v /\ v < query.mark => v \in queue

(* native-query.service.ts:297-298: even a text that slipped past the      *)
(* validation of publish is never sent to the provider.                    *)
OnlyBoundedReads == \A w \in Runners : run[w].stage \in {"fetch", "commit"} => run[w].text \in Bounded

(* native-query.service.ts:333: the watermark never moves back under one   *)
(* published text, even when a stalled run wakes up.                       *)
MarkNeverMovesBack == [][query'.hash = query.hash => query'.mark >= query.mark]_vars
=============================================================================
