-------------------------- MODULE TransportProofs ---------------------------
(***************************************************************************)
(* Proofs about Transport, for any processes, calls, jobs, texts, webhooks *)
(* and connectors and any troubles.                                        *)
(*                                                                         *)
(* The machines share no variable, so a behaviour of Transport is one of   *)
(* each of them (Governs, Relays, ...: a step is a step of one machine and *)
(* leaves the variables of the others).  What is stated of Transport       *)
(* follows from an inductive invariant of each machine: BackfillInv,       *)
(* GovernorInv, WebhookInv, ConnectorInv, QueryInv and ScopeInv below, and *)
(* RelayInv of ConnectorRelayProofs.                                       *)
(***************************************************************************)
EXTENDS Transport, ConnectorRelayProofs, TLAPS, FiniteSetTheorems, SequenceTheorems,
        WellFoundedInduction

(* A set of numbers that is not empty has a least one.                     *)
LEMMA LeastNumber ==
  ASSUME NEW W \in SUBSET Nat, W # {}
  PROVE  \E n \in W : \A k \in W : n <= k
<1>1. IsWellFoundedOn(OpToRel(<, Nat), Nat)
  BY NatLessThanWellFounded
<1>2. PICK n \in W : \A k \in W : ~(<<k, n>> \in OpToRel(<, Nat))
  BY <1>1, WFMin
<1>3. \A k \in W : ~(k < n)
  BY <1>2 DEF OpToRel
<1> QED
  BY <1>3

-----------------------------------------------------------------------------
(* Backfill: jobs, chunks and the records they queue.                      *)
(*                                                                         *)
(* The plan cuts a range into chunks without gap or overlap (PlanCovers,   *)
(* PlanSeparates). JobInv relates each chunk's token, the number of its    *)
(* pages that are committed, to the records queued so far; WorkerInv       *)
(* relates what a worker holds of a chunk to its row. A worker fenced by a *)
(* pause or an expired claim commits nothing new unless its job is stray.  *)
(* Each step is one that a job outlives (Calm) and after which every       *)
(* worker holds no more than it did (Shrinks), or is argued for alone: the *)
(* selection of chunks, the commit of a page and the creation of a job.    *)

(* Arithmetic of the plan.                                                 *)
LEMMA Quotient ==
  ASSUME NEW a \in Nat, NEW b \in Nat \ {0}
  PROVE  a \div b \in Nat /\ (a \div b) * b <= a /\ a < (a \div b) * b + b
  OBVIOUS

(* Products grow with their first factor.                                  *)
LEMMA TimesMonotone ==
  ASSUME NEW a \in Nat, NEW b \in Nat, NEW c \in Nat, a <= b PROVE a * c <= b * c
  OBVIOUS

(* A common factor cancels from a strict order.                            *)
LEMMA TimesCancel ==
  ASSUME NEW a \in Nat, NEW b \in Nat, NEW c \in Nat, a * c < b * c PROVE a < b
  OBVIOUS

(* One more is another factor.                                             *)
LEMMA TimesSucc ==
  ASSUME NEW a \in Nat, NEW c \in Nat PROVE (a + 1) * c = a * c + c
  OBVIOUS

(* The window of a plan that begins at the n-th multiple of its length     *)
(* holds what no other holds, and every time of the range is in one.       *)
JobBegins(start, n, length) == start + n * length

(* Every time of the range is in a chunk of the plan.                      *)
LEMMA PlanCovers ==
  ASSUME NEW start \in Nat, NEW end \in Nat, NEW length \in Nat \ {0}, start < end,
         NEW t \in Nat, start <= t, t < end
  PROVE  \E i \in 1 .. B!Count(end - start, length) :
            JobBegins(start, i - 1, length) <= t /\ t < B!Least(JobBegins(start, i, length), end)
<1> DEFINE n == (t - start) \div length
           m == B!Count(end - start, length)
<1>1. n \in Nat /\ n * length <= t - start /\ t - start < n * length + length
  BY Quotient
<1>2. m \in Nat /\ end - start + length - 1 < m * length + length
  <2>1. end - start + length - 1 \in Nat
    OBVIOUS
  <2> QED
    BY <2>1, Quotient DEF B!Count
<1> HIDE DEF n, m
<1>3. n * length \in Nat /\ m * length \in Nat
  BY <1>1, <1>2
<1>4. n * length < m * length
  BY <1>1, <1>2, <1>3
<1>5. n < m
  BY <1>1, <1>2, <1>4, TimesCancel
<1>6. n + 1 \in 1 .. m /\ n + 1 - 1 = n /\ (n + 1) * length = n * length + length
  BY <1>1, <1>2, <1>5, TimesSucc
<1>7. PICK i \in 1 .. m : i = n + 1
  BY <1>6
<1>8. i - 1 = n /\ i * length = n * length + length
  BY <1>1, <1>6, <1>7
<1>9. JobBegins(start, i - 1, length) <= t /\ t < JobBegins(start, i, length)
  BY <1>1, <1>3, <1>8 DEF JobBegins
<1>10. t < B!Least(JobBegins(start, i, length), end)
  BY <1>9 DEF B!Least
<1> QED
  BY <1>9, <1>10 DEF m

(* No time is in two chunks of the plan.                                   *)
LEMMA PlanSeparates ==
  ASSUME NEW start \in Nat, NEW length \in Nat \ {0}, NEW t \in Nat, NEW i \in Nat \ {0},
         NEW k \in Nat \ {0},
         JobBegins(start, i - 1, length) <= t, t < JobBegins(start, i, length),
         JobBegins(start, k - 1, length) <= t, t < JobBegins(start, k, length)
  PROVE  i = k
<1>1. /\ (i - 1) * length \in Nat /\ (k - 1) * length \in Nat /\ i * length \in Nat /\ k * length \in Nat
      /\ i - 1 \in Nat /\ k - 1 \in Nat
  OBVIOUS
<1>2. (i - 1) * length < k * length /\ (k - 1) * length < i * length
  BY <1>1 DEF JobBegins
<1>3. i - 1 < k /\ k - 1 < i
  BY <1>1, <1>2, TimesCancel
<1> QED
  BY <1>3

-----------------------------------------------------------------------------
Partial(V) == UNION {[picked -> V] : picked \in SUBSET Nat}
Steps == {"fetch", "commit", "transient", "fatal", "shed", "lost", "done"}
JobRow == [status : {"none", "pending", "running", "paused"} \cup B!Finals, owner : Workers \cup {B!Nobody},
           expired : BOOLEAN, conc : 1 .. MaxConcurrency, from : Nat, to : Nat]
WorkerRow == [stage : {"idle", "open", "check", "select", "mark", "steps", "finish", "conclude", "release"},
              job : Jobs \cup {B!Nobody}, conc : 1 .. MaxConcurrency, streak : Nat,
              took : Partial(B!ChunkType), step : Partial(Steps),
              ends : {B!Nobody, "completed", "completed_with_errors"}]
BackfillTypes == /\ job \in [Jobs -> JobRow]
                 /\ chunk \in [Jobs -> Seq(B!ChunkType)]
                 /\ record \in [Jobs -> [Times -> Nat]]
                 /\ worker \in [Workers -> WorkerRow]
                 /\ op \in [Jobs -> {B!Nobody, "pending", "paused", "retry"}]
                 /\ stray \subseteq Jobs

(* A partial function has natural numbers as its domain.                   *)
LEMMA PartialMember ==
  ASSUME NEW V, NEW f PROVE f \in Partial(V) <=> DOMAIN f \subseteq Nat /\ f \in [DOMAIN f -> V]
  BY DEF Partial

(* The instance counts as the module does.                                 *)
LEMMA PageCounts == \A W : B!Cardinality(W) = Cardinality(W)
  BY DEF B!Cardinality, Cardinality

(* How many records of the window come before a record.                    *)
Rank(window, t) == Cardinality({u \in B!InWindow(window) : u < t})
JobAsked(j, t) == job[j].from <= t /\ t < job[j].to

(* Fewer records come before one of the window than the window holds.      *)
LEMMA RankBound ==
  ASSUME NEW window, NEW t \in B!InWindow(window)
  PROVE  /\ Rank(window, t) \in Nat /\ Cardinality(B!InWindow(window)) \in Nat
         /\ Rank(window, t) < Cardinality(B!InWindow(window))
<1> DEFINE A == B!InWindow(window)
           L == {u \in A : u < t}
<1>1. IsFiniteSet(A) /\ IsFiniteSet(A \ {t}) /\ A \subseteq Nat /\ t \in Nat
  <2>1. A \subseteq Times
    BY DEF B!InWindow
  <2> QED
    BY <2>1, TimesAssumption, FS_Subset
<1>2. Cardinality(A \ {t}) = Cardinality(A) - 1
  BY <1>1, FS_RemoveElement
<1>3. L \subseteq A \ {t}
  BY <1>1
<1>4. Cardinality(L) <= Cardinality(A \ {t}) /\ IsFiniteSet(L)
  BY <1>1, <1>3, FS_Subset
<1>5. Cardinality(L) \in Nat /\ Cardinality(A) \in Nat
  BY <1>1, <1>4, FS_CardinalityType
<1> HIDE DEF A, L
<1>6. Cardinality(L) < Cardinality(A)
  BY <1>2, <1>4, <1>5
<1> QED
  BY <1>5, <1>6 DEF Rank, A, L

-----------------------------------------------------------------------------
(* The windows of a job partition its range.                               *)
Planned(j) ==
  /\ \A t \in Times : JobAsked(j, t) => \E i \in DOMAIN chunk[j] : t \in B!InWindow(chunk[j][i].window)
  /\ \A i \in DOMAIN chunk[j] : \A t \in B!InWindow(chunk[j][i].window) : JobAsked(j, t)
  /\ \A i, k \in DOMAIN chunk[j] : \A t \in B!InWindow(chunk[j][i].window) :
       t \in B!InWindow(chunk[j][k].window) => i = k

(* What a chunk has passed is listed, and what it has not passed is not.   *)
Listed(j, i) ==
  \A t \in B!InWindow(chunk[j][i].window) :
    (chunk[j][i].status = "done" \/ Rank(chunk[j][i].window, t) < chunk[j][i].token) => record[j][t] > 0
ListedOnce(j, i) ==
  \A t \in B!InWindow(chunk[j][i].window) :
    /\ record[j][t] <= 1
    /\ chunk[j][i].status # "done" /\ Rank(chunk[j][i].window, t) >= chunk[j][i].token => record[j][t] = 0
AllListed(j) == \A t \in Times : JobAsked(j, t) => record[j][t] > 0

JobInv(j) ==
  /\ Planned(j)
  /\ \A i \in DOMAIN chunk[j] : Listed(j, i)
  /\ j \notin stray => /\ \A i \in DOMAIN chunk[j] : ListedOnce(j, i)
                       /\ \A t \in Times : ~JobAsked(j, t) => record[j][t] = 0
  /\ job[j].status = "completed" => AllListed(j)
  /\ job[j].status = "none" => job[j].to = 0 /\ op[j] = B!Nobody
  /\ job[j].status = "cancelled" => job[j].owner = B!Nobody

(* The chunks a worker has in hand.                                        *)
Active(w, i) == B!At(w, "mark") \/ (B!At(w, "steps") /\ worker[w].step[i] # "done")
Taken(w, i) ==
  /\ i \in DOMAIN chunk[B!Mine(w)]
  /\ worker[w].took[i].window = chunk[B!Mine(w)][i].window
  /\ \A t \in B!InWindow(worker[w].took[i].window) :
       Rank(worker[w].took[i].window, t) < worker[w].took[i].token => record[B!Mine(w)][t] > 0
  /\ B!Held(w) /\ B!Mine(w) \notin stray /\ Active(w, i) =>
       chunk[B!Mine(w)][i].status # "done" /\ chunk[B!Mine(w)][i].token = worker[w].took[i].token

WorkerInv(w) ==
  /\ B!At(w, "idle") <=> B!Mine(w) = B!Nobody
  /\ ~B!At(w, "idle") =>
       /\ job[B!Mine(w)].status # "none"
       /\ \A i \in DOMAIN worker[w].took : Taken(w, i)
       /\ B!At(w, "steps") => DOMAIN worker[w].step = DOMAIN worker[w].took
       /\ B!At(w, "conclude") => worker[w].ends # B!Nobody /\ (worker[w].ends = "completed" => AllListed(B!Mine(w)))

BackfillInv == BackfillTypes /\ (\A j \in Jobs : JobInv(j)) /\ (\A w \in Workers : WorkerInv(w))

(* The function of nothing is partial.                                     *)
LEMMA NothingPartial == ASSUME NEW V PROVE << >> \in Partial(V) /\ DOMAIN << >> = {} /\ << >> \in Seq(V)
<1>1. << >> \in Seq(V) /\ DOMAIN << >> = {}
  OBVIOUS
<1>2. PICK n \in Nat : << >> \in [1 .. n -> V]
  BY <1>1, SeqDef
<1>3. 1 .. n \in SUBSET Nat
  OBVIOUS
<1> QED
  BY <1>1, <1>2, <1>3 DEF Partial

(* Without jobs and with idle workers the invariant holds.                 *)
LEMMA BackfillInit == B!Init => BackfillInv
<1> SUFFICES ASSUME B!Init PROVE BackfillInv
  OBVIOUS
<1> USE TimesAssumption, PlanAssumption, NobodyAssumption
<1>1. /\ job = [j \in Jobs |-> B!NoJob] /\ chunk = [j \in Jobs |-> << >>]
      /\ record = [j \in Jobs |-> [t \in Times |-> 0]] /\ worker = [w \in Workers |-> B!Idle]
      /\ op = [j \in Jobs |-> B!Nobody] /\ stray = {}
  BY DEF B!Init
<1>2. B!NoJob \in JobRow /\ B!NoJob.status = "none" /\ B!NoJob.from = 0 /\ B!NoJob.to = 0 /\ B!NoJob.owner = B!Nobody
  BY DEF B!NoJob, JobRow, B!Finals
<1>3. << >> \in Partial(B!ChunkType) /\ << >> \in Partial(Steps) /\ DOMAIN << >> = {}
      /\ << >> \in Seq(B!ChunkType)
  BY NothingPartial
<1>4. B!Idle \in WorkerRow /\ B!Idle.stage = "idle" /\ B!Idle.job = B!Nobody
  BY <1>3 DEF B!Idle, WorkerRow
<1>5. BackfillTypes
  BY <1>1, <1>2, <1>3, <1>4 DEF BackfillTypes
<1>6. ASSUME NEW j \in Jobs PROVE JobInv(j)
  <2>1. \A t \in Times : ~JobAsked(j, t) /\ record[j][t] = 0
    BY <1>1, <1>2 DEF JobAsked
  <2>2. DOMAIN chunk[j] = {} /\ job[j] = B!NoJob
    BY <1>1, <1>3
  <2> QED
    BY <1>1, <1>2, <2>1, <2>2 DEF JobInv, Planned
<1>7. ASSUME NEW w \in Workers PROVE WorkerInv(w)
  BY <1>1, <1>4 DEF WorkerInv, B!At, B!Mine
<1> QED
  BY <1>5, <1>6, <1>7 DEF BackfillInv

-----------------------------------------------------------------------------
(* What every step but four does to a job, and to a worker.                *)
Grows(j) == /\ DOMAIN chunk'[j] = DOMAIN chunk[j]
            /\ \A i \in DOMAIN chunk[j] : chunk'[j][i].window = chunk[j][i].window
            /\ job'[j].from = job[j].from /\ job'[j].to = job[j].to
            /\ \A t \in Times : record[j][t] > 0 => record'[j][t] > 0
            /\ j \in stray => j \in stray'
            /\ job[j].status # "none" => job'[j].status # "none"
Calm(j) == /\ Grows(j) /\ record'[j] = record[j]
           /\ \A i \in DOMAIN chunk[j] :
                /\ chunk'[j][i].token = chunk[j][i].token
                /\ chunk'[j][i].status = "done" => chunk[j][i].status = "done"
                /\ j \notin stray' /\ chunk[j][i].status = "done" => chunk'[j][i].status = "done"
           /\ job'[j].status = "completed" => job[j].status = "completed" \/ AllListed(j)
           /\ job'[j].status = "none" => op'[j] = B!Nobody
           /\ job'[j].status = "cancelled" => job'[j].owner = B!Nobody
Steady(j) == Calm(j) /\ job'[j].owner \in {job[j].owner, B!Nobody}
Shrinks(w) == /\ B!Mine(w)' = B!Mine(w)
              /\ worker'[w].took = worker[w].took \/ DOMAIN worker'[w].took = {}
              /\ \A i \in DOMAIN worker'[w].took : Active(w, i)' => Active(w, i)
              /\ B!At(w, "steps")' => DOMAIN worker'[w].step = DOMAIN worker'[w].took
              /\ B!At(w, "idle")' <=> B!At(w, "idle")
              /\ B!At(w, "conclude")' =>
                     \/ B!At(w, "conclude") /\ worker'[w].ends = worker[w].ends
                     \/ worker'[w].ends # B!Nobody /\ (worker'[w].ends = "completed" => AllListed(B!Mine(w)))

(* Windows and ranks do not depend on the state.                           *)
LEMMA SameRank ==
  ASSUME NEW window PROVE B!InWindow(window)' = B!InWindow(window) /\ \A t : Rank(window, t)' = Rank(window, t)
  BY DEF B!InWindow, Rank

(* A job that grows is asked for the same times, and has queued at least   *)
(* as many.                                                                *)
LEMMA GrowsKeeps ==
  ASSUME NEW j, Grows(j) PROVE /\ \A t : JobAsked(j, t)' <=> JobAsked(j, t)
                               /\ AllListed(j) => AllListed(j)'
  BY DEF Grows, JobAsked, AllListed

(* A job that grows stays planned without gaps.                            *)
LEMMA PlannedKept ==
  ASSUME NEW j \in Jobs, Planned(j), Grows(j) PROVE Planned(j)'
<1>1. \A t : JobAsked(j, t)' <=> JobAsked(j, t)
  BY GrowsKeeps
<1>2. /\ DOMAIN chunk'[j] = DOMAIN chunk[j]
      /\ \A i \in DOMAIN chunk[j] : B!InWindow(chunk[j][i].window)' = B!InWindow(chunk[j][i].window)
  BY DEF Grows, B!InWindow
<1> QED
  BY <1>1, <1>2 DEF Planned

(* A job that is calm keeps its invariant.                                 *)
LEMMA CalmKeeps ==
  ASSUME NEW j \in Jobs, JobInv(j), Calm(j) PROVE JobInv(j)'
<1>1. Grows(j) /\ record'[j] = record[j]
  BY DEF Calm
<1>2. Planned(j)'
  BY <1>1, PlannedKept DEF JobInv
<1>3. ASSUME NEW i \in DOMAIN chunk'[j]
      PROVE  Listed(j, i)' /\ (j \notin stray' => ListedOnce(j, i)')
  <2>1. i \in DOMAIN chunk[j] /\ chunk'[j][i].window = chunk[j][i].window /\ chunk'[j][i].token = chunk[j][i].token
    BY <1>1 DEF Grows, Calm
  <2>2. /\ B!InWindow(chunk[j][i].window)' = B!InWindow(chunk[j][i].window)
        /\ \A t : Rank(chunk[j][i].window, t)' = Rank(chunk[j][i].window, t)
    BY <2>1 DEF B!InWindow, Rank
  <2>3. Listed(j, i)'
    BY <1>1, <2>1, <2>2 DEF JobInv, Listed, Calm
  <2>4. j \notin stray' => ListedOnce(j, i)'
    BY <1>1, <2>1, <2>2 DEF JobInv, ListedOnce, Calm, Grows
  <2> QED
    BY <2>3, <2>4
<1>4. /\ \A t : JobAsked(j, t)' <=> JobAsked(j, t)
      /\ AllListed(j) => AllListed(j)'
  BY <1>1, GrowsKeeps
<1>5. j \notin stray' => \A t \in Times : ~JobAsked(j, t)' => record'[j][t] = 0
  BY <1>1, <1>4 DEF JobInv, Grows
<1>6. job'[j].status = "completed" => AllListed(j)'
  BY <1>4 DEF JobInv, Calm
<1>7. job'[j].status = "none" => job'[j].to = 0 /\ op'[j] = B!Nobody
  BY <1>1 DEF JobInv, Calm, Grows
<1>8. job'[j].status = "cancelled" => job'[j].owner = B!Nobody
  BY DEF Calm
<1> QED
  BY <1>2, <1>3, <1>5, <1>6, <1>7, <1>8 DEF JobInv

(* What keeps the chunks a worker has in hand as it took them.             *)
Untouched(w) ==
  \A i \in DOMAIN worker'[w].took :
    B!Held(w)' /\ B!Mine(w)' \notin stray' /\ Active(w, i)' =>
      /\ B!Held(w)
      /\ chunk'[B!Mine(w)][i].status = "done" => chunk[B!Mine(w)][i].status = "done"
      /\ chunk'[B!Mine(w)][i].token = chunk[B!Mine(w)][i].token

(* A worker that takes nothing new keeps its invariant.                    *)
LEMMA ShrinksKeeps ==
  ASSUME BackfillTypes, NEW w \in Workers, WorkerInv(w), Shrinks(w), ~B!At(w, "idle") => Grows(B!Mine(w)),
         Untouched(w)
  PROVE  WorkerInv(w)'
<1> DEFINE j == B!Mine(w)
<1>1. CASE B!At(w, "idle")
  BY <1>1 DEF WorkerInv, Shrinks
<1>2. CASE ~B!At(w, "idle")
  <2>1. Grows(j) /\ B!Mine(w)' = j
    BY <1>2 DEF Shrinks
  <2>2. ~B!At(w, "idle")' /\ B!Mine(w)' # B!Nobody /\ job'[j].status # "none"
    BY <1>2, <2>1 DEF Shrinks, WorkerInv, Grows
  <2>3. ASSUME NEW i \in DOMAIN worker'[w].took PROVE Taken(w, i)'
    <3>1. worker'[w].took = worker[w].took /\ i \in DOMAIN worker[w].took
      BY <2>3 DEF Shrinks
    <3>2. Taken(w, i)
      BY <1>2, <3>1 DEF WorkerInv
    <3> DEFINE W == worker[w].took[i].window
    <3>3. B!InWindow(W)' = B!InWindow(W) /\ (\A t : Rank(W, t)' = Rank(W, t)) /\ B!InWindow(W) \subseteq Times
          /\ W' = W
      BY <3>1 DEF B!InWindow, Rank
    <3>4. i \in DOMAIN chunk'[j] /\ chunk'[j][i].window = chunk[j][i].window
      BY <2>1, <3>2 DEF Taken, Grows
    <3>5. \A t \in B!InWindow(W) : Rank(W, t) < worker[w].took[i].token => record'[j][t] > 0
      BY <2>1, <3>2, <3>3 DEF Taken, Grows
    <3>6. B!Held(w)' /\ j \notin stray' /\ Active(w, i)' =>
            chunk'[j][i].status # "done" /\ chunk'[j][i].token = worker[w].took[i].token
      BY <2>1, <2>3, <3>2 DEF Taken, Untouched, Shrinks, Grows
    <3> QED
      BY <2>1, <3>1, <3>2, <3>3, <3>4, <3>5, <3>6 DEF Taken
  <2>4. B!At(w, "steps")' => DOMAIN worker'[w].step = DOMAIN worker'[w].took
    BY DEF Shrinks
  <2>5. B!At(w, "conclude")' =>
            worker'[w].ends # B!Nobody /\ (worker'[w].ends = "completed" => AllListed(j)')
    <3>1. AllListed(j) => AllListed(j)'
      BY <2>1, GrowsKeeps
    <3> QED
      BY <1>2, <3>1 DEF Shrinks, WorkerInv
  <2> QED
    BY <2>1, <2>2, <2>3, <2>4, <2>5 DEF WorkerInv
<1> QED
  BY <1>1, <1>2

(* An idle worker satisfies its invariant.                                 *)
LEMMA IdleKeeps ==
  ASSUME NEW w \in Workers, worker'[w] = B!Idle PROVE WorkerInv(w)'
  BY DEF B!Idle, WorkerInv, B!At, B!Mine

(* The steps that keep the windows and tokens, and hand no lease out.      *)
LEMMA SteadyStep ==
  ASSUME BackfillInv, \A j \in Jobs : Steady(j),
         \A w \in Workers : Shrinks(w) \/ worker'[w] = B!Idle
  PROVE  (\A j \in Jobs : JobInv(j)') /\ (\A w \in Workers : WorkerInv(w)')
<1>1. \A j \in Jobs : JobInv(j)'
  BY CalmKeeps DEF BackfillInv, Steady
<1>2. ASSUME NEW w \in Workers PROVE WorkerInv(w)'
  <2>1. CASE worker'[w] = B!Idle
    BY <2>1, IdleKeeps
  <2>2. CASE Shrinks(w)
    <3>1. BackfillTypes /\ WorkerInv(w)
      BY DEF BackfillInv
    <3>2. ~B!At(w, "idle") => B!Mine(w) \in Jobs
      BY <3>1 DEF WorkerInv, BackfillTypes, WorkerRow, B!Mine
    <3>3. ~B!At(w, "idle") => Grows(B!Mine(w))
      BY <3>2 DEF Steady, Calm
    <3>4. Untouched(w)
      <4> SUFFICES ASSUME NEW i \in DOMAIN worker'[w].took, B!Held(w)', Active(w, i)'
                   PROVE  /\ B!Held(w)
                          /\ chunk'[B!Mine(w)][i].status = "done" => chunk[B!Mine(w)][i].status = "done"
                          /\ chunk'[B!Mine(w)][i].token = chunk[B!Mine(w)][i].token
        BY DEF Untouched
      <4>1. Active(w, i) /\ worker'[w].took = worker[w].took /\ worker'[w].job = B!Mine(w)
        BY <2>2 DEF Shrinks, B!Mine
      <4>2. ~B!At(w, "idle") /\ B!Mine(w) \in Jobs
        BY <3>2, <4>1 DEF Active, B!At
      <4>3. Taken(w, i) /\ i \in DOMAIN chunk[B!Mine(w)]
        BY <3>1, <4>1, <4>2 DEF WorkerInv, Taken
      <4>4. Steady(B!Mine(w))
        BY <4>2
      <4>5. B!Held(w)
        BY <4>1, <4>4, NobodyAssumption DEF B!Held, B!Mine, Steady, Calm
      <4> QED
        BY <4>3, <4>4, <4>5 DEF Steady, Calm
    <3> QED
      BY <2>2, <3>1, <3>3, <3>4, ShrinksKeeps
  <2> QED
    BY <2>1, <2>2
<1> QED
  BY <1>1, <1>2

-----------------------------------------------------------------------------
(* How the variables are written.                                          *)
LEMMA WorkerGoes ==
  ASSUME BackfillTypes, NEW w \in Workers, NEW k \in WorkerRow, worker' = [worker EXCEPT ![w] = k]
  PROVE  /\ worker' \in [Workers -> WorkerRow] /\ worker'[w] = k
         /\ \A v \in Workers \ {w} : worker'[v] = worker[v]
  BY DEF BackfillTypes

(* A worker that goes on to a stage keeps what it holds.                   *)
LEMMA StageGoes ==
  ASSUME BackfillTypes, NEW w \in Workers,
         NEW to \in {"check", "select", "finish", "release"}, B!Goto(w, to)
  PROVE  /\ worker' \in [Workers -> WorkerRow] /\ \A v \in Workers \ {w} : worker'[v] = worker[v]
         /\ worker'[w].stage = to /\ worker'[w].job = worker[w].job /\ worker'[w].took = worker[w].took
         /\ worker'[w].conc = worker[w].conc /\ worker'[w].step = worker[w].step
<1> DEFINE k == [worker[w] EXCEPT !.stage = to]
<1>1. /\ k \in WorkerRow /\ k.stage = to /\ k.job = worker[w].job /\ k.took = worker[w].took
      /\ k.conc = worker[w].conc /\ k.step = worker[w].step
  <2>1. worker[w] \in WorkerRow
    BY DEF BackfillTypes
  <2> QED
    BY <2>1 DEF WorkerRow
<1>2. worker' = [worker EXCEPT ![w] = k]
  BY DEF B!Goto
<1> HIDE DEF k
<1> QED
  BY <1>1, <1>2, WorkerGoes

(* A worker that goes on with one chunk keeps the steps of the others.     *)
LEMMA StepGoes ==
  ASSUME BackfillTypes, NEW w \in Workers, NEW i \in DOMAIN worker[w].step, NEW to \in Steps,
         NEW r \in WorkerRow, r.step = worker[w].step, NEW k, k = [r EXCEPT !.step[i] = to]
  PROVE  /\ k \in WorkerRow /\ k.stage = r.stage /\ k.job = r.job /\ k.took = r.took
         /\ DOMAIN k.step = DOMAIN worker[w].step /\ k.step[i] = to
         /\ \A h \in DOMAIN worker[w].step \ {i} : k.step[h] = worker[w].step[h]
<1> DEFINE f == [worker[w].step EXCEPT ![i] = to]
<1>1. worker[w].step \in Partial(Steps)
  BY DEF BackfillTypes, WorkerRow
<1>2. DOMAIN worker[w].step \subseteq Nat /\ worker[w].step \in [DOMAIN worker[w].step -> Steps]
  BY <1>1, PartialMember
<1>3. /\ f \in [DOMAIN worker[w].step -> Steps] /\ DOMAIN f = DOMAIN worker[w].step /\ f[i] = to
      /\ \A h \in DOMAIN worker[w].step \ {i} : f[h] = worker[w].step[h]
  BY <1>2
<1>4. f \in Partial(Steps)
  BY <1>2, <1>3, PartialMember
<1>5. k = [r EXCEPT !.step = f]
  OBVIOUS
<1> HIDE DEF f
<1>6. k \in WorkerRow /\ k.stage = r.stage /\ k.job = r.job /\ k.took = r.took /\ k.step = f
  BY <1>4, <1>5 DEF WorkerRow
<1> QED
  BY <1>3, <1>6

(* A write to the chunks of one job leaves those of the others.            *)
LEMMA ChunkGoes ==
  ASSUME BackfillTypes, NEW j \in Jobs, NEW f, chunk' = [chunk EXCEPT ![j] = f],
         f = [i \in DOMAIN chunk[j] |-> f[i]], \A i \in DOMAIN chunk[j] : f[i] \in B!ChunkType
  PROVE  /\ chunk' \in [Jobs -> Seq(B!ChunkType)] /\ DOMAIN chunk'[j] = DOMAIN chunk[j]
         /\ chunk'[j] = f
         /\ \A k \in Jobs \ {j} : chunk'[k] = chunk[k]
<1>1. chunk \in [Jobs -> Seq(B!ChunkType)]
  BY DEF BackfillTypes
<1>2. chunk[j] \in Seq(B!ChunkType) /\ DOMAIN chunk[j] = 1 .. Len(chunk[j]) /\ Len(chunk[j]) \in Nat
  BY <1>1
<1>3. f \in [1 .. Len(chunk[j]) -> B!ChunkType]
  BY <1>2
<1>4. f \in Seq(B!ChunkType)
  BY <1>2, <1>3, SeqDef
<1>5. DOMAIN f = DOMAIN chunk[j]
  BY <1>2, <1>3
<1> QED
  BY <1>1, <1>4, <1>5

(* A chunk whose state alone is written.                                   *)
LEMMA StateGoes ==
  ASSUME NEW c \in B!ChunkType, NEW st \in {"pending", "running", "failed"}, NEW n \in Nat,
         NEW b \in BOOLEAN
  PROVE  /\ [c EXCEPT !.status = st] \in B!ChunkType /\ [c EXCEPT !.status = st].status = st
         /\ [c EXCEPT !.status = st].window = c.window /\ [c EXCEPT !.status = st].token = c.token
         /\ [c EXCEPT !.status = st, !.wait = b] \in B!ChunkType
         /\ [c EXCEPT !.status = st, !.wait = b].status = st
         /\ [c EXCEPT !.status = st, !.wait = b].window = c.window
         /\ [c EXCEPT !.status = st, !.wait = b].token = c.token
         /\ [c EXCEPT !.status = st, !.attempts = n, !.wait = b] \in B!ChunkType
         /\ [c EXCEPT !.status = st, !.attempts = n, !.wait = b].status = st
         /\ [c EXCEPT !.status = st, !.attempts = n, !.wait = b].window = c.window
         /\ [c EXCEPT !.status = st, !.attempts = n, !.wait = b].token = c.token
  BY DEF B!ChunkType

(* A worker that did not move took nothing new.                            *)
LEMMA UnmovedShrinks ==
  ASSUME NEW w \in Workers, WorkerInv(w), worker'[w] = worker[w] PROVE Shrinks(w)
  BY DEF Shrinks, WorkerInv, Active, B!At, B!Mine

(* A job whose rows are not written is steady.                             *)
LEMMA UnmovedSteady ==
  ASSUME NEW j \in Jobs, JobInv(j), chunk'[j] = chunk[j], job'[j] = job[j], record'[j] = record[j],
         op'[j] = op[j] \/ job[j].status # "none",
         stray \subseteq stray'
  PROVE  Steady(j)
  BY DEF Steady, Calm, Grows, JobInv

(* Steps about one job.                                                    *)
LEMMA OneJob ==
  ASSUME BackfillInv, BackfillTypes', NEW j \in Jobs, Steady(j), stray \subseteq stray',
         \A k \in Jobs \ {j} : /\ chunk'[k] = chunk[k] /\ job'[k] = job[k]
                               /\ record'[k] = record[k] /\ op'[k] = op[k],
         \A w \in Workers : worker'[w] = worker[w] \/ Shrinks(w) \/ worker'[w] = B!Idle
  PROVE  BackfillInv'
<1>1. \A k \in Jobs : Steady(k)
  BY UnmovedSteady DEF BackfillInv
<1>2. \A w \in Workers : Shrinks(w) \/ worker'[w] = B!Idle
  BY UnmovedShrinks DEF BackfillInv
<1> QED
  BY <1>1, <1>2, SteadyStep DEF BackfillInv

(* The row of a job is written, its range is not.                          *)
LEMMA JobGoes ==
  ASSUME BackfillInv, NEW j \in Jobs, NEW r \in JobRow, job' = [job EXCEPT ![j] = r],
         r.from = job[j].from, r.to = job[j].to, r.status # "none",
         r.status = "completed" => job[j].status = "completed" \/ AllListed(j),
         r.status = "cancelled" => r.owner = B!Nobody,
         r.owner \in {job[j].owner, B!Nobody},
         UNCHANGED <<chunk, record, stray>>,
         op' = op \/ op' = [op EXCEPT ![j] = B!Nobody],
         worker' \in [Workers -> WorkerRow],
         \A w \in Workers : worker'[w] = worker[w] \/ Shrinks(w) \/ worker'[w] = B!Idle
  PROVE  BackfillInv'
<1>1. /\ job' \in [Jobs -> JobRow] /\ job'[j] = r /\ \A k \in Jobs \ {j} : job'[k] = job[k]
      /\ op' \in [Jobs -> {B!Nobody, "pending", "paused", "retry"}] /\ \A k \in Jobs \ {j} : op'[k] = op[k]
  BY DEF BackfillInv, BackfillTypes
<1>2. BackfillTypes'
  BY <1>1 DEF BackfillInv, BackfillTypes
<1>3. Steady(j)
  BY <1>1 DEF Steady, Calm, Grows
<1> QED
  BY <1>1, <1>2, <1>3, OneJob

(* Neither the rows nor the lists are written.                             *)
LEMMA NoneGoes ==
  ASSUME BackfillInv, UNCHANGED <<job, chunk, record, stray>>,
         op' \in [Jobs -> {B!Nobody, "pending", "paused", "retry"}],
         \A j \in Jobs : op'[j] = op[j] \/ job[j].status # "none",
         worker' \in [Workers -> WorkerRow],
         \A w \in Workers : worker'[w] = worker[w] \/ Shrinks(w) \/ worker'[w] = B!Idle
  PROVE  BackfillInv'
<1>1. BackfillTypes'
  BY DEF BackfillInv, BackfillTypes
<1>2. \A k \in Jobs : Steady(k)
  BY UnmovedSteady DEF BackfillInv
<1>3. \A w \in Workers : Shrinks(w) \/ worker'[w] = B!Idle
  BY UnmovedShrinks DEF BackfillInv
<1> QED
  BY <1>1, <1>2, <1>3, SteadyStep DEF BackfillInv

(* The chunks of a job are written, their windows and tokens are not.      *)
Retouched(j, f) ==
  \A i \in DOMAIN chunk[j] :
    /\ f[i] \in B!ChunkType /\ f[i].window = chunk[j][i].window /\ f[i].token = chunk[j][i].token
    /\ f[i].status = "done" => chunk[j][i].status = "done"
    /\ j \notin stray' /\ chunk[j][i].status = "done" => f[i].status = "done"

(* A write to a job's chunks that keeps their windows and what they passed *)
(* keeps the invariant.                                                    *)
LEMMA ChunksGo ==
  ASSUME BackfillInv, NEW j \in Jobs, NEW f, chunk' = [chunk EXCEPT ![j] = f],
         f = [i \in DOMAIN chunk[j] |-> f[i]], Retouched(j, f),
         job' \in [Jobs -> JobRow], \A k \in Jobs \ {j} : job'[k] = job[k],
         job'[j].from = job[j].from, job'[j].to = job[j].to, job'[j].owner = job[j].owner,
         job'[j].status \in {job[j].status, "running", "paused"},
         job[j].status # "none" \/ UNCHANGED <<job, op>>,
         record' = record, stray' \in {stray, stray \cup {j}},
         op' = op \/ op' = [op EXCEPT ![j] = B!Nobody],
         worker' \in [Workers -> WorkerRow],
         \A w \in Workers : worker'[w] = worker[w] \/ Shrinks(w) \/ worker'[w] = B!Idle
  PROVE  BackfillInv'
<1>1. /\ op' \in [Jobs -> {B!Nobody, "pending", "paused", "retry"}] /\ \A k \in Jobs \ {j} : op'[k] = op[k]
      /\ BackfillTypes /\ JobInv(j)
  BY DEF BackfillInv, BackfillTypes
<1>2. /\ chunk' \in [Jobs -> Seq(B!ChunkType)] /\ DOMAIN chunk'[j] = DOMAIN chunk[j] /\ chunk'[j] = f
      /\ \A k \in Jobs \ {j} : chunk'[k] = chunk[k]
  BY <1>1, ChunkGoes DEF Retouched
<1>3. BackfillTypes'
  BY <1>1, <1>2 DEF BackfillTypes
<1>4. Grows(j)
  BY <1>2 DEF Grows, Retouched
<1>5. /\ job'[j].status = "completed" => job[j].status = "completed"
      /\ job'[j].status = "none" => op'[j] = B!Nobody
      /\ job'[j].status = "cancelled" => job'[j].owner = B!Nobody
  BY <1>1 DEF JobInv
<1>6. Steady(j)
  BY <1>2, <1>4, <1>5 DEF Steady, Calm, Retouched
<1> QED
  BY <1>1, <1>2, <1>3, <1>6, OneJob

-----------------------------------------------------------------------------
(* The operators' steps, and time.                                         *)
LEMMA OperatorSteps ==
  ASSUME BackfillInv, NEW j \in Jobs,
         \/ B!Activate(j) \/ B!Run(j) \/ B!Pause(j) \/ B!Cancel(j) \/ B!RetryFailed(j) \/ B!Requeue(j)
         \/ B!LeaseExpires(j) \/ \E i \in 1 .. MaxChunks : B!BackoffEnds(j, i)
  PROVE  BackfillInv'
<1> USE NobodyAssumption
<1>0. /\ BackfillTypes /\ JobInv(j) /\ job[j] \in JobRow /\ job \in [Jobs -> JobRow]
      /\ op \in [Jobs -> {B!Nobody, "pending", "paused", "retry"}] /\ worker \in [Workers -> WorkerRow]
      /\ chunk[j] \in Seq(B!ChunkType)
  BY DEF BackfillInv, BackfillTypes
<1>n. B!Nobody = "nobody"
  BY DEF B!Nobody

(* The status of the job is written, with or without its lease.            *)
<1>s. ASSUME NEW r, r.from = job[j].from, r \in JobRow, r.to = job[j].to,
             r.status \notin {"none", "completed"},
             r.status = "cancelled" => r.owner = B!Nobody, r.owner \in {job[j].owner, B!Nobody},
             job' = [job EXCEPT ![j] = r], UNCHANGED <<chunk, record, worker, stray>>,
             op' = op \/ op' = [op EXCEPT ![j] = B!Nobody]
      PROVE  BackfillInv'
  BY <1>0, <1>s, JobGoes
<1>r. ASSUME NEW to \in {"running", "paused"}
      PROVE  LET r == [job[j] EXCEPT !.status = to] IN
             /\ r \in JobRow /\ r.from = job[j].from /\ r.to = job[j].to /\ r.status = to
             /\ r.owner = job[j].owner
  BY <1>0 DEF JobRow
<1>1. CASE B!Activate(j)
  <2>1. op' \in [Jobs -> {B!Nobody, "pending", "paused", "retry"}] /\ \A k \in Jobs : op'[k] = op[k] \/ job[k].status # "none"
    BY <1>0, <1>1, <1>n DEF B!Activate
  <2> QED
    BY <1>0, <1>1, <2>1, NoneGoes DEF B!Activate
<1>2. CASE B!Run(j)
  <2>1. op' = [op EXCEPT ![j] = B!Nobody] /\ UNCHANGED <<chunk, record, worker, stray>>
    BY <1>2 DEF B!Run
  <2>2. CASE job[j].status = op[j]
    <3>1. job' = [job EXCEPT ![j] = [job[j] EXCEPT !.status = "running"]]
      BY <1>2, <2>2 DEF B!Run
    <3> QED
      BY <1>r, <1>s, <2>1, <3>1
  <2>3. CASE job[j].status # op[j]
    <3>1. op' \in [Jobs -> {B!Nobody, "pending", "paused", "retry"}] /\ job' = job
          /\ \A k \in Jobs : op'[k] = op[k] \/ job[k].status # "none"
      BY <1>0, <1>2, <1>n, <2>1, <2>3 DEF B!Run, JobInv
    <3> QED
      BY <1>0, <2>1, <3>1, NoneGoes
  <2> QED
    BY <2>2, <2>3
<1>3. CASE B!Pause(j)
  <2>1. job' = [job EXCEPT ![j] = [job[j] EXCEPT !.status = "paused"]] /\ UNCHANGED <<chunk, record, worker, op, stray>>
    BY <1>3 DEF B!Pause
  <2> QED
    BY <1>r, <1>s, <2>1
<1>4. CASE B!Cancel(j)
  <2> DEFINE r == [job[j] EXCEPT !.status = "cancelled", !.owner = B!Nobody, !.expired = FALSE]
  <2>1. job' = [job EXCEPT ![j] = r] /\ UNCHANGED <<chunk, record, worker, op, stray>>
    BY <1>4 DEF B!Cancel
  <2>2. r \in JobRow /\ r.from = job[j].from /\ r.to = job[j].to /\ r.status = "cancelled" /\ r.owner = B!Nobody
    BY <1>0 DEF JobRow, B!Finals
  <2> HIDE DEF r
  <2> QED
    BY <1>s, <2>1, <2>2
<1>5. CASE B!RetryFailed(j)
  <2>1. op' \in [Jobs -> {B!Nobody, "pending", "paused", "retry"}] /\ \A k \in Jobs : op'[k] = op[k] \/ job[k].status # "none"
    BY <1>0, <1>5, <1>n DEF B!RetryFailed
  <2> QED
    BY <1>0, <1>5, <2>1, NoneGoes DEF B!RetryFailed
<1>6. CASE B!Requeue(j)
  <2> DEFINE f == [i \in DOMAIN chunk[j] |-> IF i \in B!Failed(j)
                     THEN [chunk[j][i] EXCEPT !.status = "pending", !.attempts = 0, !.wait = FALSE]
                     ELSE chunk[j][i]]
             to == IF job[j].status = "paused" THEN "paused" ELSE "running"
             r == [job[j] EXCEPT !.status = to]
  <2>1. /\ chunk' = [chunk EXCEPT ![j] = f] /\ job' = [job EXCEPT ![j] = r] /\ op[j] = "retry"
        /\ op' = [op EXCEPT ![j] = B!Nobody] /\ UNCHANGED <<record, worker, stray>>
    BY <1>6 DEF B!Requeue
  <2>2. to \in {"running", "paused"}
    OBVIOUS
  <2>3. /\ r \in JobRow /\ r.from = job[j].from /\ r.to = job[j].to /\ r.status = to
        /\ r.owner = job[j].owner
    BY <1>r, <2>2
  <2>4. ASSUME NEW i \in DOMAIN chunk[j]
        PROVE  /\ f[i] \in B!ChunkType /\ f[i].window = chunk[j][i].window /\ f[i].token = chunk[j][i].token
               /\ f[i].status = "done" <=> chunk[j][i].status = "done"
    <3>1. chunk[j][i] \in B!ChunkType
      BY <1>0
    <3> DEFINE g == [chunk[j][i] EXCEPT !.status = "pending", !.attempts = 0, !.wait = FALSE]
    <3>2. f[i] = IF i \in B!Failed(j) THEN g ELSE chunk[j][i]
      OBVIOUS
    <3>3. i \in B!Failed(j) => chunk[j][i].status = "failed"
      BY DEF B!Failed
    <3>4. /\ g \in B!ChunkType /\ g.window = chunk[j][i].window /\ g.token = chunk[j][i].token
          /\ g.status = "pending"
      BY <3>1 DEF B!ChunkType
    <3> HIDE DEF g, f
    <3> QED
      BY <3>1, <3>2, <3>3, <3>4
  <2>5. f = [i \in DOMAIN chunk[j] |-> f[i]]
    OBVIOUS
  <2>6. job[j].status # "none"
    BY <1>0, <1>n, <2>1 DEF JobInv
  <2> HIDE DEF f, r, to
  <2>7. job' \in [Jobs -> JobRow] /\ job'[j] = r /\ \A k \in Jobs \ {j} : job'[k] = job[k]
    BY <1>0, <2>1, <2>3
  <2>8. \A w \in Workers : worker'[w] = worker[w]
    BY <2>1
  <2>9. /\ worker' \in [Workers -> WorkerRow] /\ stray' \in {stray, stray \cup {j}}
        /\ job'[j].status \in {job[j].status, "running", "paused"}
        /\ job'[j].from = job[j].from /\ job'[j].to = job[j].to /\ job'[j].owner = job[j].owner
    BY <1>0, <2>1, <2>2, <2>3, <2>7
  <2>10. Retouched(j, f)
    BY <2>4 DEF Retouched
  <2> QED
    BY <2>1, <2>5, <2>6, <2>7, <2>8, <2>9, <2>10, ChunksGo
<1>7. CASE B!LeaseExpires(j)
  <2> DEFINE r == [job[j] EXCEPT !.expired = TRUE]
  <2>1. job' = [job EXCEPT ![j] = r] /\ UNCHANGED <<chunk, record, worker, op, stray>> /\ job[j].owner # B!Nobody
    BY <1>7 DEF B!LeaseExpires
  <2>2. /\ r \in JobRow /\ r.from = job[j].from /\ r.to = job[j].to /\ r.status = job[j].status
        /\ r.owner = job[j].owner
    BY <1>0 DEF JobRow
  <2> HIDE DEF r
  <2>3. job[j].status # "cancelled" /\ JobInv(j)
    BY <1>0, <2>1 DEF JobInv
  <2>4. job' \in [Jobs -> JobRow] /\ job'[j] = r /\ \A k \in Jobs \ {j} : job'[k] = job[k]
    BY <1>0, <2>1, <2>2
  <2>5. BackfillTypes'
    BY <1>0, <2>1, <2>4 DEF BackfillTypes
  <2>6. Steady(j)
    BY <2>1, <2>2, <2>3, <2>4 DEF Steady, Calm, Grows, JobInv
  <2> QED
    BY <2>1, <2>4, <2>5, <2>6, OneJob
<1>8. ASSUME NEW i \in 1 .. MaxChunks, B!BackoffEnds(j, i) PROVE BackfillInv'
  <2> DEFINE c == [chunk[j][i] EXCEPT !.wait = FALSE]
             f == [chunk[j] EXCEPT ![i] = c]
  <2>1. /\ i \in DOMAIN chunk[j] /\ chunk' = [chunk EXCEPT ![j] = f]
        /\ UNCHANGED <<job, record, worker, op, stray>>
    BY <1>8 DEF B!BackoffEnds
  <2>2. chunk[j][i] \in B!ChunkType /\ \A k \in DOMAIN chunk[j] : chunk[j][k] \in B!ChunkType
    BY <1>0, <2>1
  <2>3. c \in B!ChunkType /\ c.window = chunk[j][i].window /\ c.token = chunk[j][i].token /\ c.status = chunk[j][i].status
    BY <2>2 DEF B!ChunkType
  <2> HIDE DEF c
  <2>4. f = [k \in DOMAIN chunk[j] |-> f[k]] /\ f[i] = c /\ \A k \in DOMAIN chunk[j] \ {i} : f[k] = chunk[j][k]
    BY <2>1
  <2> HIDE DEF f
  <2>5. ASSUME NEW k \in DOMAIN chunk[j]
        PROVE  /\ f[k] \in B!ChunkType /\ f[k].window = chunk[j][k].window /\ f[k].token = chunk[j][k].token
               /\ f[k].status = "done" <=> chunk[j][k].status = "done"
    BY <2>2, <2>3, <2>4
  <2>6. \A w \in Workers : worker'[w] = worker[w]
    BY <2>1
  <2>7. /\ worker' \in [Workers -> WorkerRow] /\ stray' \in {stray, stray \cup {j}} /\ job' \in [Jobs -> JobRow]
        /\ job'[j].status \in {job[j].status, "running", "paused"}
    BY <1>0, <2>1
  <2>8. Retouched(j, f)
    BY <2>5 DEF Retouched
  <2> QED
    BY <2>1, <2>4, <2>6, <2>7, <2>8, ChunksGo
<1> QED
  BY <1>1, <1>2, <1>3, <1>4, <1>5, <1>6, <1>7, <1>8

-----------------------------------------------------------------------------
(* The workers' steps.                                                     *)
LEMMA Busy ==
  ASSUME BackfillInv, NEW w \in Workers, ~B!At(w, "idle")
  PROVE  /\ B!Mine(w) \in Jobs /\ job[B!Mine(w)].status # "none" /\ job[B!Mine(w)] \in JobRow /\ JobInv(B!Mine(w))
         /\ worker[w] \in WorkerRow /\ chunk[B!Mine(w)] \in Seq(B!ChunkType)
         /\ \A i \in DOMAIN chunk[B!Mine(w)] : chunk[B!Mine(w)][i] \in B!ChunkType
         /\ worker[w].step \in [DOMAIN worker[w].step -> Steps] /\ DOMAIN worker[w].step \subseteq Nat
         /\ worker[w].took \in [DOMAIN worker[w].took -> B!ChunkType] /\ DOMAIN worker[w].took \subseteq Nat
         /\ \A i \in DOMAIN worker[w].took : Taken(w, i)
         /\ B!At(w, "steps") => DOMAIN worker[w].step = DOMAIN worker[w].took
<1>1. worker[w] \in WorkerRow /\ WorkerInv(w)
  BY DEF BackfillInv, BackfillTypes
<1>2. B!Mine(w) \in Jobs
  BY <1>1 DEF WorkerRow, WorkerInv, B!Mine
<1>3. worker[w].step \in Partial(Steps) /\ worker[w].took \in Partial(B!ChunkType)
  BY <1>1 DEF WorkerRow
<1>4. /\ worker[w].step \in [DOMAIN worker[w].step -> Steps] /\ DOMAIN worker[w].step \subseteq Nat
      /\ worker[w].took \in [DOMAIN worker[w].took -> B!ChunkType] /\ DOMAIN worker[w].took \subseteq Nat
  BY <1>3, PartialMember
<1>5. job[B!Mine(w)] \in JobRow /\ JobInv(B!Mine(w)) /\ chunk[B!Mine(w)] \in Seq(B!ChunkType)
  BY <1>2 DEF BackfillInv, BackfillTypes
<1>6. \A i \in DOMAIN chunk[B!Mine(w)] : chunk[B!Mine(w)][i] \in B!ChunkType
  BY <1>5
<1> QED
  BY <1>1, <1>2, <1>4, <1>5, <1>6 DEF WorkerInv

(* A worker that goes on to a stage takes nothing new.                     *)
LEMMA StageShrinks ==
  ASSUME BackfillInv, NEW w \in Workers, ~B!At(w, "idle"),
         NEW to \in {"check", "select", "finish", "release"}, B!Goto(w, to)
  PROVE  /\ worker' \in [Workers -> WorkerRow]
         /\ \A v \in Workers : worker'[v] = worker[v] \/ Shrinks(v)
<1>1. /\ worker' \in [Workers -> WorkerRow] /\ \A v \in Workers \ {w} : worker'[v] = worker[v]
      /\ worker'[w].stage = to /\ worker'[w].job = worker[w].job /\ worker'[w].took = worker[w].took
  BY StageGoes DEF BackfillInv
<1>2. Shrinks(w)
  BY <1>1 DEF Shrinks, Active, B!At, B!Mine
<1> QED
  BY <1>1, <1>2

(* One chunk in hand goes to another step.                                 *)
LEMMA StepShrinks ==
  ASSUME BackfillInv, NEW w \in Workers, B!At(w, "steps"), NEW i \in DOMAIN worker[w].step,
         NEW to \in Steps,
         worker[w].step[i] # "done", NEW r \in WorkerRow, r.step = worker[w].step, r.stage = worker[w].stage,
         r.job = worker[w].job, r.took = worker[w].took,
         worker' = [worker EXCEPT ![w] = [r EXCEPT !.step[i] = to]]
  PROVE  /\ worker' \in [Workers -> WorkerRow]
         /\ \A v \in Workers : worker'[v] = worker[v] \/ Shrinks(v)
         /\ Shrinks(w) /\ (to = "done" => ~Active(w, i)')
         /\ \A v \in Workers \ {w} : worker'[v] = worker[v]
<1> DEFINE k == [r EXCEPT !.step[i] = to]
<1>0. BackfillTypes /\ WorkerInv(w)
  BY DEF BackfillInv
<1>1. /\ k \in WorkerRow /\ k.stage = r.stage /\ k.job = r.job /\ k.took = r.took
      /\ DOMAIN k.step = DOMAIN worker[w].step /\ k.step[i] = to
      /\ \A h \in DOMAIN worker[w].step \ {i} : k.step[h] = worker[w].step[h]
  BY <1>0, StepGoes
<1> HIDE DEF k
<1>2. /\ worker' \in [Workers -> WorkerRow] /\ worker'[w] = k
      /\ \A v \in Workers \ {w} : worker'[v] = worker[v]
  BY <1>0, <1>1, WorkerGoes DEF k
<1>3. DOMAIN worker[w].step = DOMAIN worker[w].took
  BY <1>0 DEF WorkerInv, B!At
<1>4. ASSUME NEW h \in DOMAIN worker'[w].took, Active(w, h)' PROVE Active(w, h)
  BY <1>1, <1>2, <1>3, <1>4 DEF Active, B!At
<1>5. Shrinks(w)
  BY <1>1, <1>2, <1>3, <1>4 DEF Shrinks, B!At, B!Mine
<1>6. to = "done" => ~Active(w, i)'
  BY <1>1, <1>2 DEF Active, B!At
<1> QED
  BY <1>2, <1>5, <1>6

(* The row of a chunk in hand is written.                                  *)
LEMMA RowRetouched ==
  ASSUME BackfillInv, NEW j \in Jobs, NEW i \in DOMAIN chunk[j], NEW c \in B!ChunkType,
         c.window = chunk[j][i].window, c.token = chunk[j][i].token,
         c.status = "done" => chunk[j][i].status = "done",
         j \notin stray' /\ chunk[j][i].status = "done" => c.status = "done",
         NEW f, f = [chunk[j] EXCEPT ![i] = c]
  PROVE  f = [k \in DOMAIN chunk[j] |-> f[k]] /\ Retouched(j, f)
<1>1. chunk[j] \in Seq(B!ChunkType)
  BY DEF BackfillInv, BackfillTypes
<1>2. \A k \in DOMAIN chunk[j] : chunk[j][k] \in B!ChunkType
  BY <1>1
<1>3. f = [k \in DOMAIN chunk[j] |-> f[k]] /\ f[i] = c /\ \A k \in DOMAIN chunk[j] \ {i} : f[k] = chunk[j][k]
  BY <1>1
<1> QED
  BY <1>2, <1>3 DEF Retouched

(* Several rows change their status at once.                               *)
LEMMA RowsRetouched ==
  ASSUME BackfillInv, NEW j \in Jobs, NEW picked, NEW st \in {"pending", "running"},
         \A i \in DOMAIN chunk[j] : i \in picked /\ chunk[j][i].status = "done" => j \in stray',
         NEW f, f = [i \in DOMAIN chunk[j] |-> IF i \in picked THEN [chunk[j][i] EXCEPT !.status = st] ELSE chunk[j][i]]
  PROVE  f = [k \in DOMAIN chunk[j] |-> f[k]] /\ Retouched(j, f)
<1>1. chunk[j] \in Seq(B!ChunkType)
  BY DEF BackfillInv, BackfillTypes
<1>2. \A k \in DOMAIN chunk[j] : chunk[j][k] \in B!ChunkType
  BY <1>1
<1>3. f = [k \in DOMAIN chunk[j] |-> f[k]]
  OBVIOUS
<1>4. ASSUME NEW i \in DOMAIN chunk[j]
      PROVE  /\ f[i] \in B!ChunkType /\ f[i].window = chunk[j][i].window /\ f[i].token = chunk[j][i].token
             /\ f[i].status = "done" => chunk[j][i].status = "done"
             /\ j \notin stray' /\ chunk[j][i].status = "done" => f[i].status = "done"
  <2> DEFINE g == [chunk[j][i] EXCEPT !.status = st]
  <2>1. f[i] = IF i \in picked THEN g ELSE chunk[j][i]
    OBVIOUS
  <2>2. g \in B!ChunkType /\ g.window = chunk[j][i].window /\ g.token = chunk[j][i].token /\ g.status = st
    BY <1>2 DEF B!ChunkType
  <2> HIDE DEF g
  <2> QED
    BY <1>2, <2>1, <2>2
<1> QED
  BY <1>3, <1>4 DEF Retouched

(* The steps of a worker's round keep the invariant.                       *)
LEMMA RoundSteps ==
  ASSUME BackfillInv, NEW w \in Workers,
         \/ B!Open(w) \/ B!Check(w) \/ B!Mark(w) \/ B!EndRound(w) \/ B!Finish(w) \/ B!Conclude(w) \/ B!Release(w) \/ B!Crash(w)
  PROVE  BackfillInv'
<1> USE NobodyAssumption
<1> DEFINE j == B!Mine(w)
<1>i. ~B!At(w, "idle")
  BY DEF B!Open, B!Check, B!Mark, B!EndRound, B!Finish, B!Conclude, B!Release, B!Crash, B!At
<1>0. /\ j \in Jobs /\ job[j].status # "none" /\ job[j] \in JobRow /\ JobInv(j)
      /\ worker[w] \in WorkerRow /\ BackfillTypes /\ op \in [Jobs -> {B!Nobody, "pending", "paused", "retry"}]
      /\ job \in [Jobs -> JobRow] /\ WorkerInv(w) /\ worker \in [Workers -> WorkerRow]
  BY <1>i, Busy DEF BackfillInv, BackfillTypes
<1>j. job[j].status = "cancelled" => job[j].owner = B!Nobody
  BY <1>0 DEF JobInv
<1> HIDE DEF j
<1>go. ASSUME NEW to \in {"check", "select", "finish", "release"}, B!Goto(w, to)
       PROVE  /\ worker' \in [Workers -> WorkerRow]
              /\ \A v \in Workers : worker'[v] = worker[v] \/ Shrinks(v) \/ worker'[v] = B!Idle
  BY <1>i, <1>go, StageShrinks
<1>1. CASE B!Open(w)
  <2>1. UNCHANGED <<job, record, op, stray>>
    BY <1>1 DEF B!Open
  <2>2. CASE B!Goto(w, "release") /\ UNCHANGED chunk
    BY <1>0, <1>go, <2>1, <2>2, NoneGoes
  <2>3. CASE B!Goto(w, "check") /\ ~UNCHANGED chunk
    <3> DEFINE picked == {i \in DOMAIN chunk[j] : chunk[j][i].status = "running"}
               f == [i \in DOMAIN chunk[j] |-> IF i \in picked THEN [chunk[j][i] EXCEPT !.status = "pending"]
                                                               ELSE chunk[j][i]]
    <3>1. chunk' = [chunk EXCEPT ![j] = [i \in DOMAIN chunk[j] |-> IF chunk[j][i].status = "running"
                       THEN [chunk[j][i] EXCEPT !.status = "pending"] ELSE chunk[j][i]]]
      BY <1>1, <2>3 DEF B!Open, j
    <3>2. chunk' = [chunk EXCEPT ![j] = f]
      BY <3>1
    <3>3. \A i \in DOMAIN chunk[j] : i \in picked /\ chunk[j][i].status = "done" => j \in stray'
      OBVIOUS
    <3> HIDE DEF picked
    <3>4. f = [k \in DOMAIN chunk[j] |-> f[k]] /\ Retouched(j, f)
      BY <1>0, <3>3, RowsRetouched
    <3> HIDE DEF f
    <3> QED
      BY <1>0, <1>go, <2>1, <2>3, <3>2, <3>4, ChunksGo
  <2>4. CASE B!Goto(w, "check") /\ UNCHANGED chunk
    BY <1>0, <1>go, <2>1, <2>4, NoneGoes
  <2> QED
    BY <1>1, <2>2, <2>3, <2>4 DEF B!Open
<1>2. CASE B!Check(w)
  <2>1. UNCHANGED <<chunk, record, op, stray>>
    BY <1>2 DEF B!Check
  <2>2. CASE B!Held(w) /\ job[j].status = "running"
    <3> DEFINE r == [job[j] EXCEPT !.expired = FALSE]
    <3>1. B!Goto(w, "select") /\ job' = [job EXCEPT ![j] = r]
      BY <1>2, <2>2 DEF B!Check, j
    <3>2. r \in JobRow /\ r.from = job[j].from /\ r.to = job[j].to /\ r.status = "running" /\ r.owner = job[j].owner
      BY <1>0, <2>2 DEF JobRow
    <3> HIDE DEF r
    <3> QED
      BY <1>0, <1>go, <2>1, <3>1, <3>2, JobGoes
  <2>3. CASE ~(B!Held(w) /\ job[j].status = "running")
    <3>1. B!Goto(w, "finish") /\ UNCHANGED job
      BY <1>2, <2>3 DEF B!Check, j
    <3> QED
      BY <1>0, <1>go, <2>1, <3>1, NoneGoes
  <2> QED
    BY <2>2, <2>3
<1>3. CASE B!Mark(w)
  <2> DEFINE picked == DOMAIN worker[w].took
             f == [i \in DOMAIN chunk[j] |-> IF i \in picked THEN [chunk[j][i] EXCEPT !.status = "running"]
                                                             ELSE chunk[j][i]]
             g == [i \in picked |-> "fetch"]
             k == [worker[w] EXCEPT !.stage = "steps", !.step = g]
  <2>1. /\ chunk' = [chunk EXCEPT ![j] = f] /\ worker' = [worker EXCEPT ![w] = k]
        /\ UNCHANGED <<job, record, op>> /\ B!At(w, "mark")
        /\ stray' = IF B!Held(w) THEN stray ELSE stray \cup {j}
    BY <1>3 DEF B!Mark, B!Stray, j
  <2>2. \A i \in picked : Taken(w, i) /\ picked \subseteq Nat
    BY <1>i, Busy
  <2>3. \A i \in DOMAIN chunk[j] : i \in picked /\ chunk[j][i].status = "done" => j \in stray'
    BY <1>0, <2>1, <2>2 DEF Taken, Active, j
  <2>4. g \in Partial(Steps) /\ DOMAIN g = picked
    <3>1. picked \subseteq Nat
      BY <1>i, Busy
    <3> QED
      BY <3>1, PartialMember DEF Steps
  <2> HIDE DEF g
  <2>5. /\ k \in WorkerRow /\ k.stage = "steps" /\ k.step = g /\ k.took = worker[w].took /\ k.job = worker[w].job
    BY <1>0, <2>4 DEF WorkerRow
  <2> HIDE DEF k, picked
  <2>6. f = [i \in DOMAIN chunk[j] |-> f[i]] /\ Retouched(j, f)
    BY <1>0, <2>3, RowsRetouched
  <2> HIDE DEF f
  <2>7. /\ worker' \in [Workers -> WorkerRow] /\ worker'[w] = k
        /\ \A v \in Workers \ {w} : worker'[v] = worker[v]
    BY <1>0, <2>1, <2>5, WorkerGoes
  <2>8. Shrinks(w)
    BY <2>1, <2>4, <2>5, <2>7 DEF Shrinks, Active, B!At, B!Mine, picked
  <2>9. stray' \in {stray, stray \cup {j}} /\ (\A v \in Workers : worker'[v] = worker[v] \/ Shrinks(v) \/ worker'[v] = B!Idle)
    BY <2>1, <2>7, <2>8
  <2> QED
    BY <1>0, <2>1, <2>6, <2>7, <2>9, ChunksGo
<1>4. CASE B!EndRound(w)
  <2> DEFINE r == [job[j] EXCEPT !.conc = worker[w].conc]
  <2>1. PICK next \in {"check", "finish"} :
          worker' = [worker EXCEPT ![w] = [worker[w] EXCEPT !.stage = next, !.took = << >>, !.step = << >>]]
    BY <1>4 DEF B!EndRound
  <2> DEFINE k == [worker[w] EXCEPT !.stage = next, !.took = << >>, !.step = << >>]
  <2>2. UNCHANGED <<chunk, record, op, stray>> /\ (job' = [job EXCEPT ![j] = r] \/ job' = job)
    BY <1>4 DEF B!EndRound, j
  <2>3. /\ k \in WorkerRow /\ k.stage = next /\ k.job = worker[w].job /\ DOMAIN k.took = {}
    BY <1>0, NothingPartial DEF WorkerRow
  <2>4. worker[w].conc \in 1 .. MaxConcurrency
    BY <1>0 DEF WorkerRow
  <2>5. /\ r \in JobRow /\ r.from = job[j].from /\ r.to = job[j].to /\ r.status = job[j].status
        /\ r.owner = job[j].owner
    BY <1>0, <2>4 DEF JobRow
  <2> HIDE DEF k, r
  <2>6. /\ worker' \in [Workers -> WorkerRow] /\ worker'[w] = k
        /\ \A v \in Workers \ {w} : worker'[v] = worker[v]
    BY <1>0, <2>1, <2>3, WorkerGoes DEF k
  <2>7. Shrinks(w)
    BY <1>i, <2>3, <2>6 DEF Shrinks, Active, B!At, B!Mine
  <2>8. \A v \in Workers : worker'[v] = worker[v] \/ Shrinks(v) \/ worker'[v] = B!Idle
    BY <2>6, <2>7
  <2>9. CASE job' = job
    BY <1>0, <2>2, <2>6, <2>8, <2>9, NoneGoes
  <2>10. CASE job' = [job EXCEPT ![j] = r]
    BY <1>0, <1>j, <2>2, <2>5, <2>6, <2>8, <2>10, JobGoes
  <2> QED
    BY <2>2, <2>9, <2>10
<1>5. CASE B!Finish(w)
  <2>1. UNCHANGED <<job, chunk, record, op, stray>> /\ B!At(w, "finish")
    BY <1>5 DEF B!Finish
  <2>2. CASE job[j].status = "running" /\ B!Unfinished(j) = {}
    <3> DEFINE e == IF B!Failed(j) # {} THEN "completed_with_errors" ELSE "completed"
               k == [worker[w] EXCEPT !.stage = "conclude", !.ends = e]
    <3>1. worker' = [worker EXCEPT ![w] = k]
      BY <1>5, <2>2 DEF B!Finish, j
    <3>2. e \in {"completed", "completed_with_errors"} /\ e # B!Nobody
      BY DEF B!Nobody
    <3>3. e = "completed" => AllListed(j)
      <4> SUFFICES ASSUME B!Failed(j) = {} PROVE AllListed(j)
        BY DEF B!Failed
      <4>1. \A i \in DOMAIN chunk[j] : chunk[j][i] \in B!ChunkType
        BY <1>i, Busy DEF j
      <4>2. \A i \in DOMAIN chunk[j] : chunk[j][i].status = "done"
        BY <2>2, <4>1 DEF B!Unfinished, B!Failed, B!ChunkType
      <4> QED
        BY <1>0, <4>2 DEF JobInv, Planned, Listed, AllListed
    <3> HIDE DEF e
    <3>4. /\ k \in WorkerRow /\ k.stage = "conclude" /\ k.ends = e /\ k.took = worker[w].took /\ k.job = worker[w].job
      BY <1>0, <3>2 DEF WorkerRow
    <3> HIDE DEF k
    <3>5. /\ worker' \in [Workers -> WorkerRow] /\ worker'[w] = k
          /\ \A v \in Workers \ {w} : worker'[v] = worker[v]
      BY <1>0, <3>1, <3>4, WorkerGoes
    <3>6. Shrinks(w)
      BY <1>i, <3>2, <3>3, <3>4, <3>5 DEF Shrinks, Active, B!At, B!Mine, j
    <3> QED
      BY <1>0, <2>1, <3>5, <3>6, NoneGoes
  <2>3. CASE ~(job[j].status = "running" /\ B!Unfinished(j) = {})
    <3>1. B!Goto(w, "release")
      BY <1>5, <2>3 DEF B!Finish, j
    <3> QED
      BY <1>0, <1>go, <2>1, <3>1, NoneGoes
  <2> QED
    BY <2>2, <2>3
<1>6. CASE B!Conclude(w)
  <2>1. UNCHANGED <<chunk, record, op, stray>> /\ B!At(w, "conclude") /\ B!Goto(w, "release")
    BY <1>6 DEF B!Conclude
  <2>2. CASE B!Held(w) /\ job[j].status = "running"
    <3> DEFINE r == [job[j] EXCEPT !.status = worker[w].ends]
    <3>1. job' = [job EXCEPT ![j] = r]
      BY <1>6, <2>2 DEF B!Conclude, j
    <3>2. /\ worker[w].ends \in {"completed", "completed_with_errors"}
          /\ worker[w].ends = "completed" => AllListed(j)
      BY <1>0, <1>i, <2>1 DEF WorkerInv, WorkerRow, j
    <3>3. /\ r \in JobRow /\ r.from = job[j].from /\ r.to = job[j].to /\ r.status = worker[w].ends
          /\ r.owner = job[j].owner
      BY <1>0, <3>2 DEF JobRow, B!Finals
    <3> HIDE DEF r
    <3> QED
      BY <1>0, <1>go, <2>1, <3>1, <3>2, <3>3, JobGoes
  <2>3. CASE ~(B!Held(w) /\ job[j].status = "running")
    <3>1. job' = job
      BY <1>6, <2>3 DEF B!Conclude, j
    <3> QED
      BY <1>0, <1>go, <2>1, <3>1, NoneGoes
  <2> QED
    BY <2>2, <2>3
<1>idle. ASSUME worker' = [worker EXCEPT ![w] = B!Idle]
         PROVE  /\ worker' \in [Workers -> WorkerRow]
                /\ \A v \in Workers : worker'[v] = worker[v] \/ Shrinks(v) \/ worker'[v] = B!Idle
  <2>1. B!Idle \in WorkerRow
    BY PlanAssumption, NothingPartial DEF B!Idle, WorkerRow
  <2> QED
    BY <1>0, <1>idle, <2>1
<1>7. CASE B!Release(w)
  <2>1. UNCHANGED <<chunk, record, op, stray>> /\ worker' = [worker EXCEPT ![w] = B!Idle]
    BY <1>7 DEF B!Release
  <2>2. CASE B!Held(w)
    <3> DEFINE r == [job[j] EXCEPT !.owner = B!Nobody, !.expired = FALSE]
    <3>1. job' = [job EXCEPT ![j] = r]
      BY <1>7, <2>2 DEF B!Release, j
    <3>2. /\ r \in JobRow /\ r.from = job[j].from /\ r.to = job[j].to /\ r.status = job[j].status
          /\ r.owner = B!Nobody
      BY <1>0 DEF JobRow
    <3> HIDE DEF r
    <3> QED
      BY <1>0, <1>idle, <2>1, <3>1, <3>2, JobGoes
  <2>3. CASE ~B!Held(w)
    <3>1. job' = job
      BY <1>7, <2>3 DEF B!Release
    <3> QED
      BY <1>0, <1>idle, <2>1, <3>1, NoneGoes
  <2> QED
    BY <2>2, <2>3
<1>8. CASE B!Crash(w)
  BY <1>0, <1>idle, <1>8, NoneGoes DEF B!Crash
<1> QED
  BY <1>1, <1>2, <1>3, <1>4, <1>5, <1>6, <1>7, <1>8

(* The steps of one chunk in hand that list nothing.                       *)
LEMMA ChunkSteps ==
  ASSUME BackfillInv, NEW w \in Workers, NEW i \in 1 .. MaxChunks,
         B!Fetch(w, i) \/ B!Fault(w, i) \/ B!Lost(w, i) \/ B!FailChunk(w, i)
  PROVE  BackfillInv'
<1> USE NobodyAssumption
<1> DEFINE j == B!Mine(w)
<1>i. B!At(w, "steps") /\ ~B!At(w, "idle") /\ i \in DOMAIN worker[w].step
  BY DEF B!Fetch, B!Fault, B!Lost, B!FailChunk, B!Stepping, B!At
<1>d. worker[w].step[i] # "done"
  BY DEF B!Fetch, B!Fault, B!Lost, B!FailChunk, B!Stepping
<1>0. /\ j \in Jobs /\ job[j].status # "none" /\ job[j] \in JobRow
      /\ worker[w] \in WorkerRow /\ BackfillTypes /\ op \in [Jobs -> {B!Nobody, "pending", "paused", "retry"}]
      /\ job \in [Jobs -> JobRow] /\ worker \in [Workers -> WorkerRow]
  BY <1>i, Busy DEF BackfillInv, BackfillTypes
<1>t. /\ Taken(w, i) /\ worker[w].took[i] \in B!ChunkType
      /\ \A k \in DOMAIN chunk[j] : chunk[j][k] \in B!ChunkType
      /\ i \in DOMAIN chunk[j]
  <2>1. i \in DOMAIN worker[w].took
    BY <1>i, Busy
  <2> QED
    BY <1>i, <2>1, Busy DEF Taken
<1> HIDE DEF j
<1>go. ASSUME NEW to \in Steps, B!Step(w, i, to)
       PROVE  /\ worker' \in [Workers -> WorkerRow]
              /\ \A v \in Workers : worker'[v] = worker[v] \/ Shrinks(v) \/ worker'[v] = B!Idle
  <2>1. worker' = [worker EXCEPT ![w] = [worker[w] EXCEPT !.step[i] = to]]
    BY <1>go DEF B!Step
  <2> QED
    BY <1>0, <1>i, <1>d, <2>1, StepShrinks
<1>1. CASE B!Fetch(w, i) \/ B!Fault(w, i)
  <2>1. UNCHANGED <<job, chunk, record, op, stray>> /\ \E to \in Steps : B!Step(w, i, to)
    BY <1>1 DEF B!Fetch, B!Fault, Steps
  <2> QED
    BY <1>0, <1>go, <2>1, NoneGoes
<1>2. CASE B!Lost(w, i)
  <2> DEFINE st == IF chunk[j][i].status = "running" THEN "pending" ELSE chunk[j][i].status
             c == [chunk[j][i] EXCEPT !.status = st]
             f == [chunk[j] EXCEPT ![i] = c]
  <2>1. UNCHANGED <<job, record, op, stray>> /\ chunk' = [chunk EXCEPT ![j] = f] /\ B!Step(w, i, "done")
    BY <1>2 DEF B!Lost, j
  <2>2. /\ c \in B!ChunkType /\ c.window = chunk[j][i].window /\ c.token = chunk[j][i].token
        /\ c.status = "done" <=> chunk[j][i].status = "done"
    BY <1>t DEF B!ChunkType
  <2> HIDE DEF c
  <2>3. f = [k \in DOMAIN chunk[j] |-> f[k]] /\ Retouched(j, f)
    BY <1>0, <1>t, <2>2, RowRetouched
  <2> HIDE DEF f
  <2>4. /\ worker' \in [Workers -> WorkerRow]
        /\ \A v \in Workers : worker'[v] = worker[v] \/ Shrinks(v) \/ worker'[v] = B!Idle
    BY <1>go, <2>1 DEF Steps
  <2> QED
    BY <1>0, <2>1, <2>3, <2>4, ChunksGo
<1>3. CASE B!FailChunk(w, i)
  <2> DEFINE tried == worker[w].took[i].attempts + 1
             before == chunk[j][i]
             failing == worker[w].step[i]
             c1 == [before EXCEPT !.status = "pending", !.wait = TRUE]
             c2 == [before EXCEPT !.status = "failed", !.attempts = tried, !.wait = FALSE]
             c3 == [before EXCEPT !.status = "pending", !.attempts = tried, !.wait = TRUE]
             c == IF failing = "shed" THEN c1
                  ELSE IF failing = "fatal" \/ tried >= MaxAttempts THEN c2 ELSE c3
             f == [chunk[j] EXCEPT ![i] = c]
             r == IF failing = "transient" THEN B!Slowed(worker[w]) ELSE worker[w]
  <2>1. /\ UNCHANGED <<job, record, op>> /\ chunk' = [chunk EXCEPT ![j] = f]
        /\ worker' = [worker EXCEPT ![w] = [r EXCEPT !.step[i] = "done"]]
        /\ stray' = IF B!Held(w) THEN stray ELSE stray \cup {j}
    BY <1>3 DEF B!FailChunk, B!Stray, j
  <2>2. tried \in Nat /\ before \in B!ChunkType
    BY <1>t DEF B!ChunkType
  <2> HIDE DEF tried
  <2>3. /\ c1 \in B!ChunkType /\ c1.window = before.window /\ c1.token = before.token /\ c1.status = "pending"
        /\ c2 \in B!ChunkType /\ c2.window = before.window /\ c2.token = before.token /\ c2.status = "failed"
        /\ c3 \in B!ChunkType /\ c3.window = before.window /\ c3.token = before.token /\ c3.status = "pending"
    BY <2>2 DEF B!ChunkType
  <2> HIDE DEF c1, c2, c3
  <2>4. c \in B!ChunkType /\ c.window = before.window /\ c.token = before.token /\ c.status # "done"
    BY <2>3
  <2> HIDE DEF c
  <2>5. j \notin stray' => before.status # "done"
    BY <1>i, <1>d, <1>t, <2>1 DEF Taken, Active, j
  <2>6. f = [k \in DOMAIN chunk[j] |-> f[k]] /\ Retouched(j, f)
    BY <1>0, <1>t, <2>4, <2>5, RowRetouched
  <2> HIDE DEF f
  <2>7. /\ r \in WorkerRow /\ r.step = worker[w].step /\ r.stage = worker[w].stage
        /\ r.job = worker[w].job /\ r.took = worker[w].took
    <3> DEFINE slow == IF worker[w].conc < 2 THEN 1 ELSE worker[w].conc \div 2
               l == [worker[w] EXCEPT !.streak = 0, !.conc = slow]
    <3>1. worker[w].conc \in 1 .. MaxConcurrency
      BY <1>0 DEF WorkerRow
    <3>2. slow \in 1 .. MaxConcurrency
      BY <3>1, PlanAssumption
    <3> HIDE DEF slow
    <3>3. /\ l \in WorkerRow /\ l.step = worker[w].step /\ l.stage = worker[w].stage
          /\ l.job = worker[w].job /\ l.took = worker[w].took
      BY <1>0, <3>2 DEF WorkerRow
    <3>4. B!Slowed(worker[w]) = l
      BY DEF B!Slowed, slow
    <3> QED
      BY <1>0, <3>3, <3>4
  <2> HIDE DEF r
  <2>8. /\ worker' \in [Workers -> WorkerRow]
        /\ \A v \in Workers : worker'[v] = worker[v] \/ Shrinks(v) \/ worker'[v] = B!Idle
    BY <1>0, <1>i, <1>d, <2>1, <2>7, StepShrinks DEF Steps
  <2>9. stray' \in {stray, stray \cup {j}}
    BY <2>1
  <2> QED
    BY <1>0, <2>1, <2>6, <2>8, <2>9, ChunksGo
<1> QED
  BY <1>1, <1>2, <1>3

(* A worker takes chunks that are due, as it reads them.                   *)
LEMMA SelectStep == ASSUME BackfillInv, NEW w \in Workers, B!Select(w) PROVE BackfillInv'
<1> DEFINE j == B!Mine(w)
<1>0. /\ ~B!At(w, "idle") /\ UNCHANGED <<job, chunk, record, op, stray>> /\ B!At(w, "select")
      /\ BackfillTypes /\ op \in [Jobs -> {B!Nobody, "pending", "paused", "retry"}]
      /\ worker[w] \in WorkerRow
  BY DEF B!Select, B!At, BackfillInv, BackfillTypes
<1>1. /\ j \in Jobs /\ job[j].status # "none" /\ JobInv(j) /\ WorkerInv(w)
      /\ \A i \in DOMAIN chunk[j] : chunk[j][i] \in B!ChunkType
      /\ chunk[j] \in Seq(B!ChunkType)
  BY <1>0, Busy DEF BackfillInv
<1>2. ASSUME NEW to \in {"check", "finish"}, B!Goto(w, to) PROVE BackfillInv'
  BY <1>0, <1>2, StageShrinks, NoneGoes
<1>3. ASSUME NEW some \in SUBSET B!Due(j),
             worker' = [worker EXCEPT ![w].stage = "mark", ![w].took = [i \in some |-> chunk[j][i]]]
      PROVE  BackfillInv'
  <2> DEFINE m == [i \in some |-> chunk[j][i]]
             k == [worker[w] EXCEPT !.stage = "mark", !.took = m]
  <2>1. worker' = [worker EXCEPT ![w] = k]
    BY <1>3
  <2>2. \A i \in some : i \in DOMAIN chunk[j] /\ chunk[j][i].status = "pending"
    BY DEF B!Due, B!Pending
  <2>3. DOMAIN m = some /\ m \in Partial(B!ChunkType) /\ \A i \in some : m[i] = chunk[j][i]
    <3>1. DOMAIN chunk[j] \subseteq Nat
      BY <1>1
    <3> QED
      BY <1>1, <2>2, <3>1, PartialMember
  <2> HIDE DEF m
  <2>4. k \in WorkerRow /\ k.stage = "mark" /\ k.job = j /\ k.took = m
    BY <1>0, <2>3 DEF WorkerRow, B!Mine
  <2> HIDE DEF k
  <2>5. /\ worker' \in [Workers -> WorkerRow] /\ worker'[w] = k
        /\ \A v \in Workers \ {w} : worker'[v] = worker[v]
    BY <1>0, <2>1, <2>4, WorkerGoes
  <2>6. BackfillTypes'
    BY <1>0, <2>5 DEF BackfillTypes
  <2>7. \A i \in Jobs : JobInv(i)'
    BY <1>0, UnmovedSteady, CalmKeeps DEF BackfillInv, Steady
  <2>8. ASSUME NEW v \in Workers, v # w PROVE WorkerInv(v)'
    <3>1. BackfillTypes /\ WorkerInv(v) /\ Shrinks(v) /\ worker'[v] = worker[v]
      BY <1>0, <2>5, <2>8, UnmovedShrinks DEF BackfillInv
    <3>2. Grows(B!Mine(v)) /\ Untouched(v)
      BY <1>0, <3>1 DEF Grows, Untouched, B!Held, B!Mine
    <3> QED
      BY <3>1, <3>2, ShrinksKeeps
  <2>9. WorkerInv(w)'
    <3>1. B!Mine(w)' = j /\ ~B!At(w, "idle")' /\ j # B!Nobody /\ B!At(w, "mark")'
      BY <1>0, <1>1, <2>4, <2>5 DEF B!Mine, B!At, WorkerInv
    <3>2. ASSUME NEW i \in some PROVE Taken(w, i)'
      <4>1. i \in DOMAIN chunk[j] /\ chunk[j][i].status = "pending" /\ worker'[w].took[i] = chunk[j][i]
        BY <2>2, <2>3, <2>4, <2>5
      <4>2. Listed(j, i)
        BY <1>1, <4>1 DEF JobInv
      <4>4. \A t \in B!InWindow(chunk[j][i].window) :
              Rank(chunk[j][i].window, t) < chunk[j][i].token => record'[j][t] > 0
        BY <1>0, <4>2 DEF Listed
      <4>5. chunk'[j] = chunk[j]
        BY <1>0
      <4> QED
        BY <3>1, <4>1, <4>4, <4>5 DEF Taken
    <3> QED
      BY <1>0, <1>1, <2>3, <2>4, <2>5, <3>1, <3>2 DEF WorkerInv, B!At
  <2> QED
    BY <2>6, <2>7, <2>8, <2>9 DEF BackfillInv
<1> QED
  BY <1>2, <1>3 DEF B!Select, B!Chosen

(* A worker takes the lease of a job nobody holds, or whose lease ran out. *)
LEMMA ClaimStep == ASSUME BackfillInv, NEW w \in Workers, NEW j \in Jobs, B!Claim(w, j) PROVE BackfillInv'
<1> USE NobodyAssumption
<1> DEFINE r == [job[j] EXCEPT !.owner = w, !.expired = FALSE]
           many == B!Least(job[j].conc, MaxConcurrency)
           k == [B!Idle EXCEPT !.stage = "open", !.job = j, !.conc = many]
<1>0. /\ BackfillTypes /\ JobInv(j) /\ job[j] \in JobRow /\ job \in [Jobs -> JobRow]
      /\ job' = [job EXCEPT ![j] = r] /\ worker' = [worker EXCEPT ![w] = k] /\ job[j].status = "running"
      /\ UNCHANGED <<chunk, record, op, stray>>
  BY DEF BackfillInv, BackfillTypes, B!Claim, B!Claimable
<1>1. /\ r \in JobRow /\ r.from = job[j].from /\ r.to = job[j].to /\ r.status = "running" /\ r.owner = w
  BY <1>0 DEF JobRow
<1>2. k \in WorkerRow /\ k.stage = "open" /\ k.job = j /\ DOMAIN k.took = {}
  <2>1. job[j].conc \in 1 .. MaxConcurrency
    BY <1>0 DEF JobRow
  <2>2. many \in 1 .. MaxConcurrency
    BY <2>1, PlanAssumption DEF B!Least
  <2> HIDE DEF many
  <2> QED
    BY <2>2, NothingPartial DEF B!Idle, WorkerRow
<1> HIDE DEF r, k
<1>3. job' \in [Jobs -> JobRow] /\ job'[j] = r /\ \A h \in Jobs \ {j} : job'[h] = job[h]
  BY <1>0, <1>1
<1>4. /\ worker' \in [Workers -> WorkerRow] /\ worker'[w] = k
      /\ \A v \in Workers \ {w} : worker'[v] = worker[v]
  BY <1>0, <1>2, WorkerGoes
<1>5. BackfillTypes'
  BY <1>0, <1>3, <1>4 DEF BackfillTypes
<1>6. Calm(j) /\ \A h \in Jobs \ {j} : Calm(h)
  <2>1. Calm(j)
    BY <1>0, <1>1, <1>3 DEF Calm, Grows
  <2>2. ASSUME NEW h \in Jobs \ {j} PROVE Calm(h)
    <3>1. JobInv(h)
      BY DEF BackfillInv
    <3> QED
      BY <1>0, <1>3, <3>1, UnmovedSteady DEF Steady
  <2> QED
    BY <2>1, <2>2
<1>7. \A h \in Jobs : JobInv(h)'
  BY <1>6, CalmKeeps DEF BackfillInv
<1>8. ASSUME NEW v \in Workers, v # w PROVE WorkerInv(v)'
  <2>1. WorkerInv(v) /\ Shrinks(v) /\ worker'[v] = worker[v]
    BY <1>4, <1>8, UnmovedShrinks DEF BackfillInv
  <2>2. ~B!At(v, "idle") => B!Mine(v) \in Jobs
    BY <1>0, <2>1 DEF WorkerInv, BackfillTypes, WorkerRow, B!Mine
  <2>3. ~B!At(v, "idle") => Grows(B!Mine(v))
    BY <1>6, <2>2 DEF Calm
  <2>4. Untouched(v)
    <3> SUFFICES ASSUME NEW i \in DOMAIN worker'[v].took, B!Held(v)', Active(v, i)'
                 PROVE  /\ B!Held(v)
                        /\ chunk'[B!Mine(v)][i] = chunk[B!Mine(v)][i]
      BY DEF Untouched
    <3>1. ~B!At(v, "idle")
      BY <2>1 DEF Active, B!At
    <3>2. B!Mine(v) \in Jobs /\ B!Mine(v) # j /\ job'[B!Mine(v)].owner = v
      BY <1>1, <1>3, <1>8, <2>1, <2>2, <3>1 DEF B!Held, B!Mine
    <3> QED
      BY <1>0, <1>3, <3>2 DEF B!Held, B!Mine
  <2> QED
    BY <1>0, <2>1, <2>3, <2>4, ShrinksKeeps
<1>9. WorkerInv(w)'
  BY <1>1, <1>2, <1>3, <1>4 DEF WorkerInv, B!At, B!Mine
<1> QED
  BY <1>5, <1>7, <1>8, <1>9 DEF BackfillInv

(* A page is listed together with the progress of its chunk: the lease the *)
(* transaction looks at again is what makes the list exact.                *)
LEMMA CommitStep ==
  ASSUME BackfillInv, NEW w \in Workers, NEW i \in 1 .. MaxChunks, B!Commit(w, i) PROVE BackfillInv'
<1> USE NobodyAssumption
<1>i. B!At(w, "steps") /\ ~B!At(w, "idle") /\ i \in DOMAIN worker[w].step /\ worker[w].step[i] = "commit"
  BY DEF B!Commit, B!Stepping, B!At
<1>j. PICK j \in Jobs : j = B!Mine(w)
  BY <1>i, Busy
<1> DEFINE taken == worker[w].took[i]
           more == B!HasMore(taken.window, taken.token)
           W == chunk[j][i].window
           n == taken.token
<1>0. /\ j \in Jobs /\ job[j].status # "none" /\ job[j] \in JobRow /\ JobInv(j) /\ WorkerInv(w)
      /\ worker[w] \in WorkerRow /\ BackfillTypes /\ op \in [Jobs -> {B!Nobody, "pending", "paused", "retry"}]
      /\ job \in [Jobs -> JobRow] /\ worker \in [Workers -> WorkerRow] /\ chunk \in [Jobs -> Seq(B!ChunkType)]
      /\ record \in [Jobs -> [Times -> Nat]] /\ record[j] \in [Times -> Nat] /\ chunk[j] \in Seq(B!ChunkType)
  BY <1>i, <1>j, Busy DEF BackfillInv, BackfillTypes
<1>t. /\ Taken(w, i) /\ taken \in B!ChunkType /\ i \in DOMAIN chunk[j] /\ chunk[j][i] \in B!ChunkType
      /\ \A k \in DOMAIN chunk[j] : chunk[j][k] \in B!ChunkType
      /\ taken.window = W /\ n \in Nat
      /\ DOMAIN worker[w].step = DOMAIN worker[w].took
  <2>1. i \in DOMAIN worker[w].took /\ DOMAIN worker[w].step = DOMAIN worker[w].took
    BY <1>i, Busy
  <2>2. /\ Taken(w, i) /\ taken \in B!ChunkType /\ i \in DOMAIN chunk[j]
        /\ \A k \in DOMAIN chunk[j] : chunk[j][k] \in B!ChunkType
        /\ taken.window = W
    BY <1>i, <1>j, <2>1, Busy DEF Taken
  <2> QED
    BY <2>1, <2>2 DEF B!ChunkType
<1>u. UNCHANGED <<job, op, stray>>
  BY DEF B!Commit
<1> HIDE DEF W, n, more
<1>1. CASE ~B!Guard(w)
  <2>1. UNCHANGED <<job, chunk, record, op, stray>> /\ B!Step(w, i, "lost")
    BY <1>1 DEF B!Commit
  <2>2. worker' = [worker EXCEPT ![w] = [worker[w] EXCEPT !.step[i] = "lost"]]
    BY <2>1 DEF B!Step
  <2>3. worker[w].step[i] # "done" /\ "lost" \in Steps
    BY <1>i DEF Steps
  <2>4. /\ worker' \in [Workers -> WorkerRow]
        /\ \A v \in Workers : worker'[v] = worker[v] \/ Shrinks(v) \/ worker'[v] = B!Idle
    BY <1>0, <1>i, <2>2, <2>3, StepShrinks
  <2> QED
    BY <1>0, <2>1, <2>4, NoneGoes
<1>2. CASE B!Guard(w)
  <2> DEFINE st == IF more THEN "pending" ELSE "done"
             tok == IF more THEN n + 1 ELSE 0
             c == [chunk[j][i] EXCEPT !.status = st, !.token = tok, !.pages = 1, !.attempts = 0, !.wait = FALSE]
             f == [chunk[j] EXCEPT ![i] = c]
             l == B!Sped(worker[w])
             q == [t \in Times |-> IF t \in B!Page(taken.window, n) THEN record[j][t] + 1 ELSE record[j][t]]
  <2>1. /\ record' = [record EXCEPT ![j] = q] /\ chunk' = [chunk EXCEPT ![j] = f]
        /\ worker' = [worker EXCEPT ![w] = [l EXCEPT !.step[i] = "done"]]
    BY <1>j, <1>2 DEF B!Commit, n, more
  <2>2. B!Held(w)
    BY <1>2 DEF B!Guard
  <2>3. /\ c \in B!ChunkType /\ c.window = W /\ c.token = tok /\ c.status = st
    <3>1. tok \in Nat /\ st \in {"pending", "done"}
      BY <1>t
    <3> HIDE DEF tok, st
    <3> QED
      BY <1>t, <3>1 DEF B!ChunkType, W
  <2> HIDE DEF c
  <2>4. /\ f = [k \in DOMAIN chunk[j] |-> f[k]] /\ f[i] = c
        /\ \A k \in DOMAIN chunk[j] \ {i} : f[k] = chunk[j][k]
        /\ \A k \in DOMAIN chunk[j] : f[k] \in B!ChunkType
    BY <1>0, <1>t, <2>3
  <2> HIDE DEF f
  <2>5. /\ chunk' \in [Jobs -> Seq(B!ChunkType)] /\ DOMAIN chunk'[j] = DOMAIN chunk[j] /\ chunk'[j] = f
        /\ \A k \in Jobs \ {j} : chunk'[k] = chunk[k]
    BY <1>0, <2>1, <2>4, ChunkGoes
  <2>6. /\ q \in [Times -> Nat] /\ \A t \in Times \ B!Page(W, n) : q[t] = record[j][t]
        /\ \A t \in Times : t \in B!Page(W, n) => q[t] = record[j][t] + 1
        /\ \A t \in Times : record[j][t] \in Nat /\ q[t] \in Nat /\ q[t] >= record[j][t]
    BY <1>0, <1>t DEF n
  <2> HIDE DEF q
  <2>7. /\ record' \in [Jobs -> [Times -> Nat]] /\ record'[j] = q /\ \A k \in Jobs \ {j} : record'[k] = record[k]
    BY <1>0, <2>1, <2>6
  <2>8. /\ l \in WorkerRow /\ l.step = worker[w].step /\ l.stage = worker[w].stage
        /\ l.job = worker[w].job /\ l.took = worker[w].took
    <3> DEFINE up == B!Least(MaxConcurrency, worker[w].conc + 1)
               l1 == [worker[w] EXCEPT !.streak = worker[w].streak + 1]
               l2 == [worker[w] EXCEPT !.streak = 0, !.conc = up]
    <3>1. worker[w].conc \in 1 .. MaxConcurrency /\ worker[w].streak \in Nat
      BY <1>0 DEF WorkerRow
    <3>2. up \in 1 .. MaxConcurrency /\ worker[w].streak + 1 \in Nat
      BY <3>1, PlanAssumption DEF B!Least
    <3>3. l = l1 \/ l = l2
      BY DEF B!Sped
    <3> HIDE DEF up
    <3>4. /\ l1 \in WorkerRow /\ l1.step = worker[w].step /\ l1.stage = worker[w].stage
          /\ l1.job = worker[w].job /\ l1.took = worker[w].took
          /\ l2 \in WorkerRow /\ l2.step = worker[w].step /\ l2.stage = worker[w].stage
          /\ l2.job = worker[w].job /\ l2.took = worker[w].took
      BY <1>0, <3>2 DEF WorkerRow
    <3> QED
      BY <3>3, <3>4
  <2> HIDE DEF l
  <2>9. /\ worker' \in [Workers -> WorkerRow] /\ Shrinks(w) /\ ~Active(w, i)'
        /\ \A v \in Workers \ {w} : worker'[v] = worker[v]
    <3>1. worker[w].step[i] # "done" /\ "done" \in Steps
      BY <1>i DEF Steps
    <3>2. PICK r \in WorkerRow : r = l
      BY <2>8
    <3>3. /\ r.step = worker[w].step /\ r.stage = worker[w].stage
          /\ r.job = worker[w].job /\ r.took = worker[w].took
          /\ worker' = [worker EXCEPT ![w] = [r EXCEPT !.step[i] = "done"]]
      BY <2>1, <2>8, <3>2
    <3> HIDE DEF taken
    <3>4. worker' \in [Workers -> WorkerRow]
      BY <1>i, <3>1, <3>2, <3>3, StepShrinks
    <3>5. Shrinks(w)
      BY <1>i, <3>1, <3>2, <3>3, StepShrinks
    <3>6. ~Active(w, i)'
      BY <1>i, <3>1, <3>2, <3>3, StepShrinks
    <3>8. \A v \in Workers \ {w} : worker'[v] = worker[v]
      BY <1>i, <3>1, <3>2, <3>3, StepShrinks
    <3> QED
      BY <3>4, <3>5, <3>6, <3>8
  <2>10. BackfillTypes'
    BY <1>0, <1>u, <2>5, <2>7, <2>9 DEF BackfillTypes
  <2>11. Grows(j) /\ \A h \in Jobs \ {j} : Grows(h) /\ Calm(h)
    <3>1. Grows(j)
      <4>1. \A k \in DOMAIN chunk[j] : chunk'[j][k].window = chunk[j][k].window
        BY <2>3, <2>4, <2>5 DEF W
      <4>2. \A t \in Times : record[j][t] > 0 => record'[j][t] > 0
        BY <2>6, <2>7
      <4> QED
        BY <1>u, <2>5, <4>1, <4>2 DEF Grows
    <3>2. ASSUME NEW h \in Jobs \ {j} PROVE Calm(h)
      <4>1. JobInv(h)
        BY DEF BackfillInv
      <4> QED
        BY <1>u, <2>5, <2>7, <4>1, UnmovedSteady DEF Steady
    <3> QED
      BY <3>1, <3>2 DEF Calm

(* What the chunk has passed after the commit.                             *)
  <2>12. /\ \A t \in B!InWindow(W) : /\ t \in Times /\ Rank(W, t) \in Nat
                                     /\ t \in B!Page(W, n) <=> Rank(W, t) = n
                                     /\ ~more => Rank(W, t) <= n
         /\ \A t \in B!Page(W, n) : t \in B!InWindow(W)
    <3>1. ASSUME NEW t \in B!InWindow(W)
          PROVE  /\ t \in Times /\ Rank(W, t) \in Nat
                 /\ t \in B!Page(W, n) <=> Rank(W, t) = n
                 /\ ~more => Rank(W, t) <= n
      <4> DEFINE card == Cardinality(B!InWindow(W))
                 rank == Rank(W, t)
      <4>1. rank \in Nat /\ card \in Nat /\ rank < card
        BY RankBound
      <4>2. ~more => ~(card > n + 1)
        BY <1>t, PageCounts DEF B!HasMore, more, n
      <4>3. t \in Times /\ (t \in B!Page(W, n) <=> rank = n)
        BY PageCounts DEF B!Page, B!InWindow, Rank
      <4> HIDE DEF card, rank
      <4>4. ~more => rank <= n
        BY <1>t, <4>1, <4>2
      <4> QED
        BY <4>1, <4>3, <4>4 DEF rank
    <3>2. \A t \in B!Page(W, n) : t \in B!InWindow(W)
      BY DEF B!Page
    <3> HIDE DEF more
    <3> QED
      BY <3>1, <3>2
  <2>13. Listed(j, i)'
    <3>1. \A t \in B!InWindow(W) : Rank(W, t) < n => record[j][t] > 0
      BY <1>j, <1>t DEF Taken, n
    <3>2. ASSUME NEW t \in B!InWindow(W), st = "done" \/ Rank(W, t) < tok PROVE q[t] > 0
      <4>1. t \in Times /\ Rank(W, t) \in Nat /\ (t \in B!Page(W, n) <=> Rank(W, t) = n) /\ Rank(W, t) <= n
        BY <1>t, <2>12, <3>2
      <4>2. CASE Rank(W, t) = n
        BY <2>6, <4>1, <4>2
      <4>3. CASE Rank(W, t) < n
        BY <2>6, <3>1, <4>1, <4>3
      <4> QED
        BY <1>t, <4>1, <4>2, <4>3
    <3>3. f[i] = c /\ c.window = W /\ c.status = st /\ c.token = tok
      BY <2>3, <2>4
    <3> HIDE DEF st, tok
    <3>4. chunk'[j][i].window = W /\ chunk'[j][i].status = st /\ chunk'[j][i].token = tok
      BY <2>5, <3>3
    <3> QED
      BY <2>7, <3>2, <3>4 DEF Listed
  <2>14. /\ DOMAIN chunk'[j] = DOMAIN chunk[j] /\ record'[j] = q
         /\ \A k \in DOMAIN chunk[j] \ {i} : chunk'[j][k] = chunk[j][k]
         /\ \A t \in Times : record[j][t] > 0 => q[t] > 0
    <3>1. \A t \in Times : record[j][t] > 0 => q[t] > 0
      BY <2>6
    <3> QED
      BY <2>4, <2>5, <2>7, <3>1
  <2>15. ASSUME NEW k \in DOMAIN chunk[j], k # i PROVE Listed(j, k)'
    <3>1. Listed(j, k) /\ chunk'[j][k] = chunk[j][k]
      BY <1>0, <2>14, <2>15 DEF JobInv
    <3>2. B!InWindow(chunk[j][k].window) \subseteq Times
      BY DEF B!InWindow
    <3> QED
      BY <2>14, <3>1, <3>2 DEF Listed
  <2>16. Planned(j) /\ Planned(j)'
    BY <1>0, <2>11, PlannedKept DEF JobInv
  <2>17. ASSUME j \notin stray
         PROVE  /\ \A k \in DOMAIN chunk[j] : ListedOnce(j, k)'
                /\ \A t \in Times : ~JobAsked(j, t)' => record'[j][t] = 0
    <3>1. /\ chunk[j][i].status # "done" /\ chunk[j][i].token = n
          /\ \A k \in DOMAIN chunk[j] : ListedOnce(j, k)
          /\ \A t \in Times : ~JobAsked(j, t) => record[j][t] = 0
      BY <1>0, <1>i, <1>j, <1>t, <2>2, <2>17 DEF Taken, Active, JobInv, n
    <3>2. ListedOnce(j, i)'
      <4>1. chunk'[j][i].window = W /\ chunk'[j][i].status = st /\ chunk'[j][i].token = tok
        BY <2>3, <2>4, <2>5
      <4>2. \A t \in B!InWindow(W) : record[j][t] <= 1 /\ (Rank(W, t) >= n => record[j][t] = 0)
        BY <1>t, <3>1 DEF ListedOnce, W
      <4>3. ASSUME NEW t \in B!InWindow(W)
            PROVE  q[t] <= 1 /\ (st # "done" /\ Rank(W, t) >= tok => q[t] = 0)
        <5>1. t \in Times /\ Rank(W, t) \in Nat /\ (t \in B!Page(W, n) <=> Rank(W, t) = n)
          BY <2>12
        <5>2. (st # "done" => tok = n + 1) /\ record[j][t] \in Nat /\ n \in Nat
          BY <1>t, <2>6, <5>1
        <5> HIDE DEF st, tok
        <5>3. CASE Rank(W, t) = n
          BY <2>6, <4>2, <5>1, <5>2, <5>3
        <5>4. CASE Rank(W, t) # n
          BY <2>6, <4>2, <5>1, <5>2, <5>4
        <5> QED
          BY <5>3, <5>4
      <4> HIDE DEF st, tok
      <4> QED
        BY <2>7, <4>1, <4>3 DEF ListedOnce
    <3>3. ASSUME NEW k \in DOMAIN chunk[j], k # i PROVE ListedOnce(j, k)'
      <4>1. ListedOnce(j, k) /\ chunk'[j][k] = chunk[j][k]
        BY <2>14, <3>1, <3>3
      <4>2. \A t \in B!InWindow(chunk[j][k].window) : t \in Times /\ t \notin B!InWindow(W)
        BY <1>t, <2>16, <3>3 DEF Planned, B!InWindow, W
      <4>3. \A t \in B!InWindow(chunk[j][k].window) : q[t] = record[j][t]
        BY <2>6, <2>12, <4>2
      <4> QED
        BY <2>14, <4>1, <4>3 DEF ListedOnce
    <3>4. ASSUME NEW t \in Times, ~JobAsked(j, t)' PROVE record'[j][t] = 0
      <4>1. ~JobAsked(j, t)
        BY <2>11, <3>4, GrowsKeeps
      <4>2. t \notin B!InWindow(W)
        BY <1>t, <2>16, <4>1 DEF Planned, W
      <4> QED
        BY <2>6, <2>12, <2>14, <3>1, <4>1, <4>2
    <3> QED
      BY <3>2, <3>3, <3>4
  <2>18. JobInv(j)'
    <3>1. AllListed(j) => AllListed(j)'
      BY <2>11, GrowsKeeps
    <3> QED
      BY <1>0, <1>u, <2>13, <2>14, <2>15, <2>16, <2>17, <3>1 DEF JobInv
  <2>19. ASSUME NEW h \in Jobs PROVE JobInv(h)'
    <3>1. CASE h = j
      BY <2>18, <3>1
    <3>2. CASE h # j
      <4>1. Calm(h) /\ JobInv(h)
        BY <2>11, <3>2 DEF BackfillInv
      <4> QED
        BY <4>1, CalmKeeps
    <3> QED
      BY <3>1, <3>2
  <2>20. ASSUME NEW v \in Workers PROVE WorkerInv(v)'
    <3>1. WorkerInv(v) /\ Shrinks(v)
      BY <2>9, UnmovedShrinks DEF BackfillInv
    <3>2. ~B!At(v, "idle") => B!Mine(v) \in Jobs
      BY <1>0, <3>1 DEF WorkerInv, BackfillTypes, WorkerRow, B!Mine
    <3>3. ~B!At(v, "idle") => Grows(B!Mine(v))
      BY <2>11, <3>2
    <3>4. Untouched(v)
      <4> SUFFICES ASSUME NEW k \in DOMAIN worker'[v].took, B!Held(v)', Active(v, k)'
                   PROVE  /\ B!Held(v)
                          /\ chunk'[B!Mine(v)][k] = chunk[B!Mine(v)][k]
        BY DEF Untouched
      <4>1. worker'[v].job = B!Mine(v) /\ worker'[v].took = worker[v].took /\ Active(v, k)
        BY <3>1 DEF Shrinks, B!Mine
      <4>2. ~B!At(v, "idle") /\ B!Mine(v) \in Jobs
        BY <3>2, <4>1 DEF Active, B!At
      <4>3. B!Held(v)
        BY <1>u, <4>1 DEF B!Held, B!Mine
      <4>4. CASE B!Mine(v) # j
        BY <2>5, <4>2, <4>3, <4>4
      <4>5. CASE B!Mine(v) = j
        <5>1. v = w /\ k # i
          BY <1>j, <2>2, <2>9, <4>3, <4>5 DEF B!Held, B!Mine
        <5>2. k \in DOMAIN chunk[j]
          BY <3>1, <4>1, <4>2, <4>5 DEF WorkerInv, Taken
        <5> QED
          BY <2>14, <4>3, <4>5, <5>1, <5>2
      <4> QED
        BY <4>4, <4>5
    <3> QED
      BY <1>0, <3>1, <3>3, <3>4, ShrinksKeeps
  <2> QED
    BY <2>10, <2>19, <2>20 DEF BackfillInv
<1> QED
  BY <1>1, <1>2

(* A plan covers the range, and no time is in two of its windows.          *)
LEMMA PlanIsExact ==
  ASSUME NEW begun \in Nat, NEW to \in Nat, NEW length \in Nat \ {0},
         B!floorToMinute(begun) < B!floorToMinute(to),
         NEW plan, plan = B!planChunks(begun, to, length)
  PROVE  /\ B!floorToMinute(begun) \in Nat /\ B!floorToMinute(to) \in Nat
         /\ DOMAIN plan \subseteq Nat /\ \E m \in Nat : DOMAIN plan = 1 .. m
         /\ \A i \in DOMAIN plan : plan[i] \in [start : Nat, end : Nat]
         /\ \A t \in Times : B!floorToMinute(begun) <= t /\ t < B!floorToMinute(to) =>
                               \E i \in DOMAIN plan : t \in B!InWindow(plan[i])
         /\ \A i \in DOMAIN plan : \A t \in B!InWindow(plan[i]) :
               B!floorToMinute(begun) <= t /\ t < B!floorToMinute(to)
         /\ \A i, k \in DOMAIN plan : \A t \in B!InWindow(plan[i]) : t \in B!InWindow(plan[k]) => i = k
<1> DEFINE start == B!floorToMinute(begun)
           end == B!floorToMinute(to)
           m == B!Count(end - start, length)
<1>1. start \in Nat /\ end \in Nat
  <2>1. ASSUME NEW x \in Nat PROVE (x \div Minute) * Minute \in Nat
    <3>1. x \div Minute \in Nat /\ Minute \in Nat
      BY PlanAssumption, Quotient
    <3> QED
      BY <3>1
  <2> QED
    BY <2>1 DEF B!floorToMinute
<1>2. start < end
  OBVIOUS
<1> HIDE DEF start, end
<1>3. m \in Nat
  <2>1. end - start + length - 1 \in Nat
    BY <1>1, <1>2
  <2> QED
    BY <2>1, Quotient DEF B!Count
<1>4. plan = [i \in 1 .. m |-> [start |-> JobBegins(start, i - 1, length),
                               end |-> B!Least(JobBegins(start, i, length), end)]]
  BY DEF B!planChunks, JobBegins, start, end
<1> HIDE DEF m
<1>5. DOMAIN plan = 1 .. m
  BY <1>4
<1>6. ASSUME NEW i \in 1 .. m
      PROVE  /\ plan[i] \in [start : Nat, end : Nat] /\ i \in Nat \ {0} /\ i - 1 \in Nat
             /\ start <= JobBegins(start, i - 1, length)
             /\ \A t \in Times : t \in B!InWindow(plan[i]) <=>
                  JobBegins(start, i - 1, length) <= t /\ t < B!Least(JobBegins(start, i, length), end)
             /\ \A t \in Times : t < B!Least(JobBegins(start, i, length), end) <=>
                                   t < JobBegins(start, i, length) /\ t < end
  <2>1. i \in Nat \ {0} /\ i - 1 \in Nat /\ i * length \in Nat /\ (i - 1) * length \in Nat
    BY <1>3
  <2>2. /\ JobBegins(start, i - 1, length) \in Nat /\ JobBegins(start, i, length) \in Nat
        /\ start <= JobBegins(start, i - 1, length)
    BY <1>1, <2>1 DEF JobBegins
  <2> DEFINE b == JobBegins(start, i - 1, length)
             e == JobBegins(start, i, length)
  <2>3. b \in Nat /\ e \in Nat
    BY <2>2
  <2>4. plan[i] = [start |-> b, end |-> B!Least(e, end)]
    BY <1>4
  <2> HIDE DEF b, e
  <2>5. B!Least(e, end) \in Nat /\ \A t \in Nat : t < B!Least(e, end) <=> t < e /\ t < end
    BY <1>1, <2>3 DEF B!Least
  <2>6. plan[i].start = b /\ plan[i].end = B!Least(e, end) /\ plan[i] \in [start : Nat, end : Nat]
    BY <2>3, <2>4, <2>5
  <2>7. \A t \in Times : t \in B!InWindow(plan[i]) <=> b <= t /\ t < B!Least(e, end)
    BY <2>6 DEF B!InWindow
  <2> QED
    BY <2>1, <2>2, <2>5, <2>6, <2>7, TimesAssumption DEF b, e
<1>7. ASSUME NEW t \in Times, start <= t, t < end PROVE \E i \in DOMAIN plan : t \in B!InWindow(plan[i])
  <2>1. t \in Nat
    BY TimesAssumption
  <2>2. PICK i \in 1 .. m : JobBegins(start, i - 1, length) <= t /\ t < B!Least(JobBegins(start, i, length), end)
    BY <1>1, <1>2, <1>7, <2>1, PlanCovers DEF m
  <2> QED
    BY <1>5, <1>6, <2>2
<1>8. ASSUME NEW i \in DOMAIN plan, NEW t \in B!InWindow(plan[i])
      PROVE  start <= t /\ t < end /\ t \in Times /\ JobBegins(start, i - 1, length) <= t /\ t < JobBegins(start, i, length)
  <2>1. t \in Times /\ t \in Nat
    BY TimesAssumption DEF B!InWindow
  <2>2. /\ i \in Nat \ {0} /\ i - 1 \in Nat /\ start <= JobBegins(start, i - 1, length)
        /\ JobBegins(start, i - 1, length) <= t /\ t < JobBegins(start, i, length) /\ t < end
    BY <1>5, <1>6, <2>1
  <2>3. (i - 1) * length \in Nat
    BY <2>2
  <2>4. JobBegins(start, i - 1, length) \in Nat
    BY <1>1, <2>3 DEF JobBegins
  <2> QED
    BY <1>1, <2>1, <2>2, <2>4
<1>9. ASSUME NEW i \in DOMAIN plan, NEW k \in DOMAIN plan, NEW t \in B!InWindow(plan[i]),
             t \in B!InWindow(plan[k])
      PROVE  i = k
  <2>1. t \in Nat /\ i \in Nat \ {0} /\ k \in Nat \ {0}
    BY <1>5, <1>6, <1>8, TimesAssumption
  <2>2. /\ JobBegins(start, i - 1, length) <= t /\ t < JobBegins(start, i, length)
        /\ JobBegins(start, k - 1, length) <= t /\ t < JobBegins(start, k, length)
    BY <1>8, <1>9
  <2> QED
    BY <1>1, <2>1, <2>2, PlanSeparates
<1> QED
  BY <1>1, <1>3, <1>5, <1>6, <1>7, <1>8, <1>9 DEF start, end

(* A job is created with its plan.                                         *)
LEMMA CreateStep ==
  ASSUME BackfillInv, NEW j \in Jobs, NEW range \in Ranges, B!Create(j, range) PROVE BackfillInv'
<1> USE NobodyAssumption
<1> DEFINE begun == range[1]
           to == range[2]
           length == range[3]
           plan == B!planChunks(begun, to, length)
           fresh(i) == [window |-> plan[i], status |-> "pending", token |-> 0, pages |-> 0, attempts |-> 0,
                        wait |-> FALSE]
           f == [i \in DOMAIN plan |-> fresh(i)]
           r == [B!NoJob EXCEPT !.status = "pending", !.from = B!floorToMinute(begun), !.to = B!floorToMinute(to)]
<1>0. /\ begun \in Nat /\ to \in Nat /\ length \in Nat \ {0} /\ B!floorToMinute(begun) < B!floorToMinute(to)
      /\ job[j].status = "none" /\ job' = [job EXCEPT ![j] = r] /\ chunk' = [chunk EXCEPT ![j] = f]
      /\ UNCHANGED <<record, worker, op, stray>>
  <2>1. begun \in Nat /\ to \in Nat /\ length \in Nat \ {0}
    BY PlanAssumption
  <2> QED
    BY <2>1 DEF B!Create, B!Plannable
<1>1. /\ BackfillTypes /\ JobInv(j) /\ job \in [Jobs -> JobRow] /\ chunk \in [Jobs -> Seq(B!ChunkType)]
      /\ record \in [Jobs -> [Times -> Nat]]
  BY DEF BackfillInv, BackfillTypes
<1> HIDE DEF begun, to, length
<1>2. /\ B!floorToMinute(begun) \in Nat /\ B!floorToMinute(to) \in Nat
      /\ DOMAIN plan \subseteq Nat /\ \E m \in Nat : DOMAIN plan = 1 .. m
      /\ \A i \in DOMAIN plan : plan[i] \in [start : Nat, end : Nat]
      /\ \A t \in Times : B!floorToMinute(begun) <= t /\ t < B!floorToMinute(to) =>
                            \E i \in DOMAIN plan : t \in B!InWindow(plan[i])
      /\ \A i \in DOMAIN plan : \A t \in B!InWindow(plan[i]) :
            B!floorToMinute(begun) <= t /\ t < B!floorToMinute(to)
      /\ \A i, k \in DOMAIN plan : \A t \in B!InWindow(plan[i]) : t \in B!InWindow(plan[k]) => i = k
  BY <1>0, PlanIsExact
<1> HIDE DEF plan
<1>3. /\ DOMAIN f = DOMAIN plan /\ f \in Seq(B!ChunkType)
      /\ \A i \in DOMAIN plan : f[i].window = plan[i] /\ f[i].status = "pending" /\ f[i].token = 0
  <2>1. ASSUME NEW i \in DOMAIN plan
        PROVE  /\ fresh(i) \in B!ChunkType /\ fresh(i).window = plan[i] /\ fresh(i).status = "pending"
               /\ fresh(i).token = 0
    BY <1>2 DEF B!ChunkType
  <2> HIDE DEF fresh
  <2>2. PICK m \in Nat : DOMAIN plan = 1 .. m
    BY <1>2
  <2>3. f \in [1 .. m -> B!ChunkType] /\ DOMAIN f = DOMAIN plan /\ \A i \in DOMAIN plan : f[i] = fresh(i)
    BY <2>1, <2>2
  <2> HIDE DEF f
  <2>4. f \in Seq(B!ChunkType)
    BY <2>2, <2>3, SeqDef
  <2> QED
    BY <2>1, <2>3, <2>4
<1>4. /\ r \in JobRow /\ r.status = "pending" /\ r.from = B!floorToMinute(begun) /\ r.to = B!floorToMinute(to)
  <2> DEFINE start == B!floorToMinute(begun)
             end == B!floorToMinute(to)
  <2>1. start \in Nat /\ end \in Nat /\ 1 \in 1 .. MaxConcurrency
    BY <1>2, PlanAssumption
  <2> HIDE DEF start, end
  <2>2. B!NoJob \in JobRow
    BY <2>1 DEF B!NoJob, JobRow, B!Finals
  <2>3. r = [B!NoJob EXCEPT !.status = "pending", !.from = start, !.to = end]
    BY DEF start, end
  <2> HIDE DEF r
  <2>4. r \in JobRow /\ r.status = "pending" /\ r.from = start /\ r.to = end
    BY <2>1, <2>2, <2>3 DEF JobRow
  <2> QED
    BY <2>4 DEF start, end
<1> HIDE DEF f, r
<1>5. /\ job' \in [Jobs -> JobRow] /\ job'[j] = r /\ \A h \in Jobs \ {j} : job'[h] = job[h]
      /\ chunk' \in [Jobs -> Seq(B!ChunkType)] /\ chunk'[j] = f /\ \A h \in Jobs \ {j} : chunk'[h] = chunk[h]
  BY <1>0, <1>1, <1>3, <1>4
<1>6. BackfillTypes'
  BY <1>0, <1>1, <1>5 DEF BackfillTypes
<1>7. JobInv(j)'
  <2>1. Planned(j)'
    BY <1>2, <1>3, <1>4, <1>5 DEF Planned, JobAsked
  <2>2. j \notin stray => \A t \in Times : record[j][t] = 0
    <3>1. ASSUME NEW t \in Times PROVE ~JobAsked(j, t)
      <4>1. job[j].to = 0 /\ t \in Nat /\ job[j].from \in Nat
        BY <1>0, <1>1, TimesAssumption DEF JobInv, JobRow
      <4> QED
        BY <4>1 DEF JobAsked
    <3> QED
      BY <1>1, <3>1 DEF JobInv
  <2>3. ASSUME NEW i \in DOMAIN f PROVE Listed(j, i)' /\ (j \notin stray => ListedOnce(j, i)')
    <3>1. /\ chunk'[j][i].status = "pending" /\ chunk'[j][i].token = 0
          /\ B!InWindow(chunk'[j][i].window) \subseteq Times
      BY <1>3, <1>5, <2>3 DEF B!InWindow
    <3>2. \A t \in B!InWindow(chunk'[j][i].window) : Rank(chunk'[j][i].window, t) \in Nat
      BY RankBound
    <3>3. Listed(j, i)'
      BY <3>1, <3>2 DEF Listed
    <3>4. j \notin stray => ListedOnce(j, i)'
      BY <1>0, <2>2, <3>1 DEF ListedOnce
    <3> QED
      BY <3>3, <3>4
  <2> QED
    BY <1>0, <1>1, <1>4, <1>5, <2>1, <2>2, <2>3 DEF JobInv
<1>8. ASSUME NEW h \in Jobs PROVE JobInv(h)'
  <2>1. CASE h # j
    <3>1. JobInv(h)
      BY DEF BackfillInv
    <3>2. Calm(h)
      BY <1>0, <1>5, <2>1, <3>1, UnmovedSteady DEF Steady
    <3> QED
      BY <3>1, <3>2, CalmKeeps
  <2> QED
    BY <1>7, <2>1
<1>9. ASSUME NEW v \in Workers PROVE WorkerInv(v)'
  <2>1. WorkerInv(v) /\ worker'[v] = worker[v] /\ Shrinks(v)
    BY <1>0, UnmovedShrinks DEF BackfillInv
  <2>2. ~B!At(v, "idle") => B!Mine(v) \in Jobs /\ B!Mine(v) # j
    BY <1>0, <1>1, <2>1 DEF WorkerInv, BackfillTypes, WorkerRow, B!Mine
  <2>3. ~B!At(v, "idle") => Grows(B!Mine(v))
    BY <1>0, <1>5, <2>2 DEF Grows
  <2>4. Untouched(v)
    <3> SUFFICES ASSUME NEW k \in DOMAIN worker'[v].took, B!Held(v)', Active(v, k)'
                 PROVE  /\ B!Held(v)
                        /\ chunk'[B!Mine(v)][k] = chunk[B!Mine(v)][k]
      BY DEF Untouched
    <3>1. ~B!At(v, "idle")
      BY <2>1 DEF Active, B!At
    <3> QED
      BY <1>5, <2>1, <2>2, <3>1 DEF B!Held, B!Mine
  <2> QED
    BY <1>1, <2>1, <2>3, <2>4, ShrinksKeeps
<1> QED
  BY <1>6, <1>8, <1>9 DEF BackfillInv

(* Every step keeps the invariant.                                         *)
LEMMA BackfillStep == BackfillInv /\ [B!Next]_(B!vars) => BackfillInv'
<1> SUFFICES ASSUME BackfillInv, [B!Next]_(B!vars) PROVE BackfillInv'
  OBVIOUS
<1>1. ASSUME NEW j \in Jobs, NEW range \in Ranges, B!Create(j, range) PROVE BackfillInv'
  BY <1>1, CreateStep
<1>2. ASSUME NEW j \in Jobs,
             \/ B!Activate(j) \/ B!Run(j) \/ B!Pause(j) \/ B!Cancel(j) \/ B!RetryFailed(j) \/ B!Requeue(j)
             \/ B!LeaseExpires(j) \/ \E i \in 1 .. MaxChunks : B!BackoffEnds(j, i)
      PROVE  BackfillInv'
  BY <1>2, OperatorSteps
<1>3. ASSUME NEW w \in Workers, NEW j \in Jobs, B!Claim(w, j) PROVE BackfillInv'
  BY <1>3, ClaimStep
<1>4. ASSUME NEW w \in Workers, B!Select(w) PROVE BackfillInv'
  BY <1>4, SelectStep
<1>5. ASSUME NEW w \in Workers,
             \/ B!Open(w) \/ B!Check(w) \/ B!Mark(w) \/ B!EndRound(w) \/ B!Finish(w) \/ B!Conclude(w) \/ B!Release(w) \/ B!Crash(w)
      PROVE  BackfillInv'
  BY <1>5, RoundSteps
<1>6. ASSUME NEW w \in Workers, NEW i \in 1 .. MaxChunks, B!Commit(w, i) PROVE BackfillInv'
  BY <1>6, CommitStep
<1>7. ASSUME NEW w \in Workers, NEW i \in 1 .. MaxChunks,
             B!Fetch(w, i) \/ B!Fault(w, i) \/ B!Lost(w, i) \/ B!FailChunk(w, i)
      PROVE  BackfillInv'
  BY <1>7, ChunkSteps
<1>8. CASE UNCHANGED B!vars
  <2>1. /\ UNCHANGED <<job, chunk, record, stray>> /\ op' = op /\ worker' = worker
    BY <1>8 DEF B!vars
  <2>2. /\ op' \in [Jobs -> {B!Nobody, "pending", "paused", "retry"}] /\ worker' \in [Workers -> WorkerRow]
        /\ \A j \in Jobs : op'[j] = op[j] \/ job[j].status # "none"
        /\ \A w \in Workers : worker'[w] = worker[w] \/ Shrinks(w) \/ worker'[w] = B!Idle
    BY <2>1 DEF BackfillInv, BackfillTypes
  <2> QED
    BY <2>1, <2>2, NoneGoes
<1> QED
  BY <1>1, <1>2, <1>3, <1>4, <1>5, <1>6, <1>7, <1>8 DEF B!Next

(* Backfills keep their invariant, whatever pauses, cancels, crashes and   *)
(* stalls interleave (backfill-runner.service.ts:200).                     *)
THEOREM BackfillHolds == B!Spec => []BackfillInv
BY BackfillInit, BackfillStep, PTL DEF B!Spec

(* The invariant implies what is checked: types, and that a completed job  *)
(* has queued every record of its range, and once unless a chunk was       *)
(* fetched again (backfill-runner.service.ts:200).                         *)
LEMMA BackfillProps == BackfillInv => B!TypeOK /\ B!BackfillIsExact
<1> SUFFICES ASSUME BackfillInv PROVE B!TypeOK /\ B!BackfillIsExact
  OBVIOUS
<1>1. B!TypeOK
  <2>1. ASSUME NEW j \in Jobs
        PROVE  /\ job[j].owner \in Workers \cup {B!Nobody} /\ job[j].conc \in 1 .. MaxConcurrency
               /\ chunk[j] \in Seq(B!ChunkType)
               /\ job[j].status = "cancelled" => job[j].owner = B!Nobody
    <3>1. job[j] \in JobRow /\ JobInv(j) /\ chunk[j] \in Seq(B!ChunkType)
      BY DEF BackfillInv, BackfillTypes
    <3> QED
      BY <3>1 DEF JobRow, JobInv
  <2> QED
    BY <2>1 DEF B!TypeOK, BackfillInv, BackfillTypes, WorkerInv
<1>2. B!BackfillIsExact
  <2> SUFFICES ASSUME NEW j \in Jobs
               PROVE  /\ \A i \in DOMAIN chunk[j] :
                           chunk[j][i].status = "done" => \A t \in B!InWindow(chunk[j][i].window) : record[j][t] > 0
                      /\ job[j].status = "completed" =>
                           \A t \in Times : job[j].from <= t /\ t < job[j].to => record[j][t] > 0
                      /\ \A t \in Times :
                           record[j][t] <= (IF job[j].from <= t /\ t < job[j].to THEN 1 ELSE 0) \/ j \in stray
    BY DEF B!BackfillIsExact
  <2>1. JobInv(j)
    BY DEF BackfillInv
  <2>2. ASSUME j \notin stray, NEW t \in Times
        PROVE  record[j][t] <= (IF job[j].from <= t /\ t < job[j].to THEN 1 ELSE 0)
    <3>1. CASE JobAsked(j, t)
      <4>1. PICK i \in DOMAIN chunk[j] : t \in B!InWindow(chunk[j][i].window)
        BY <2>1, <3>1 DEF JobInv, Planned
      <4> QED
        BY <2>1, <2>2, <3>1, <4>1 DEF JobInv, ListedOnce, JobAsked
    <3>2. CASE ~JobAsked(j, t)
      BY <2>1, <2>2, <3>2 DEF JobInv, JobAsked
    <3> QED
      BY <3>1, <3>2
  <2> QED
    BY <2>1, <2>2 DEF JobInv, Listed, AllListed, JobAsked
<1> QED
  BY <1>1, <1>2

-----------------------------------------------------------------------------
(* RateGovernor: the gate and the breaker.                                 *)
(*                                                                         *)
(* GateInv counts: the slots taken are the calls that are open, the        *)
(* waiters those that queue, and a slot given to a woken call is reserved  *)
(* unless another stole it. Probes orders the probes by the epoch of the   *)
(* row they began in; Answers ties the streak to the last answers.         *)

GateRow == [open : Nat, waiters : Seq(Calls)]
GovernorRow == [since : BOOLEAN, over : BOOLEAN, probe : Calls \cup {G!None}, expired : BOOLEAN,
                streak : Nat, used : 0 .. Registered, quota : 1 .. Registered, epoch : Nat]
CallRow == [stage : G!Open \cup {"idle", "queued", "woken"}, probe : BOOLEAN, epoch : Nat, late : BOOLEAN]
GovernorTypes == /\ gate \in [Processes -> GateRow]
                 /\ row \in GovernorRow
                 /\ call \in [Calls -> CallRow]
                 /\ recent \in Seq({"ok", "pressed", "failed"})
                 /\ pressure \in [G!Troubles -> Nat]

(* The calls of a process that are open, and those that queue.             *)
OpenAt(p) == {c \in Calls : Home[c] = p /\ call[c].stage \in G!Open}
QueuedAt(p) == {c \in Calls : Home[c] = p /\ G!At(c, "queued")}
Lined(ws) == \A i, j \in DOMAIN ws : ws[i] = ws[j] => i = j
Members(ws) == {ws[i] : i \in DOMAIN ws}
GateInv(p) ==
  /\ gate[p].open = Cardinality(OpenAt(p))
  /\ Lined(gate[p].waiters) /\ Members(gate[p].waiters) = QueuedAt(p)
  /\ p \notin stolen => gate[p].open + Cardinality(G!Woken(p)) <= Limit
  /\ gate[p].waiters # << >> => gate[p].open + Cardinality(G!Woken(p)) >= Limit

(* A probe that is neither late nor older than the last pressure response  *)
(* is the one the row names.                                               *)
Lives(c) == call[c].probe /\ ~call[c].late
Probes == /\ \A c \in Calls :
               /\ call[c].epoch <= row.epoch
               /\ Lives(c) /\ call[c].epoch = row.epoch => row.probe = c /\ ~row.expired
               /\ row.probe = c /\ call[c].probe => call[c].epoch = row.epoch
               /\ G!At(c, "closing") => call[c].probe
          /\ \A c, d \in Calls : Lives(c) /\ Lives(d) /\ call[c].epoch = call[d].epoch => c = d

(* The streak is of the last answers.                                      *)
Answers == /\ Len(recent) <= Pressures
           /\ row.streak <= Len(recent) \/ Pressures = Len(recent)
           /\ \A i \in DOMAIN recent : i > Len(recent) - row.streak => recent[i] = "pressed"

GovernorInv == GovernorTypes /\ (\A p \in Processes : GateInv(p)) /\ Probes /\ Answers

(* A fresh gate and a fresh row satisfy the invariant.                     *)
LEMMA GovernorInit == G!Init => GovernorInv
<1> SUFFICES ASSUME G!Init PROVE GovernorInv
  OBVIOUS
<1> USE CallsAssumption, PolicyAssumption, StrainsAssumption DEF G!Init, G!Fresh, G!EmptyGate, G!FreshRow
<1>1. GovernorTypes
  BY DEF GovernorTypes, GateRow, GovernorRow, CallRow
<1>2. ASSUME NEW p \in Processes PROVE GateInv(p)
  <2>1. OpenAt(p) = {} /\ QueuedAt(p) = {} /\ G!Woken(p) = {}
    BY DEF OpenAt, QueuedAt, G!Woken, G!At, G!Open
  <2>2. gate[p].open = 0 /\ gate[p].waiters = << >>
    OBVIOUS
  <2> QED
    BY <2>1, <2>2, FS_EmptySet DEF GateInv, Lined, Members
<1>3. Probes
  BY DEF Probes, Lives, G!At
<1>4. Answers
  BY DEF Answers
<1> QED
  BY <1>1, <1>2, <1>3, <1>4 DEF GovernorInv

-----------------------------------------------------------------------------
(* What a step does to the calls and to a gate.                            *)
Alike(c) == /\ call'[c].stage \in G!Open <=> call[c].stage \in G!Open
            /\ call'[c].stage = "woken" <=> call[c].stage = "woken"
            /\ call'[c].stage = "queued" <=> call[c].stage = "queued"
Gates(p, n, ws) == /\ gate'[p].open = n /\ gate'[p].waiters = ws
                   /\ \A q \in Processes \ {p} : gate'[q] = gate[q]
Stays == UNCHANGED <<gate, stolen>> /\ \A c \in Calls : Alike(c)
CallEnters(c) == /\ G!At(c, "idle") /\ G!HasSlot(Home[c]) /\ call'[c].stage = "quota"
                 /\ \A d \in Calls \ {c} : Alike(d)
                 /\ Gates(Home[c], gate[Home[c]].open + 1, gate[Home[c]].waiters)
                 /\ stolen' = IF G!Woken(Home[c]) = {} THEN stolen ELSE stolen \cup {Home[c]}
Queues(c) == /\ G!At(c, "idle") /\ ~G!HasSlot(Home[c]) /\ call'[c].stage = "queued"
             /\ \A d \in Calls \ {c} : Alike(d)
             /\ Gates(Home[c], gate[Home[c]].open, Append(gate[Home[c]].waiters, c))
             /\ stolen' = stolen
Resumes(c) == /\ G!At(c, "woken") /\ call'[c].stage = "quota"
              /\ \A d \in Calls \ {c} : Alike(d)
              /\ Gates(Home[c], gate[Home[c]].open + 1, gate[Home[c]].waiters)
              /\ stolen' = stolen
Leaves(c) == /\ call[c].stage \in G!Open /\ call'[c].stage = "idle" /\ stolen' = stolen
             /\ IF gate[Home[c]].open - 1 < Limit /\ gate[Home[c]].waiters # << >>
                  THEN /\ call'[Head(gate[Home[c]].waiters)].stage = "woken"
                       /\ \A d \in Calls \ {c, Head(gate[Home[c]].waiters)} : Alike(d)
                       /\ Gates(Home[c], gate[Home[c]].open - 1, Tail(gate[Home[c]].waiters))
                  ELSE /\ \A d \in Calls \ {c} : Alike(d)
                       /\ Gates(Home[c], gate[Home[c]].open - 1, gate[Home[c]].waiters)
Crashes(p) == /\ \A c \in Calls : IF Home[c] = p THEN call'[c].stage = "idle" ELSE Alike(c)
              /\ Gates(p, 0, << >>) /\ stolen' = stolen
GateMoves == \/ Stays
             \/ \E c \in Calls : CallEnters(c) \/ Queues(c) \/ Resumes(c) \/ Leaves(c)
             \/ \E p \in Processes : Crashes(p)

(* A gate whose calls are alike keeps its invariant.                       *)
LEMMA GateStays ==
  ASSUME NEW p \in Processes, GateInv(p), gate'[p] = gate[p], stolen \subseteq stolen',
         \A c \in Calls : Home[c] = p => Alike(c)
  PROVE  GateInv(p)'
<1>1. OpenAt(p)' = OpenAt(p)
  BY DEF OpenAt, Alike
<1>2. QueuedAt(p)' = QueuedAt(p)
  BY DEF QueuedAt, Alike, G!At
<1>3. G!Woken(p)' = G!Woken(p)
  BY DEF G!Woken, Alike, G!At
<1> QED
  BY <1>1, <1>2, <1>3 DEF GateInv

(* The open and the woken calls of a process can be counted.               *)
LEMMA CallCounted ==
  ASSUME NEW p PROVE /\ IsFiniteSet(OpenAt(p)) /\ IsFiniteSet(G!Woken(p))
                     /\ Cardinality(OpenAt(p)) \in Nat /\ Cardinality(G!Woken(p)) \in Nat
<1>1. OpenAt(p) \subseteq Calls /\ G!Woken(p) \subseteq Calls
  BY DEF OpenAt, G!Woken
<1> QED
  BY <1>1, CallsAssumption, FS_Subset, FS_CardinalityType

(* Every move keeps the gate it is about.                                  *)
LEMMA GateKept ==
  ASSUME GovernorInv, GateMoves, NEW p \in Processes PROVE GateInv(p)'
<1>0. GateInv(p) /\ gate[p].waiters \in Seq(Calls) /\ gate[p].open \in Nat
  BY DEF GovernorInv, GovernorTypes, GateRow
<1>1. CASE Stays
  BY <1>0, <1>1, GateStays DEF Stays
<1>2. ASSUME NEW c \in Calls, CallEnters(c) \/ Queues(c) \/ Resumes(c) \/ Leaves(c), Home[c] # p
      PROVE  GateInv(p)'
  <2>1. gate'[p] = gate[p] /\ stolen \subseteq stolen'
    BY <1>2 DEF CallEnters, Queues, Resumes, Leaves, Gates
  <2>2. ASSUME gate[Home[c]].waiters # << >> PROVE Home[Head(gate[Home[c]].waiters)] # p
    <3>1. Home[c] \in Processes
      BY CallsAssumption
    <3>2. gate[Home[c]].waiters \in Seq(Calls) /\ Members(gate[Home[c]].waiters) = QueuedAt(Home[c])
      BY <3>1 DEF GovernorInv, GovernorTypes, GateRow, GateInv
    <3>3. Head(gate[Home[c]].waiters) \in Members(gate[Home[c]].waiters)
      BY <2>2, <3>2 DEF Members
    <3> QED
      BY <1>2, <3>2, <3>3 DEF QueuedAt
  <2>3. \A d \in Calls : Home[d] = p => Alike(d)
    BY <1>2, <2>2 DEF CallEnters, Queues, Resumes, Leaves
  <2> QED
    BY <1>0, <2>1, <2>3, GateStays
<1>3. ASSUME NEW c \in Calls, CallEnters(c), Home[c] = p PROVE GateInv(p)'
  <2>1. OpenAt(p)' = OpenAt(p) \cup {c} /\ c \notin OpenAt(p)
    BY <1>3 DEF OpenAt, CallEnters, Alike, G!At, G!Open
  <2>2. QueuedAt(p)' = QueuedAt(p) /\ G!Woken(p)' = G!Woken(p)
    BY <1>3 DEF QueuedAt, G!Woken, CallEnters, Alike, G!At
  <2>3. Cardinality(OpenAt(p)') = Cardinality(OpenAt(p)) + 1
    BY <2>1, CallCounted, FS_AddElement
  <2>4. gate'[p].open = gate[p].open + 1 /\ gate'[p].waiters = gate[p].waiters
    BY <1>3 DEF CallEnters, Gates
  <2>5. p \notin stolen' => G!Woken(p) = {} /\ Cardinality(G!Woken(p)) = 0
    BY <1>3, FS_EmptySet DEF CallEnters
  <2>6. gate[p].open < Limit
    BY <1>3 DEF CallEnters, G!HasSlot
  <2> QED
    BY <1>0, <2>1, <2>2, <2>3, <2>4, <2>5, <2>6, CallCounted, PolicyAssumption DEF GateInv
<1>4. ASSUME NEW c \in Calls, Queues(c), Home[c] = p PROVE GateInv(p)'
  <2>1. OpenAt(p)' = OpenAt(p) /\ G!Woken(p)' = G!Woken(p)
    BY <1>4 DEF OpenAt, G!Woken, Queues, Alike, G!At, G!Open
  <2>2. QueuedAt(p)' = QueuedAt(p) \cup {c} /\ c \notin QueuedAt(p)
    BY <1>4 DEF QueuedAt, Queues, Alike, G!At
  <2>3. gate'[p].open = gate[p].open /\ gate'[p].waiters = Append(gate[p].waiters, c) /\ stolen' = stolen
    BY <1>4 DEF Queues, Gates
  <2>4. Lined(gate'[p].waiters) /\ Members(gate'[p].waiters) = Members(gate[p].waiters) \cup {c}
    <3> DEFINE ws == gate[p].waiters
    <3>1. ws \in Seq(Calls) /\ Lined(ws) /\ c \notin Members(ws)
      BY <1>0, <2>2 DEF GateInv
    <3>2. /\ DOMAIN Append(ws, c) = DOMAIN ws \cup {Len(ws) + 1} /\ Len(ws) + 1 \notin DOMAIN ws
          /\ Append(ws, c)[Len(ws) + 1] = c
          /\ \A i \in DOMAIN ws : Append(ws, c)[i] = ws[i]
      BY <3>1
    <3> HIDE DEF ws
    <3>3. Lined(Append(ws, c)) /\ Members(Append(ws, c)) = Members(ws) \cup {c}
      BY <3>1, <3>2 DEF Lined, Members
    <3> QED
      BY <2>3, <3>3 DEF ws
  <2>5. gate[p].open >= Limit
    BY <1>0, <1>4, PolicyAssumption DEF Queues, G!HasSlot
  <2> QED
    BY <1>0, <2>1, <2>2, <2>3, <2>4, <2>5, CallCounted, PolicyAssumption DEF GateInv
<1>5. ASSUME NEW c \in Calls, Resumes(c), Home[c] = p PROVE GateInv(p)'
  <2>1. OpenAt(p)' = OpenAt(p) \cup {c} /\ c \notin OpenAt(p)
    BY <1>5 DEF OpenAt, Resumes, Alike, G!At, G!Open
  <2>2. G!Woken(p)' = G!Woken(p) \ {c} /\ c \in G!Woken(p)
    BY <1>5 DEF G!Woken, Resumes, Alike, G!At
  <2>3. QueuedAt(p)' = QueuedAt(p)
    BY <1>5 DEF QueuedAt, Resumes, Alike, G!At
  <2>4. Cardinality(OpenAt(p)') = Cardinality(OpenAt(p)) + 1
    BY <2>1, CallCounted, FS_AddElement
  <2>5. Cardinality(G!Woken(p)') = Cardinality(G!Woken(p)) - 1
    BY <2>2, CallCounted, FS_RemoveElement
  <2>6. gate'[p].open = gate[p].open + 1 /\ gate'[p].waiters = gate[p].waiters /\ stolen' = stolen
    BY <1>5 DEF Resumes, Gates
  <2> QED
    BY <1>0, <2>1, <2>2, <2>3, <2>4, <2>5, <2>6, CallCounted, PolicyAssumption DEF GateInv
<1>6. ASSUME NEW c \in Calls, Leaves(c), Home[c] = p PROVE GateInv(p)'
  <2> DEFINE ws == gate[p].waiters
             h == Head(ws)
  <2>1. c \in OpenAt(p) /\ c \notin QueuedAt(p)
    BY <1>6 DEF Leaves, OpenAt, QueuedAt, G!At, G!Open
  <2>2. CASE gate[p].open - 1 < Limit /\ ws # << >>
    <3>1. h \in Members(ws) /\ h \in QueuedAt(p) /\ h # c /\ h \in Calls /\ Home[h] = p /\ call[h].stage = "queued"
      BY <1>0, <2>1, <2>2 DEF Members, GateInv, QueuedAt, G!At
    <3>2. /\ call'[c].stage = "idle" /\ call'[h].stage = "woken"
          /\ \A d \in Calls \ {c, h} : Alike(d)
          /\ gate'[p].open = gate[p].open - 1 /\ gate'[p].waiters = Tail(ws) /\ stolen' = stolen
      BY <1>6, <2>2 DEF Leaves, Gates
    <3> HIDE DEF h
    <3>3. OpenAt(p)' = OpenAt(p) \ {c}
      BY <2>1, <3>1, <3>2 DEF OpenAt, Alike, G!Open
    <3>4. G!Woken(p)' = G!Woken(p) \cup {h} /\ h \notin G!Woken(p)
      BY <1>6, <2>1, <3>1, <3>2 DEF G!Woken, Alike, G!At, Leaves, G!Open
    <3>5. QueuedAt(p)' = QueuedAt(p) \ {h}
      BY <2>1, <3>1, <3>2 DEF QueuedAt, Alike, G!At
    <3>6. Cardinality(OpenAt(p)') = Cardinality(OpenAt(p)) - 1
      BY <2>1, <3>3, CallCounted, FS_RemoveElement
    <3>7. Cardinality(G!Woken(p)') = Cardinality(G!Woken(p)) + 1
      BY <3>4, CallCounted, FS_AddElement
    <3>8. Lined(Tail(ws)) /\ Members(Tail(ws)) = Members(ws) \ {h}
      <4>1. ws \in Seq(Calls) /\ Lined(ws) /\ ws # << >>
        BY <1>0, <2>2 DEF GateInv
      <4>2. /\ Len(ws) \in Nat \ {0} /\ DOMAIN ws = 1 .. Len(ws)
            /\ DOMAIN Tail(ws) = 1 .. (Len(ws) - 1) /\ \A i \in 1 .. (Len(ws) - 1) : Tail(ws)[i] = ws[i + 1]
            /\ h = ws[1]
        BY <4>1 DEF h
      <4> HIDE DEF ws
      <4>3. Lined(Tail(ws))
        BY <4>1, <4>2 DEF Lined
      <4>4. \A i \in 2 .. Len(ws) : i - 1 \in 1 .. (Len(ws) - 1) /\ Tail(ws)[i - 1] = ws[i] /\ ws[i] # h
        BY <4>1, <4>2 DEF Lined
      <4>5. Members(Tail(ws)) \subseteq Members(ws) \ {h}
        BY <4>2, <4>4 DEF Members
      <4>6. Members(ws) \ {h} \subseteq Members(Tail(ws))
        <5> SUFFICES ASSUME NEW i \in DOMAIN ws, ws[i] # h PROVE ws[i] \in Members(Tail(ws))
          BY DEF Members
        <5>1. i \in 2 .. Len(ws)
          BY <4>2
        <5> QED
          BY <4>2, <4>4, <5>1 DEF Members
      <4> QED
        BY <4>3, <4>5, <4>6
    <3>9. ws # << >>
      BY <2>2
    <3> HIDE DEF ws
    <3>10. gate[p].open + Cardinality(G!Woken(p)) >= Limit
      BY <1>0, <3>9 DEF GateInv, ws
    <3> QED
      BY <1>0, <3>2, <3>5, <3>6, <3>7, <3>8, <3>10, CallCounted, PolicyAssumption DEF GateInv, ws
  <2>3. CASE ~(gate[p].open - 1 < Limit /\ ws # << >>)
    <3>1. /\ call'[c].stage = "idle" /\ \A d \in Calls \ {c} : Alike(d)
          /\ gate'[p].open = gate[p].open - 1 /\ gate'[p].waiters = ws /\ stolen' = stolen
      BY <1>6, <2>3 DEF Leaves, Gates
    <3>2. OpenAt(p)' = OpenAt(p) \ {c}
      BY <2>1, <3>1 DEF OpenAt, Alike, G!Open
    <3>3. G!Woken(p)' = G!Woken(p) /\ QueuedAt(p)' = QueuedAt(p)
      BY <1>6, <3>1 DEF G!Woken, QueuedAt, Alike, G!At, Leaves, G!Open
    <3>4. Cardinality(OpenAt(p)') = Cardinality(OpenAt(p)) - 1
      BY <2>1, <3>2, CallCounted, FS_RemoveElement
    <3> QED
      BY <1>0, <2>3, <3>1, <3>3, <3>4, CallCounted, PolicyAssumption DEF GateInv
  <2> QED
    BY <2>2, <2>3
<1>7. ASSUME NEW q \in Processes, Crashes(q) PROVE GateInv(p)'
  <2>1. CASE q = p
    <3>1. \A c \in Calls : Home[c] = p => call'[c].stage = "idle"
      BY <1>7, <2>1 DEF Crashes
    <3>2. OpenAt(p)' = {} /\ QueuedAt(p)' = {} /\ G!Woken(p)' = {}
      BY <3>1 DEF OpenAt, QueuedAt, G!Woken, G!At, G!Open
    <3>3. gate'[p].open = 0 /\ gate'[p].waiters = << >>
      BY <1>7, <2>1 DEF Crashes, Gates
    <3> QED
      BY <3>2, <3>3, FS_EmptySet, PolicyAssumption DEF GateInv, Lined, Members
  <2>2. CASE q # p
    <3>1. gate'[p] = gate[p] /\ stolen' = stolen /\ \A c \in Calls : Home[c] = p => Alike(c)
      BY <1>7, <2>2 DEF Crashes, Gates
    <3> QED
      BY <1>0, <3>1, GateStays
  <2> QED
    BY <2>1, <2>2
<1> QED
  BY <1>1, <1>2, <1>3, <1>4, <1>5, <1>6, <1>7 DEF GateMoves

-----------------------------------------------------------------------------
(* What a step does to the record of a call beside its stage: nothing, or  *)
(* the call is over.                                                       *)
Quiet(d) == /\ call'[d].probe = call[d].probe /\ call'[d].epoch = call[d].epoch
            /\ call'[d].late = call[d].late
            /\ call'[d].stage = "closing" => call[d].probe
Gone(d) == ~call'[d].probe /\ call'[d].epoch = 0 /\ call'[d].stage # "closing"
SameProbe == row'.probe = row.probe /\ row'.expired = row.expired /\ row'.epoch = row.epoch
Renewed == row'.probe = G!None /\ row'.epoch = row.epoch + 1 /\ \A d \in Calls : Quiet(d) \/ Gone(d)
Freed(c) == /\ row.probe = c /\ row'.probe = G!None /\ row'.epoch = row.epoch
            /\ Gone(c) /\ \A d \in Calls \ {c} : Quiet(d)
Admits(c) == /\ \A d \in Calls \ {c} : Quiet(d)
             /\ call'[c].probe = G!Probing /\ call'[c].epoch = row.epoch /\ call'[c].stage = "calling"
             /\ G!Probing => row'.probe = c /\ ~row'.expired /\ ~G!ProbeHeld
             /\ ~G!Probing => row'.probe = row.probe /\ row'.expired = row.expired
             /\ row'.epoch = row.epoch
Expires == /\ row'.probe = row.probe /\ row'.epoch = row.epoch
           /\ \A d \in Calls : /\ call'[d].probe = call[d].probe /\ call'[d].epoch = call[d].epoch
                               /\ call'[d].stage = call[d].stage
                               /\ call'[d].late = call[d].late \/ (call'[d].late /\ d = row.probe)
           /\ row.probe \in Calls /\ call[row.probe].probe => call'[row.probe].late
ProbeMoves == \/ SameProbe /\ \A d \in Calls : Quiet(d) \/ Gone(d)
              \/ Renewed
              \/ \E c \in Calls : Freed(c) \/ Admits(c)
              \/ Expires

(* A step that starts, ends or outdates probes keeps one of them alive at  *)
(* most.                                                                   *)
LEMMA ProbesKept ==
  ASSUME GovernorInv, ProbeMoves, GovernorTypes' PROVE Probes'
<1> USE CallsAssumption
<1>1. /\ \A c \in Calls : call[c].epoch \in Nat /\ call[c].probe \in BOOLEAN /\ call[c].late \in BOOLEAN
      /\ row.epoch \in Nat /\ row.expired \in BOOLEAN
      /\ \A c \in Calls : call'[c].epoch \in Nat /\ call'[c].probe \in BOOLEAN /\ call'[c].late \in BOOLEAN
      /\ row'.epoch \in Nat /\ row'.expired \in BOOLEAN
  BY DEF GovernorInv, GovernorTypes, CallRow, GovernorRow
<1>2. Probes
  BY DEF GovernorInv
<1>3. CASE SameProbe /\ \A d \in Calls : Quiet(d) \/ Gone(d)
  BY <1>1, <1>2, <1>3 DEF Probes, SameProbe, Quiet, Gone, Lives, G!At
<1>4. CASE Renewed
  <2>1. \A d \in Calls : call'[d].epoch < row'.epoch
    BY <1>1, <1>2, <1>4 DEF Probes, Renewed, Quiet, Gone
  <2> QED
    BY <1>1, <1>2, <1>4, <2>1 DEF Probes, Renewed, Quiet, Gone, Lives, G!At
<1>5. ASSUME NEW c \in Calls, Freed(c) PROVE Probes'
  BY <1>1, <1>2, <1>5 DEF Probes, Freed, Quiet, Gone, Lives, G!At
<1>6. ASSUME NEW c \in Calls, Admits(c) PROVE Probes'
  <2>1. CASE G!Probing
    <3>1. \A d \in Calls : ~(Lives(d) /\ call[d].epoch = row.epoch)
      BY <1>2, <1>6, <2>1 DEF Probes, Admits, G!ProbeHeld
    <3> QED
      BY <1>1, <1>2, <1>6, <2>1, <3>1 DEF Probes, Admits, Quiet, Lives, G!At
  <2>2. CASE ~G!Probing
    BY <1>1, <1>2, <1>6, <2>2 DEF Probes, Admits, Quiet, Lives, G!At
  <2> QED
    BY <2>1, <2>2
<1>7. CASE Expires
  <2>1. \A d \in Calls : ~(Lives(d)' /\ call'[d].epoch = row'.epoch)
    BY <1>1, <1>2, <1>7 DEF Probes, Expires, Lives
  <2> QED
    BY <1>1, <1>2, <1>7, <2>1 DEF Probes, Expires, Lives, G!At
<1> QED
  BY <1>3, <1>4, <1>5, <1>6, <1>7 DEF ProbeMoves

-----------------------------------------------------------------------------
(* What a step does to the streak and to the last answers.                 *)
AnswerMoves == \/ recent' = recent /\ row'.streak = row.streak
               \/ G!Remember("ok") /\ row'.streak = 0
               \/ G!Remember("failed") /\ row'.streak = 0
               \/ G!Remember("pressed") /\ row'.streak = row.streak + 1

(* A step keeps the streak equal to the last pressure answers.             *)
LEMMA AnswersKept ==
  ASSUME GovernorInv, AnswerMoves
  PROVE  Answers' /\ recent' \in Seq({"ok", "pressed", "failed"})
<1> DEFINE n == Len(recent)
           s == row.streak
<1>a. recent \in Seq({"ok", "pressed", "failed"})
  BY DEF GovernorInv, GovernorTypes
<1>b. s \in Nat
  BY DEF GovernorInv, GovernorTypes, GovernorRow
<1>c. n \in Nat /\ DOMAIN recent = 1 .. n
  BY <1>a
<1>d. /\ n <= Pressures /\ (s <= n \/ Pressures = n)
      /\ \A i \in 1 .. n : i > n - s => recent[i] = "pressed"
  BY <1>c DEF GovernorInv, Answers
<1>p. Pressures \in Nat /\ Pressures # 0
  BY PolicyAssumption
<1>2. CASE recent' = recent /\ row'.streak = s
  BY <1>a, <1>2 DEF Answers, GovernorInv
<1>3. ASSUME NEW a \in {"ok", "pressed", "failed"}, G!Remember(a), NEW t, t = row'.streak,
             t = 0 \/ (a = "pressed" /\ t = s + 1)
      PROVE  Answers' /\ recent' \in Seq({"ok", "pressed", "failed"})
  <2> DEFINE all == Append(recent, a)
  <2>1. /\ all \in Seq({"ok", "pressed", "failed"}) /\ Len(all) = n + 1
        /\ \A i \in 1 .. n : all[i] = recent[i]
        /\ all[n + 1] = a
    BY <1>a, <1>c
  <2>2. recent' = IF Len(all) > Pressures THEN Tail(all) ELSE all
    BY <1>3 DEF G!Remember
  <2> HIDE DEF all, n, s
  <2>3. CASE n + 1 > Pressures
    <3>1. recent' = Tail(all) /\ n = Pressures
      BY <1>c, <1>d, <1>p, <2>1, <2>2, <2>3
    <3>2. /\ recent' \in Seq({"ok", "pressed", "failed"}) /\ Len(recent') = n
          /\ DOMAIN recent' = 1 .. n
          /\ \A i \in 1 .. n : recent'[i] = all[i + 1]
      BY <1>c, <2>1, <3>1
    <3>3. ASSUME NEW i \in 1 .. n, i > n - t PROVE recent'[i] = "pressed"
      <4>1. a = "pressed" /\ t = s + 1
        BY <1>3, <1>c, <3>3
      <4>2. CASE i = n
        BY <2>1, <3>2, <4>1, <4>2
      <4>3. CASE i # n
        <5>1. i + 1 \in 1 .. n /\ i + 1 > n - s
          BY <1>b, <1>c, <3>3, <4>1, <4>3
        <5> QED
          BY <1>d, <2>1, <3>2, <5>1
      <4> QED
        BY <4>2, <4>3
    <3> QED
      BY <1>3, <3>1, <3>2, <3>3 DEF Answers
  <2>4. CASE ~(n + 1 > Pressures)
    <3>1. recent' = all /\ n + 1 <= Pressures
      BY <1>c, <1>p, <2>1, <2>2, <2>4
    <3>2. Len(recent') = n + 1 /\ DOMAIN recent' = 1 .. (n + 1) /\ recent' \in Seq({"ok", "pressed", "failed"})
      BY <2>1, <3>1
    <3>3. s <= n
      BY <1>b, <1>c, <1>d, <1>p, <3>1
    <3>4. ASSUME NEW i \in 1 .. (n + 1), i > n + 1 - t PROVE recent'[i] = "pressed"
      <4>1. a = "pressed" /\ t = s + 1
        BY <1>3, <1>c, <3>4
      <4>2. CASE i = n + 1
        BY <2>1, <3>1, <4>1, <4>2
      <4>3. CASE i # n + 1
        <5>1. i \in 1 .. n /\ i > n - s
          BY <1>b, <1>c, <3>4, <4>1, <4>3
        <5> QED
          BY <1>d, <2>1, <3>1, <5>1
      <4> QED
        BY <4>2, <4>3
    <3>5. t <= n + 1
      BY <1>b, <1>c, <1>3, <3>3
    <3>6. \A i \in DOMAIN recent' : i > Len(recent') - row'.streak => recent'[i] = "pressed"
      <4>1. t = row'.streak /\ t \in Nat
        BY <1>3, <1>b
      <4> SUFFICES ASSUME NEW i \in 1 .. (n + 1), i > n + 1 - t PROVE recent'[i] = "pressed"
        BY <1>c, <3>2, <4>1
      <4> QED
        BY <3>4
    <3>7. Len(recent') <= Pressures /\ row'.streak <= Len(recent')
      BY <1>3, <3>1, <3>2, <3>5
    <3> QED
      BY <3>2, <3>6, <3>7 DEF Answers
  <2> QED
    BY <2>3, <2>4
<1>4. CASE G!Remember("ok") /\ row'.streak = 0
  BY <1>3, <1>4
<1>5. CASE G!Remember("failed") /\ row'.streak = 0
  BY <1>3, <1>5
<1>6. CASE G!Remember("pressed") /\ row'.streak = s + 1
  BY <1>3, <1>6
<1> QED
  BY <1>2, <1>4, <1>5, <1>6 DEF AnswerMoves

-----------------------------------------------------------------------------
(* A call that goes to another stage.                                      *)
LEMMA CallGoes ==
  ASSUME GovernorInv, NEW c \in Calls, NEW to \in G!Open \cup {"idle", "queued", "woken"}, G!Goto(c, to)
  PROVE  /\ call' \in [Calls -> CallRow] /\ call'[c].stage = to
         /\ call'[c].probe = call[c].probe /\ call'[c].epoch = call[c].epoch /\ call'[c].late = call[c].late
         /\ \A d \in Calls \ {c} : Alike(d) /\ Quiet(d)
         /\ (to = "closing" => call[c].probe) => \A d \in Calls : Quiet(d)
<1> DEFINE r == [call[c] EXCEPT !.stage = to]
<1>1. call \in [Calls -> CallRow] /\ Probes
  BY DEF GovernorInv, GovernorTypes
<1>2. /\ r \in CallRow /\ r.stage = to /\ r.probe = call[c].probe
      /\ r.epoch = call[c].epoch /\ r.late = call[c].late
  BY <1>1 DEF CallRow
<1>3. call' = [call EXCEPT ![c] = r]
  BY DEF G!Goto
<1> HIDE DEF r
<1>4. /\ call' \in [Calls -> CallRow] /\ call'[c] = r
      /\ \A d \in Calls \ {c} : call'[d] = call[d]
  BY <1>1, <1>2, <1>3
<1>5. \A d \in Calls : call[d].stage = "closing" => call[d].probe
  BY <1>1 DEF Probes, G!At
<1>6. \A d \in Calls \ {c} : Alike(d) /\ Quiet(d)
  BY <1>4, <1>5 DEF Alike, Quiet
<1>7. (to = "closing" => call[c].probe) => Quiet(c)
  BY <1>2, <1>4 DEF Quiet
<1> QED
  BY <1>2, <1>4, <1>6, <1>7

(* A call that leaves the gate.                                            *)
LEMMA CallLeaves ==
  ASSUME GovernorInv, NEW c \in Calls, call[c].stage \in G!Open, G!Leave(c)
  PROVE  /\ gate' \in [Processes -> GateRow] /\ call' \in [Calls -> CallRow]
         /\ stolen' = stolen => Leaves(c)
         /\ Gone(c) /\ \A d \in Calls \ {c} : Quiet(d)
<1> DEFINE p == Home[c]
           ws == gate[p].waiters
           wakes == gate[p].open - 1 < Limit /\ ws # << >>
           h == Head(ws)
<1> USE CallsAssumption, PolicyAssumption
<1>1. /\ p \in Processes /\ call \in [Calls -> CallRow] /\ gate \in [Processes -> GateRow]
      /\ GateInv(p) /\ Probes
  BY DEF GovernorInv, GovernorTypes
<1>2. gate[p].open \in Nat /\ ws \in Seq(Calls)
  BY <1>1 DEF GateRow
<1>3. gate[p].open - 1 \in Nat
  <2>1. c \in OpenAt(p)
    BY DEF OpenAt
  <2>2. Cardinality(OpenAt(p)) # 0
    BY <2>1, CallCounted, FS_EmptySet
  <2> QED
    BY <1>1, <1>2, <2>2 DEF GateInv
<1>4. wakes => h \in Calls /\ h # c /\ call[h].stage = "queued"
  <2>1. wakes => h \in Members(ws)
    BY <1>2 DEF Members
  <2>2. Members(ws) = QueuedAt(p)
    BY <1>1 DEF GateInv
  <2>3. c \notin QueuedAt(p)
    BY DEF QueuedAt, G!At, G!Open
  <2> QED
    BY <2>1, <2>2, <2>3 DEF QueuedAt, G!At
<1> DEFINE g == [gate[p] EXCEPT !.open = @ - 1, !.waiters = IF wakes THEN Tail(@) ELSE @]
<1>5. /\ g \in GateRow /\ g.open = gate[p].open - 1
      /\ g.waiters = IF wakes THEN Tail(ws) ELSE ws
  <2>1. (IF wakes THEN Tail(ws) ELSE ws) \in Seq(Calls)
    BY <1>2
  <2> QED
    BY <1>1, <1>3, <2>1 DEF GateRow
<1>6. gate' = [gate EXCEPT ![p] = g]
  BY DEF G!Leave
<1>7. call' = [d \in Calls |-> IF d = c THEN G!Fresh
                               ELSE IF wakes /\ d = h THEN [call[d] EXCEPT !.stage = "woken"]
                               ELSE call[d]]
  BY DEF G!Leave
<1> HIDE DEF g, h, wakes, ws
<1>8. gate' \in [Processes -> GateRow] /\ Gates(p, g.open, g.waiters)
  BY <1>1, <1>5, <1>6 DEF Gates
<1>9. /\ G!Fresh \in CallRow /\ G!Fresh.stage = "idle" /\ ~G!Fresh.probe /\ G!Fresh.epoch = 0
  BY DEF G!Fresh, CallRow
<1>10. ASSUME NEW d \in Calls
       PROVE  /\ [call[d] EXCEPT !.stage = "woken"] \in CallRow
              /\ [call[d] EXCEPT !.stage = "woken"].stage = "woken"
              /\ [call[d] EXCEPT !.stage = "woken"].probe = call[d].probe
              /\ [call[d] EXCEPT !.stage = "woken"].epoch = call[d].epoch
              /\ [call[d] EXCEPT !.stage = "woken"].late = call[d].late
  BY <1>1 DEF CallRow
<1>11. call' \in [Calls -> CallRow]
  BY <1>1, <1>7, <1>9, <1>10
<1>12. Gone(c) /\ call'[c].stage = "idle"
  BY <1>7, <1>9 DEF Gone
<1>13. \A d \in Calls \ {c} : Quiet(d)
  BY <1>1, <1>7, <1>10 DEF Quiet, Probes, G!At
<1>14. \A d \in Calls \ {c} : ~(wakes /\ d = h) => Alike(d)
  BY <1>7 DEF Alike
<1>15. wakes => call'[h].stage = "woken"
  BY <1>4, <1>7, <1>10
<1>16. stolen' = stolen => Leaves(c)
  <2>1. CASE wakes
    BY <1>5, <1>8, <1>12, <1>14, <1>15, <2>1 DEF Leaves, h, wakes, ws
  <2>2. CASE ~wakes
    BY <1>5, <1>8, <1>12, <1>14, <2>2 DEF Leaves, wakes, ws
  <2> QED
    BY <2>1, <2>2
<1> QED
  BY <1>8, <1>11, <1>12, <1>13, <1>16

-----------------------------------------------------------------------------
(* A call whose probe ran out is the call it was, late.                    *)
LEMMA LateCall ==
  ASSUME NEW k \in CallRow
  PROVE  /\ [k EXCEPT !.late = TRUE] \in CallRow /\ [k EXCEPT !.late = TRUE].stage = k.stage
         /\ [k EXCEPT !.late = TRUE].probe = k.probe /\ [k EXCEPT !.late = TRUE].epoch = k.epoch
         /\ [k EXCEPT !.late = TRUE].late
  BY DEF CallRow

(* A call that is admitted is still that of its caller.                    *)
Admitted(old, p, n) == [old EXCEPT !.stage = "calling", !.probe = p, !.epoch = n]
LEMMA AdmittedCall ==
  ASSUME NEW old \in CallRow, NEW p \in BOOLEAN, NEW n \in Nat
  PROVE  /\ Admitted(old, p, n) \in CallRow /\ Admitted(old, p, n).stage = "calling"
         /\ Admitted(old, p, n).probe = p /\ Admitted(old, p, n).epoch = n
  BY DEF CallRow, G!Open, Admitted

(* Every step is one of the moves.                                         *)
LEMMA StepMoves ==
  ASSUME GovernorInv, G!Next
  PROVE  GovernorTypes' /\ GateMoves /\ ProbeMoves /\ AnswerMoves
<1> USE CallsAssumption, PolicyAssumption
<1>0. /\ gate \in [Processes -> GateRow] /\ row \in GovernorRow /\ call \in [Calls -> CallRow]
      /\ recent \in Seq({"ok", "pressed", "failed"}) /\ pressure \in [G!Troubles -> Nat] /\ Probes
  BY DEF GovernorInv, GovernorTypes
<1>r. /\ row.since \in BOOLEAN /\ row.over \in BOOLEAN /\ row.probe \in Calls \cup {G!None}
      /\ row.expired \in BOOLEAN /\ row.streak \in Nat /\ row.epoch \in Nat
      /\ row.used \in 0 .. Registered /\ row.quota \in 1 .. Registered
  BY <1>0 DEF GovernorRow
<1>e. ASSUME NEW c \in Calls PROVE G!Effective(c) \in 1 .. Registered
  <2> DEFINE n == row.quota
             q == Quota[Home[c]]
  <2>1. n \in 1 .. Registered /\ q \in Nat \ {0} /\ G!Effective(c) = IF n < q THEN n ELSE q
    BY <1>r DEF G!Effective
  <2> HIDE DEF n, q
  <2> QED
    BY <2>1
<1>s. ASSUME NEW kind \in G!Troubles, G!Suffer(kind) PROVE pressure' \in [G!Troubles -> Nat]
  BY <1>0, <1>s DEF G!Suffer
<1>same. row' = row => SameProbe /\ row'.streak = row.streak /\ row' \in GovernorRow
  BY <1>0 DEF SameProbe
<1>q. call' = call => \A d \in Calls : Alike(d) /\ Quiet(d)
  BY <1>0 DEF Alike, Quiet, Probes, G!At
<1>a. ASSUME AnswerMoves PROVE recent' \in Seq({"ok", "pressed", "failed"})
  BY <1>a, AnswersKept
<1>1. ASSUME NEW c \in Calls, G!Enter(c) PROVE GovernorTypes' /\ GateMoves /\ ProbeMoves /\ AnswerMoves
  <2> DEFINE p == Home[c]
  <2>1. p \in Processes /\ gate[p].open \in Nat /\ gate[p].waiters \in Seq(Calls) /\ gate[p] \in GateRow
    BY <1>0 DEF GateRow
  <2>2. UNCHANGED <<row, recent, pressure>> /\ G!At(c, "idle")
    BY <1>1 DEF G!Enter
  <2>3. CASE G!HasSlot(p)
    <3> DEFINE g == [gate[p] EXCEPT !.open = @ + 1]
    <3>1. g \in GateRow /\ g.open = gate[p].open + 1 /\ g.waiters = gate[p].waiters
      BY <2>1 DEF GateRow
    <3>2. gate' = [gate EXCEPT ![p] = g] /\ G!Goto(c, "quota")
          /\ stolen' = IF G!Woken(p) = {} THEN stolen ELSE stolen \cup {p}
      BY <1>1, <2>3 DEF G!Enter
    <3> HIDE DEF g
    <3>3. gate' \in [Processes -> GateRow] /\ Gates(p, gate[p].open + 1, gate[p].waiters)
      BY <1>0, <2>1, <3>1, <3>2 DEF Gates
    <3>4. CallEnters(c) /\ call' \in [Calls -> CallRow] /\ \A d \in Calls : Quiet(d)
      BY <2>2, <2>3, <3>2, <3>3, CallGoes DEF CallEnters, G!Open
    <3> QED
      BY <1>0, <1>same, <2>2, <3>3, <3>4 DEF GovernorTypes, GateMoves, ProbeMoves, AnswerMoves
  <2>4. CASE ~G!HasSlot(p)
    <3> DEFINE g == [gate[p] EXCEPT !.waiters = Append(@, c)]
    <3>1. g \in GateRow /\ g.open = gate[p].open /\ g.waiters = Append(gate[p].waiters, c)
      <4>1. Append(gate[p].waiters, c) \in Seq(Calls)
        BY <2>1
      <4> QED
        BY <2>1, <4>1 DEF GateRow
    <3>2. gate' = [gate EXCEPT ![p] = g] /\ G!Goto(c, "queued") /\ stolen' = stolen
      BY <1>1, <2>4 DEF G!Enter
    <3> HIDE DEF g
    <3>3. gate' \in [Processes -> GateRow] /\ Gates(p, gate[p].open, Append(gate[p].waiters, c))
      BY <1>0, <2>1, <3>1, <3>2 DEF Gates
    <3>4. Queues(c) /\ call' \in [Calls -> CallRow] /\ \A d \in Calls : Quiet(d)
      BY <2>2, <2>4, <3>2, <3>3, CallGoes DEF Queues, G!Open
    <3> QED
      BY <1>0, <1>same, <2>2, <3>3, <3>4 DEF GovernorTypes, GateMoves, ProbeMoves, AnswerMoves
  <2> QED
    BY <2>3, <2>4
<1>2. ASSUME NEW c \in Calls, G!Resume(c) PROVE GovernorTypes' /\ GateMoves /\ ProbeMoves /\ AnswerMoves
  <2> DEFINE p == Home[c]
             g == [gate[p] EXCEPT !.open = @ + 1]
  <2>1. p \in Processes /\ gate[p].open \in Nat /\ gate[p].waiters \in Seq(Calls) /\ gate[p] \in GateRow
    BY <1>0 DEF GateRow
  <2>2. g \in GateRow /\ g.open = gate[p].open + 1 /\ g.waiters = gate[p].waiters
    BY <2>1 DEF GateRow
  <2>3. /\ gate' = [gate EXCEPT ![p] = g] /\ G!Goto(c, "quota") /\ G!At(c, "woken")
        /\ UNCHANGED <<row, recent, stolen, pressure>>
    BY <1>2 DEF G!Resume
  <2> HIDE DEF g
  <2>4. gate' \in [Processes -> GateRow] /\ Gates(p, gate[p].open + 1, gate[p].waiters)
    BY <1>0, <2>1, <2>2, <2>3 DEF Gates
  <2>5. Resumes(c) /\ call' \in [Calls -> CallRow] /\ \A d \in Calls : Quiet(d)
    BY <2>3, <2>4, CallGoes DEF Resumes, G!Open
  <2> QED
    BY <1>0, <1>same, <2>3, <2>4, <2>5 DEF GovernorTypes, GateMoves, ProbeMoves, AnswerMoves

(* A call leaves, whatever happens to the row and to the last answers.     *)
<1>left. ASSUME NEW c \in Calls, call[c].stage \in G!Open, G!Leave(c), stolen' = stolen,
                row' \in GovernorRow, pressure' \in [G!Troubles -> Nat], AnswerMoves,
                SameProbe \/ Freed(c)
                  \/ (row'.probe = G!None /\ row'.epoch = row.epoch + 1)
                  \/ (row.probe = c /\ row'.probe = G!None /\ row'.epoch = row.epoch)
         PROVE  GovernorTypes' /\ GateMoves /\ ProbeMoves
  <2>1. /\ gate' \in [Processes -> GateRow] /\ call' \in [Calls -> CallRow] /\ Leaves(c)
        /\ Gone(c) /\ \A d \in Calls \ {c} : Quiet(d)
    BY <1>left, CallLeaves
  <2>2. GovernorTypes' /\ GateMoves
    BY <1>left, <1>a, <2>1 DEF GovernorTypes, GateMoves
  <2>3. ProbeMoves
    BY <1>left, <2>1 DEF ProbeMoves, Renewed, Freed
  <2> QED
    BY <2>2, <2>3

(* A call that stays in the gate goes to its next await.                   *)
<1>stays. ASSUME NEW c \in Calls, NEW to \in G!Open, G!Goto(c, to), call[c].stage \in G!Open,
                 to = "closing" => call[c].probe, UNCHANGED <<gate, stolen>>,
                 row' \in GovernorRow, pressure' \in [G!Troubles -> Nat], AnswerMoves, SameProbe
          PROVE  GovernorTypes' /\ GateMoves /\ ProbeMoves
  <2>1. /\ call' \in [Calls -> CallRow] /\ call'[c].stage = to
        /\ \A d \in Calls \ {c} : Alike(d)
        /\ \A d \in Calls : Quiet(d)
    BY <1>stays, CallGoes
  <2>2. Alike(c)
    BY <1>stays, <2>1 DEF Alike, G!Open
  <2>3. GovernorTypes' /\ GateMoves
    BY <1>0, <1>stays, <1>a, <2>1, <2>2 DEF GovernorTypes, GateMoves, Stays
  <2> QED
    BY <1>stays, <2>1, <2>3 DEF ProbeMoves
<1>3. ASSUME NEW c \in Calls, G!Refuse(c) PROVE GovernorTypes' /\ GateMoves /\ ProbeMoves /\ AnswerMoves
  <2>1. /\ call[c].stage \in G!Open /\ G!Leave(c) /\ UNCHANGED <<row, recent, stolen, pressure>>
    BY <1>3 DEF G!Refuse, G!At, G!Open
  <2>2. AnswerMoves
    BY <2>1 DEF AnswerMoves
  <2> QED
    BY <1>0, <1>same, <1>left, <2>1, <2>2
<1>4. ASSUME NEW c \in Calls, G!Wait(c) PROVE GovernorTypes' /\ GateMoves /\ ProbeMoves /\ AnswerMoves
  <2>1. /\ call[c].stage \in G!Open /\ G!Goto(c, "sleeping") /\ UNCHANGED <<gate, recent, stolen, pressure>>
        /\ row' = [row EXCEPT !.quota = G!Effective(c)]
        /\ "sleeping" \in G!Open
    BY <1>4 DEF G!Wait, G!At, G!Open
  <2>2. row' \in GovernorRow /\ SameProbe /\ row'.streak = row.streak
    BY <1>0, <1>e, <2>1 DEF GovernorRow, SameProbe
  <2>3. AnswerMoves
    BY <2>1, <2>2 DEF AnswerMoves
  <2> QED
    BY <1>0, <1>stays, <2>1, <2>2, <2>3
<1>5. ASSUME NEW c \in Calls, G!SleepEnds(c) PROVE GovernorTypes' /\ GateMoves /\ ProbeMoves /\ AnswerMoves
  <2>1. /\ call[c].stage \in G!Open /\ G!Goto(c, "quota") /\ UNCHANGED <<gate, row, recent, stolen, pressure>>
        /\ "quota" \in G!Open
    BY <1>5 DEF G!SleepEnds, G!At, G!Open
  <2>2. AnswerMoves
    BY <2>1 DEF AnswerMoves
  <2> QED
    BY <1>0, <1>same, <1>stays, <2>1, <2>2
<1>6. ASSUME NEW c \in Calls, G!Admit(c) PROVE GovernorTypes' /\ GateMoves /\ ProbeMoves /\ AnswerMoves
  <2> DEFINE r == [row EXCEPT !.used = @ + 1, !.quota = G!Effective(c), !.probe = IF G!Probing THEN c ELSE @,
                              !.expired = IF G!Probing THEN FALSE ELSE @]
             k == [call[c] EXCEPT !.stage = "calling", !.probe = G!Probing, !.epoch = row.epoch]
  <2>1. /\ G!At(c, "quota") /\ ~(G!Probing /\ G!ProbeHeld) /\ row.used < G!Effective(c) /\ row' = r
        /\ UNCHANGED <<gate, recent, stolen, pressure>>
    BY <1>6 DEF G!Admit
  <2>2. call' = [call EXCEPT ![c] = k]
    BY <1>6 DEF G!Admit
  <2>3. G!Probing \in BOOLEAN
    BY <1>r DEF G!Probing
  <2>4. /\ r.since = row.since /\ r.over = row.over /\ r.streak = row.streak /\ r.epoch = row.epoch
        /\ r.used = row.used + 1
        /\ r.probe = (IF G!Probing THEN c ELSE row.probe)
        /\ r.expired = (IF G!Probing THEN FALSE ELSE row.expired)
        /\ r \in GovernorRow
    <3>1. row.used + 1 \in 0 .. Registered
      BY <1>r, <1>e, <2>1
    <3> QED
      BY <1>0, <1>e, <3>1 DEF GovernorRow
  <2>5. k \in CallRow /\ k.stage = "calling" /\ k.probe = G!Probing /\ k.epoch = row.epoch
    <3>1. call[c] \in CallRow /\ row.epoch \in Nat /\ k = Admitted(call[c], G!Probing, row.epoch)
      BY <1>0, <1>r DEF Admitted
    <3> HIDE DEF k
    <3> QED
      BY <2>3, <3>1, AdmittedCall
  <2> HIDE DEF r, k
  <2>6. call' \in [Calls -> CallRow] /\ call'[c] = k /\ \A d \in Calls \ {c} : call'[d] = call[d]
    BY <1>0, <2>2, <2>5
  <2>7. \A d \in Calls \ {c} : Alike(d) /\ Quiet(d)
    BY <1>0, <2>6 DEF Alike, Quiet, Probes, G!At
  <2>8. Alike(c)
    BY <2>1, <2>5, <2>6 DEF Alike, G!At, G!Open
  <2>9. Admits(c)
    BY <2>1, <2>4, <2>5, <2>6, <2>7 DEF Admits
  <2>10. AnswerMoves
    BY <2>1, <2>4 DEF AnswerMoves
  <2>11. GovernorTypes'
    BY <1>0, <2>1, <2>4, <2>6 DEF GovernorTypes
  <2>12. GateMoves
    BY <2>1, <2>7, <2>8 DEF GateMoves, Stays
  <2> QED
    BY <2>9, <2>10, <2>11, <2>12 DEF ProbeMoves

(* Only the row moves.                                                     *)
<1>rows. ASSUME row' \in GovernorRow, SameProbe, row'.streak = row.streak,
                UNCHANGED <<gate, call, recent, stolen, pressure>>
         PROVE  GovernorTypes' /\ GateMoves /\ ProbeMoves /\ AnswerMoves
  BY <1>0, <1>q, <1>rows DEF GovernorTypes, GateMoves, Stays, ProbeMoves, AnswerMoves
<1>7. CASE G!NewWindow
  <2>1. row' \in GovernorRow /\ SameProbe /\ row'.streak = row.streak
    <3>1. 0 \in 0 .. Registered
      OBVIOUS
    <3> QED
      BY <1>0, <1>7, <3>1 DEF G!NewWindow, GovernorRow, SameProbe
  <2> QED
    BY <1>7, <1>rows, <2>1 DEF G!NewWindow
<1>8. CASE G!ShedEnds
  <2>1. row' \in GovernorRow /\ SameProbe /\ row'.streak = row.streak
    BY <1>0, <1>r, <1>8 DEF G!ShedEnds, GovernorRow, SameProbe
  <2> QED
    BY <1>8, <1>rows, <2>1 DEF G!ShedEnds
<1>9. CASE G!ProbeExpires
  <2>1. /\ row' = [row EXCEPT !.expired = TRUE] /\ UNCHANGED <<gate, recent, stolen>>
        /\ pressure' = pressure \/ G!Suffer("stall")
        /\ call' = [c \in Calls |-> IF c = row.probe /\ G!ProbeLives
                                      THEN [call[c] EXCEPT !.late = TRUE] ELSE call[c]]
    BY <1>9 DEF G!ProbeExpires
  <2>2. row' \in GovernorRow /\ row'.probe = row.probe /\ row'.epoch = row.epoch /\ row'.streak = row.streak
    BY <1>0, <1>r, <2>1 DEF GovernorRow
  <2>3. pressure' \in [G!Troubles -> Nat]
    BY <1>0, <1>s, <2>1 DEF G!Troubles
  <2>4. ASSUME NEW c \in Calls
        PROVE  /\ [call[c] EXCEPT !.late = TRUE] \in CallRow
               /\ [call[c] EXCEPT !.late = TRUE].stage = call[c].stage
               /\ [call[c] EXCEPT !.late = TRUE].probe = call[c].probe
               /\ [call[c] EXCEPT !.late = TRUE].epoch = call[c].epoch
               /\ [call[c] EXCEPT !.late = TRUE].late
    BY <1>0, LateCall
  <2>5. call' \in [Calls -> CallRow]
    BY <1>0, <2>1, <2>4
  <2>6. \A d \in Calls : /\ call'[d].probe = call[d].probe /\ call'[d].epoch = call[d].epoch
                         /\ call'[d].stage = call[d].stage
                         /\ call'[d].late = call[d].late \/ (call'[d].late /\ d = row.probe)
    BY <2>1, <2>4
  <2>7. row.probe \in Calls /\ call[row.probe].probe => call'[row.probe].late
    BY <2>1, <2>4 DEF G!ProbeLives
  <2>8. \A d \in Calls : Alike(d)
    BY <2>6 DEF Alike
  <2>9. GovernorTypes' /\ GateMoves
    BY <1>0, <2>1, <2>2, <2>3, <2>5, <2>8 DEF GovernorTypes, GateMoves, Stays
  <2>10. ProbeMoves /\ AnswerMoves
    BY <2>1, <2>2, <2>6, <2>7 DEF ProbeMoves, Expires, AnswerMoves
  <2> QED
    BY <2>9, <2>10
<1>10. ASSUME NEW c \in Calls, G!Answer(c) PROVE GovernorTypes' /\ GateMoves /\ ProbeMoves /\ AnswerMoves
  <2>1. /\ call[c].stage \in G!Open /\ UNCHANGED <<gate, row, recent, stolen>>
        /\ \E to \in {"ok", "pressed", "failed"} : G!Goto(c, to)
        /\ pressure' = pressure \/ G!Suffer("pressure") \/ G!Suffer("error")
    BY <1>10 DEF G!Answer, G!At, G!Open
  <2>2. PICK to \in {"ok", "pressed", "failed"} : G!Goto(c, to)
    BY <2>1
  <2>3. pressure' \in [G!Troubles -> Nat]
    BY <1>0, <1>s, <2>1 DEF G!Troubles
  <2>4. to \in G!Open /\ to # "closing"
    BY DEF G!Open
  <2>5. AnswerMoves
    BY <2>1 DEF AnswerMoves
  <2> QED
    BY <1>0, <1>same, <1>stays, <2>1, <2>2, <2>3, <2>4, <2>5
<1>11. ASSUME NEW c \in Calls, G!Succeed(c) PROVE GovernorTypes' /\ GateMoves /\ ProbeMoves /\ AnswerMoves
  <2>1. /\ call[c].stage \in G!Open /\ row' = [row EXCEPT !.streak = 0] /\ G!Remember("ok")
        /\ UNCHANGED <<stolen, pressure>>
        /\ (call[c].probe /\ G!Goto(c, "closing") /\ UNCHANGED gate) \/ G!Leave(c)
        /\ "closing" \in G!Open
    BY <1>11 DEF G!Succeed, G!At, G!Open
  <2>2. row' \in GovernorRow /\ SameProbe /\ row'.streak = 0
    BY <1>0, <1>r, <2>1 DEF GovernorRow, SameProbe
  <2>3. AnswerMoves
    BY <2>1, <2>2 DEF AnswerMoves
  <2> QED
    BY <1>0, <1>stays, <1>left, <2>1, <2>2, <2>3
<1>12. ASSUME NEW c \in Calls,
              G!CloseProbe(c) PROVE GovernorTypes' /\ GateMoves /\ ProbeMoves /\ AnswerMoves
  <2>1. /\ call[c].stage \in G!Open /\ G!Leave(c) /\ UNCHANGED <<recent, stolen, pressure>>
    BY <1>12 DEF G!CloseProbe, G!At, G!Open
  <2>2. /\ row' \in GovernorRow /\ row'.streak = row.streak
        /\ SameProbe \/ (row.probe = c /\ row'.probe = G!None /\ row'.epoch = row.epoch)
    BY <1>0, <1>r, <1>12 DEF G!CloseProbe, G!EndsShedding, GovernorRow, SameProbe
  <2>3. AnswerMoves
    BY <2>1, <2>2 DEF AnswerMoves
  <2> QED
    BY <1>0, <1>left, <2>1, <2>2, <2>3
<1>13. ASSUME NEW c \in Calls, G!Fail(c) PROVE GovernorTypes' /\ GateMoves /\ ProbeMoves /\ AnswerMoves
  <2>1. /\ call[c].stage \in {"pressed", "failed"} /\ G!Leave(c) /\ UNCHANGED <<stolen, pressure>>
        /\ G!Remember(call[c].stage)
    BY <1>13 DEF G!Fail
  <2>2. G!Streak(c) \in Nat /\ G!Streak(c) = IF call[c].stage = "pressed" THEN row.streak + 1 ELSE 0
    BY <1>r DEF G!Streak, G!At
  <2>3. /\ row' \in GovernorRow /\ row'.streak = G!Streak(c)
        /\ \/ SameProbe
           \/ row'.probe = G!None /\ row'.epoch = row.epoch + 1
           \/ row.probe = c /\ row'.probe = G!None /\ row'.epoch = row.epoch
    <3> DEFINE r1 == [row EXCEPT !.streak = G!Streak(c), !.since = TRUE, !.over = FALSE,
                                 !.probe = G!None, !.expired = FALSE, !.epoch = @ + 1]
               r2 == [row EXCEPT !.streak = G!Streak(c), !.probe = G!None, !.expired = FALSE]
               r3 == [row EXCEPT !.streak = G!Streak(c)]
    <3>1. row' = r1 \/ (row.probe = c /\ row' = r2) \/ row' = r3
      BY <1>13 DEF G!Fail
    <3>2. r1 \in GovernorRow /\ r1.streak = G!Streak(c) /\ r1.probe = G!None /\ r1.epoch = row.epoch + 1
      <4>1. row.epoch + 1 \in Nat
        BY <1>r
      <4> QED
        BY <1>0, <2>2, <4>1 DEF GovernorRow
    <3>3. r2 \in GovernorRow /\ r2.streak = G!Streak(c) /\ r2.probe = G!None /\ r2.epoch = row.epoch
      BY <1>0, <1>r, <2>2 DEF GovernorRow
    <3>4. r3 \in GovernorRow /\ r3.streak = G!Streak(c) /\ r3.probe = row.probe /\ r3.epoch = row.epoch
          /\ r3.expired = row.expired
      BY <1>0, <1>r, <2>2 DEF GovernorRow
    <3> HIDE DEF r1, r2, r3
    <3> QED
      BY <3>1, <3>2, <3>3, <3>4 DEF SameProbe
  <2>4. AnswerMoves
    BY <2>1, <2>2, <2>3 DEF AnswerMoves
  <2>5. call[c].stage \in G!Open
    BY <2>1 DEF G!Open
  <2> QED
    BY <1>0, <1>left, <2>1, <2>3, <2>4, <2>5
<1>14. ASSUME NEW c \in Calls,
              G!QueryFails(c) PROVE GovernorTypes' /\ GateMoves /\ ProbeMoves /\ AnswerMoves
  <2>1. /\ call[c].stage \in G!Open /\ G!Suffer("fault") /\ UNCHANGED <<row, recent, stolen>>
        /\ (G!Goto(c, "failed") /\ UNCHANGED gate) \/ G!Leave(c)
        /\ "failed" \in G!Open
    BY <1>14 DEF G!QueryFails, G!Open
  <2>2. pressure' \in [G!Troubles -> Nat]
    BY <1>s, <2>1 DEF G!Troubles
  <2>3. AnswerMoves
    BY <2>1 DEF AnswerMoves
  <2> QED
    BY <1>0, <1>same, <1>stays, <1>left, <2>1, <2>2, <2>3
<1>15. ASSUME NEW p \in Processes, G!Crash(p) PROVE GovernorTypes' /\ GateMoves /\ ProbeMoves /\ AnswerMoves
  <2>1. /\ G!Suffer("crash") /\ gate' = [gate EXCEPT ![p] = G!EmptyGate]
        /\ call' = [c \in Calls |-> IF Home[c] = p THEN G!Fresh ELSE call[c]]
        /\ UNCHANGED <<row, recent, stolen>>
    BY <1>15 DEF G!Crash
  <2>2. pressure' \in [G!Troubles -> Nat]
    BY <1>s, <2>1 DEF G!Troubles
  <2>3. G!EmptyGate \in GateRow /\ G!EmptyGate.open = 0 /\ G!EmptyGate.waiters = << >>
    BY DEF G!EmptyGate, GateRow
  <2>4. G!Fresh \in CallRow /\ G!Fresh.stage = "idle" /\ ~G!Fresh.probe /\ G!Fresh.epoch = 0
    BY DEF G!Fresh, CallRow
  <2>5. call' \in [Calls -> CallRow] /\ gate' \in [Processes -> GateRow]
    BY <1>0, <2>1, <2>3, <2>4
  <2>6. Crashes(p)
    BY <1>0, <2>1, <2>3, <2>4 DEF Crashes, Gates, Alike
  <2>7. \A d \in Calls : Quiet(d) \/ Gone(d)
    BY <1>0, <2>1, <2>4 DEF Quiet, Gone, Probes, G!At
  <2>8. GovernorTypes'
    BY <1>0, <2>1, <2>2, <2>5 DEF GovernorTypes
  <2> QED
    BY <1>same, <2>1, <2>6, <2>7, <2>8 DEF GateMoves, ProbeMoves, AnswerMoves
<1> QED
  BY <1>1, <1>2, <1>3, <1>4, <1>5, <1>6, <1>7, <1>8, <1>9, <1>10, <1>11, <1>12, <1>13, <1>14, <1>15
     DEF G!Next, G!CallStep

(* Every step is one of these moves and keeps the invariant.               *)
LEMMA GovernorStep == GovernorInv /\ [G!Next]_(G!vars) => GovernorInv'
<1> SUFFICES ASSUME GovernorInv, [G!Next]_(G!vars) PROVE GovernorInv'
  OBVIOUS
<1>1. CASE UNCHANGED G!vars
  <2>1. gate' = gate /\ row' = row /\ call' = call /\ recent' = recent /\ stolen' = stolen /\ pressure' = pressure
    BY <1>1 DEF G!vars
  <2>2. GovernorTypes'
    BY <2>1 DEF GovernorInv, GovernorTypes
  <2>3. \A p \in Processes : GateInv(p)'
    BY <2>1 DEF GovernorInv, GateInv, OpenAt, QueuedAt, G!Woken, G!At
  <2>4. Probes' /\ Answers'
    BY <2>1 DEF GovernorInv, Probes, Lives, Answers, G!At
  <2> QED
    BY <2>2, <2>3, <2>4 DEF GovernorInv
<1>2. CASE G!Next
  <2>1. GovernorTypes' /\ GateMoves /\ ProbeMoves /\ AnswerMoves
    BY <1>2, StepMoves
  <2>2. \A p \in Processes : GateInv(p)'
    BY <2>1, GateKept
  <2>3. Probes' /\ Answers'
    BY <2>1, ProbesKept, AnswersKept
  <2> QED
    BY <2>1, <2>2, <2>3 DEF GovernorInv
<1> QED
  BY <1>1, <1>2

(* The governor keeps its invariant, whatever its calls are answered       *)
(* (rate-governor.ts:221, 264).                                            *)
THEOREM GovernorHolds == G!Spec => []GovernorInv
<1>1. G!Spec => []GovernorInv
  BY GovernorInit, GovernorStep, PTL DEF G!Spec
<1> QED
  BY <1>1

(* The instance counts as the module does.                                 *)
LEMMA GateCounts == \A W : G!Cardinality(W) = Cardinality(W)
  BY DEF G!Cardinality, Cardinality

(* The invariant implies what is checked: types, the bound on open calls   *)
(* (rate-governor.ts:221), no forgotten waiter (231), one probe (264).     *)
LEMMA GovernorProps == GovernorInv => G!TypeOK /\ G!GateBoundsCalls /\ G!NoForgottenWaiter /\ G!OneProbe
<1> SUFFICES ASSUME GovernorInv PROVE G!TypeOK /\ G!GateBoundsCalls /\ G!NoForgottenWaiter /\ G!OneProbe
  OBVIOUS
<1>1. ASSUME NEW p \in Processes
      PROVE  /\ gate[p].open \in Nat /\ Cardinality(G!Woken(p)) \in Nat
             /\ gate[p].open = Cardinality({c \in Calls : Home[c] = p /\ call[c].stage \in G!Open})
             /\ G!Range(gate[p].waiters) = {c \in Calls : Home[c] = p /\ G!At(c, "queued")}
  <2>1. gate[p].open = Cardinality(OpenAt(p)) /\ Members(gate[p].waiters) = QueuedAt(p)
    BY DEF GovernorInv, GateInv
  <2>2. gate[p].open \in Nat
    BY DEF GovernorInv, GovernorTypes, GateRow
  <2> QED
    BY <2>1, <2>2, CallCounted DEF OpenAt, QueuedAt, Members, G!Range
<1>2. G!TypeOK
  BY <1>1, GateCounts DEF GovernorInv, GovernorTypes, GovernorRow, CallRow, G!TypeOK
<1>3. G!GateBoundsCalls
  <2> SUFFICES ASSUME NEW p \in Processes, p \notin stolen PROVE gate[p].open <= Limit
    BY DEF G!GateBoundsCalls
  <2> DEFINE o == gate[p].open
             w == Cardinality(G!Woken(p))
  <2>1. o + w <= Limit
    BY DEF GovernorInv, GateInv
  <2>2. o \in Nat /\ w \in Nat /\ Limit \in Nat
    BY <1>1, PolicyAssumption
  <2> HIDE DEF o, w
  <2>3. o <= Limit
    BY <2>1, <2>2
  <2> QED
    BY <2>3 DEF o
<1>4. G!NoForgottenWaiter
  BY GateCounts DEF GovernorInv, GateInv, G!NoForgottenWaiter
<1>5. G!OneProbe
  BY DEF GovernorInv, Probes, Lives, G!OneProbe
<1> QED
  BY <1>2, <1>3, <1>4, <1>5

(* A step sheds only after pressure, and ends shedding by a fresh probe.   *)
OpensStep == row'.since /\ ~row.since =>
               Len(recent') = Pressures /\ \A i \in DOMAIN recent' : recent'[i] = "pressed"
ClosesStep == row.since /\ ~row'.since =>
                \E c \in Calls : G!At(c, "closing") /\ ~G!At(c, "closing")' /\ call[c].epoch = row.epoch

(* A step that begins to shed comes after pressure, and one that ends it   *)
(* is of a fresh probe.                                                    *)
LEMMA SheddingSteps ==
  ASSUME GovernorInv, [G!Next]_(G!vars) PROVE OpensStep /\ ClosesStep
<1>0. GovernorInv' /\ row \in GovernorRow /\ GovernorTypes'
  BY GovernorStep DEF GovernorInv, GovernorTypes
<1>1. row' = row => OpensStep /\ ClosesStep
  BY DEF OpensStep, ClosesStep
<1>2. ASSUME NEW c \in Calls, G!Admit(c) PROVE OpensStep /\ ClosesStep
  <2>1. row'.since = row.since
    BY <1>0, <1>2 DEF G!Admit, GovernorRow
  <2> QED
    BY <2>1 DEF OpensStep, ClosesStep
<1>3. ASSUME G!NewWindow \/ G!ShedEnds \/ G!ProbeExpires PROVE OpensStep /\ ClosesStep
  <2>1. row'.since = row.since
    BY <1>0, <1>3 DEF G!NewWindow, G!ShedEnds, G!ProbeExpires, GovernorRow
  <2> QED
    BY <2>1 DEF OpensStep, ClosesStep
<1>4. ASSUME NEW c \in Calls, G!Succeed(c) PROVE OpensStep /\ ClosesStep
  <2>1. row'.since = row.since
    BY <1>0, <1>4 DEF G!Succeed, GovernorRow
  <2> QED
    BY <2>1 DEF OpensStep, ClosesStep
<1>5. ASSUME NEW c \in Calls, G!CloseProbe(c) PROVE OpensStep /\ ClosesStep
  <2>1. CASE G!EndsShedding(c)
    <3>1. G!At(c, "closing") /\ G!Leave(c) /\ row.probe = c /\ row.since
      BY <1>5, <2>1 DEF G!CloseProbe, G!EndsShedding
    <3>2. call[c].probe /\ call[c].epoch = row.epoch
      BY <3>1 DEF GovernorInv, Probes
    <3>3. ~G!At(c, "closing")'
      BY <3>1, CallLeaves DEF Gone, G!At, G!Open
    <3> QED
      BY <3>1, <3>2, <3>3 DEF OpensStep, ClosesStep
  <2>2. CASE ~G!EndsShedding(c)
    BY <1>1, <1>5, <2>2 DEF G!CloseProbe
  <2> QED
    BY <2>1, <2>2
<1>6. ASSUME NEW c \in Calls, G!Fail(c) PROVE OpensStep /\ ClosesStep
  <2>1. row'.since => row.since \/ (G!Streak(c) >= Pressures /\ row'.streak = G!Streak(c))
    BY <1>0, <1>6 DEF G!Fail, GovernorRow
  <2>2. row.since => row'.since
    BY <1>0, <1>6 DEF G!Fail, GovernorRow
  <2>3. ASSUME row'.since, ~row.since
        PROVE  Len(recent') = Pressures /\ \A i \in DOMAIN recent' : recent'[i] = "pressed"
    <3>1. row'.streak >= Pressures
      BY <2>1, <2>3
    <3>2. /\ Len(recent') <= Pressures /\ (row'.streak <= Len(recent') \/ Pressures = Len(recent'))
          /\ \A i \in DOMAIN recent' : i > Len(recent') - row'.streak => recent'[i] = "pressed"
      BY <1>0 DEF GovernorInv, Answers
    <3>3. row'.streak \in Nat /\ Len(recent') \in Nat /\ DOMAIN recent' = 1 .. Len(recent')
      BY <1>0 DEF GovernorTypes, GovernorRow
    <3> DEFINE n == Len(recent')
               t == row'.streak
    <3>a. n \in Nat /\ t \in Nat /\ Pressures \in Nat /\ t >= Pressures /\ n <= Pressures
          /\ (t <= n \/ Pressures = n) /\ DOMAIN recent' = 1 .. n
      BY <3>1, <3>2, <3>3, PolicyAssumption
    <3> HIDE DEF n, t
    <3>4. n = Pressures
      BY <3>a
    <3>5. \A i \in DOMAIN recent' : i > n - t
      BY <3>a, <3>4
    <3> QED
      BY <3>2, <3>4, <3>5 DEF n, t
  <2> QED
    BY <2>2, <2>3 DEF OpensStep, ClosesStep
<1>7. CASE UNCHANGED G!vars
  BY <1>1, <1>7 DEF G!vars
<1>8. ASSUME NEW c \in Calls, G!Wait(c) PROVE OpensStep /\ ClosesStep
  <2>1. row'.since = row.since
    BY <1>0, <1>8 DEF G!Wait, GovernorRow
  <2> QED
    BY <2>1 DEF OpensStep, ClosesStep
<1>9. CASE G!Next
  BY <1>1, <1>2, <1>3, <1>4, <1>5, <1>6, <1>8, <1>9
     DEF G!Next, G!CallStep, G!Enter, G!Resume, G!Refuse, G!SleepEnds, G!Answer, G!QueryFails, G!Crash
<1> QED
  BY <1>7, <1>9

(* Shedding begins only after consecutive pressure answers (rate-          *)
(* governor.ts:376), and only a fresh probe ends it (332).                 *)
THEOREM ShedsFairly == G!Spec => G!OpensUnderPressure /\ G!ClosedByFreshProbe
<1>1. GovernorInv /\ [G!Next]_(G!vars) => [OpensStep]_(G!vars) /\ [ClosesStep]_(G!vars)
  BY SheddingSteps
<1>2. G!OpensUnderPressure <=> [][OpensStep]_(G!vars)
  BY DEF G!OpensUnderPressure, OpensStep
<1>3. G!ClosedByFreshProbe <=> [][ClosesStep]_(G!vars)
  BY DEF G!ClosedByFreshProbe, ClosesStep
<1> HIDE DEF OpensStep, ClosesStep
<1> QED
  BY <1>1, <1>2, <1>3, GovernorHolds, PTL DEF G!Spec
-----------------------------------------------------------------------------
(* InboundWebhook: deliveries, their handler and the registry's tasks.     *)
(*                                                                         *)
(* RowsInv is about the deliveries and the handler at the head of the      *)
(* line: what a row records as applied is what the consumer moved for it   *)
(* (Recorded). RegistryInv is about the tasks: each knows its delivery and *)
(* is past its handler only when that delivery is finished (RowInv), and   *)
(* an event that a task claimed or settled is held by it, or finished,     *)
(* kept as a dead letter, or dropped (Redeemed). A step is one of the      *)
(* registry with one task (RegistryMove), one of the handler, or the head  *)
(* of the line returning; what is finished stays so (Gains).               *)

-----------------------------------------------------------------------------
(* The line as a task is put behind it or leaves its head.                 *)
Typed(q) == q \in Seq(I!Tasks) /\ I!IsInjective(q)

(* A task put at the end of a line joins it, behind its head.              *)
LEMMA PutBehind ==
  ASSUME NEW q, Typed(q), NEW d \in I!Tasks, d \notin I!Range(q)
  PROVE  /\ Typed(Append(q, d)) /\ I!Range(Append(q, d)) = I!Range(q) \cup {d}
         /\ Append(q, d) # << >> /\ (q # << >> => Head(Append(q, d)) = Head(q))
<1> DEFINE n == Len(q)
           a == Append(q, d)
<1>1. q \in Seq(I!Tasks) /\ n \in Nat /\ DOMAIN q = 1 .. n
  BY DEF Typed
<1>2. /\ a \in Seq(I!Tasks) /\ Len(a) = n + 1 /\ DOMAIN a = 1 .. (n + 1)
      /\ \A i \in 1 .. n : a[i] = q[i]
      /\ a[n + 1] = d
  BY <1>1
<1>3. q # << >> => n >= 1 /\ Head(a) = a[1] /\ Head(q) = q[1]
  BY <1>1, <1>2
<1>4. a # << >>
  BY <1>1
<1> HIDE DEF n, a
<1>5. \A i, j \in 1 .. n : q[i] = q[j] => i = j
  BY <1>1 DEF Typed, I!IsInjective
<1>6. \A i \in 1 .. n : q[i] # d
  BY <1>1 DEF I!Range
<1>7. I!IsInjective(a)
  BY <1>1, <1>2, <1>5, <1>6 DEF I!IsInjective
<1>8. I!Range(a) = I!Range(q) \cup {d}
  BY <1>1, <1>2 DEF I!Range
<1>9. q # << >> => Head(a) = Head(q)
  BY <1>1, <1>2, <1>3
<1> QED
  BY <1>2, <1>4, <1>7, <1>8, <1>9 DEF Typed, a

(* A line without its head has lost that task only.                        *)
LEMMA LeavesHead ==
  ASSUME NEW q, Typed(q), q # << >>
  PROVE  /\ Typed(Tail(q)) /\ I!Range(Tail(q)) = I!Range(q) \ {Head(q)} /\ Head(q) \in I!Tasks
         /\ Head(q) \in I!Range(q)
<1> DEFINE n == Len(q)
           t == Tail(q)
           h == Head(q)
<1>1. q \in Seq(I!Tasks) /\ n \in Nat \ {0} /\ DOMAIN q = 1 .. n
  BY DEF Typed
<1>2. /\ t \in Seq(I!Tasks) /\ DOMAIN t = 1 .. (n - 1) /\ h = q[1] /\ h \in I!Tasks
      /\ \A i \in 1 .. (n - 1) : t[i] = q[i + 1]
  BY <1>1
<1> HIDE DEF n, t, h
<1>3. \A i, j \in 1 .. n : q[i] = q[j] => i = j
  BY <1>1 DEF Typed, I!IsInjective
<1>4. \A i \in 1 .. (n - 1) : i + 1 \in 1 .. n /\ q[i + 1] # h
  BY <1>1, <1>2, <1>3
<1>5. \A i \in 2 .. n : i - 1 \in 1 .. (n - 1) /\ t[i - 1] = q[i]
  BY <1>1, <1>2
<1>6. I!IsInjective(t)
  BY <1>1, <1>2, <1>3, <1>4 DEF I!IsInjective
<1>7. I!Range(t) \subseteq I!Range(q) \ {h}
  BY <1>1, <1>2, <1>4 DEF I!Range
<1>8. I!Range(q) \ {h} \subseteq I!Range(t)
  <2> SUFFICES ASSUME NEW i \in 1 .. n, q[i] # h PROVE q[i] \in I!Range(t)
    BY <1>1 DEF I!Range
  <2>1. i \in 2 .. n
    BY <1>1, <1>2
  <2> QED
    BY <1>2, <1>5, <2>1 DEF I!Range
<1>9. h \in I!Range(q)
  BY <1>1, <1>2 DEF I!Range
<1> QED
  BY <1>2, <1>6, <1>7, <1>8, <1>9 DEF Typed, t, h

HookStatuses == {"none", "queued", "processing", "completed", "failed"}
DeliveryRow == [status : HookStatuses, attempts : Nat, applied : SUBSET Stories]
Handler == [stage : {"rest", "link", "move", "publish"}, todo : SUBSET Stories, applied : SUBSET Stories]
RowTypes == /\ delivery \in [Deliveries -> DeliveryRow]
            /\ hand \in Handler
            /\ story \in [Stories -> {"Planned", "InProgress", "InReview"}]
            /\ links \subseteq Deliveries \X Stories /\ moved \subseteq Deliveries \X Stories
            /\ troubled \subseteq Deliveries

TaskStages == {"idle", "claim", "line", "again", "mark", "clear", "markFailed", "letter", "settle", "report"}
TaskRow == [stage : TaskStages, of : Deliveries \cup {"none"}, tries : 0 .. Retries - 1, processed : BOOLEAN]
Claims == {"none", "processing", "processed", "failed"}
Letters == {"none", "dead", "replayed", "discarded"}
QueueTypes == /\ event \in [Deliveries -> {"none", "pending", "dispatched"}]
              /\ consumption \in [Deliveries -> Claims] /\ letter \in [Deliveries -> Letters]
              /\ task \in [I!Tasks -> TaskRow] /\ Typed(line) /\ dropped \subseteq Deliveries

(* The stories this consumer moved for a delivery.                         *)
MovedBy(d) == {i \in Stories : <<d, i>> \in moved}

Recorded(d) ==
  /\ delivery[d].status = "failed" => delivery[d].attempts >= Retries
  /\ delivery[d].status = "completed" => delivery[d].applied \subseteq MovedBy(d) /\ I!Linked(d) \subseteq links
  /\ d \notin troubled /\ delivery[d].status = "completed" => MovedBy(d) = delivery[d].applied
  /\ d \notin troubled /\ delivery[d].status # "completed" /\ ~(hand.stage = "move" /\ d = I!D)
       => MovedBy(d) = {}

(* The handler works for the delivery at the head of the line, and has     *)
(* moved what it will report.                                              *)
AtHead ==
  /\ hand.stage # "rest" => I!AtWork
  /\ hand.stage \in {"link", "move"} => delivery[I!D].status = "processing"
  /\ hand.stage = "publish" => delivery[I!D].status = "completed"
  /\ hand.stage = "link" => hand.applied = {}
  /\ hand.stage = "move" => /\ I!Linked(I!D) \subseteq links /\ hand.applied \subseteq MovedBy(I!D)
                            /\ I!D \notin troubled => MovedBy(I!D) = hand.applied

RowsInv == RowTypes /\ AtHead /\ \A d \in Deliveries : Recorded(d)

(* A delivery is completed for good; a task has it between claim and       *)
(* outcome; it is completed, kept or dropped; somebody relies on it.       *)
Finished(d) == delivery[d].status = "completed" /\ ~(hand.stage = "publish" /\ d = I!D)
Held(d) == task[d].stage \in {"line", "again", "mark", "clear", "markFailed", "letter"}
Secured(d) == Finished(d) \/ letter[d] # "none" \/ d \in dropped
Owed(d) == consumption[d] = "processing" \/ event[d] = "dispatched" \/ task[d].stage = "settle"

Redeemed(d) ==
  /\ event[d] = "none" <=> delivery[d].status = "none"
  /\ letter[d] # "none" => delivery[d].status # "none"
  /\ consumption[d] = "processed" \/ letter[d] = "replayed" => Finished(d)
  /\ Owed(d) => Held(d) \/ Secured(d)

RowInv(t, r) ==
  r.stage # "idle" =>
    /\ r.of \in Deliveries /\ delivery[r.of].status # "none"
    /\ t \in Deliveries => r.of = t
    /\ t \in Operators => letter[r.of] # "none"
    /\ r.stage \in {"mark", "clear"} \/ r.processed => Finished(r.of)
    /\ r.stage = "settle" => t \in Deliveries
    /\ r.stage = "report" => t \in Operators
TaskInv(t) == /\ task[t].stage = "line" <=> t \in I!Range(line)
              /\ RowInv(t, task[t])

RegistryInv == /\ QueueTypes
               /\ \A t \in I!Tasks : TaskInv(t)
               /\ \A d \in Deliveries : Redeemed(d)

WebhookInv == RowsInv /\ RegistryInv

(* No delivery, no task and a handler at rest satisfy the invariant.       *)
LEMMA WebhookInit == I!Init => WebhookInv
<1> SUFFICES ASSUME I!Init PROVE WebhookInv
  OBVIOUS
<1>1. /\ I!NoRow \in DeliveryRow /\ I!NoRow.status = "none" /\ I!Rest \in Handler /\ I!Rest.stage = "rest"
      /\ I!Free \in TaskRow /\ I!Free.stage = "idle"
  <2>1. 0 \in 0 .. Retries - 1
    BY MentionsAssumption
  <2> QED
    BY <2>1 DEF I!NoRow, DeliveryRow, HookStatuses, I!Rest, Handler, I!Free, TaskRow, TaskStages
<1>2. /\ line = << >> /\ hand = I!Rest /\ links = {} /\ moved = {} /\ troubled = {} /\ dropped = {}
      /\ delivery = [d \in Deliveries |-> I!NoRow] /\ event = [d \in Deliveries |-> "none"]
      /\ consumption = [d \in Deliveries |-> "none"] /\ letter = [d \in Deliveries |-> "none"]
      /\ task = [t \in I!Tasks |-> I!Free] /\ story \in [Stories -> {"InProgress", "Planned"}]
  BY DEF I!Init
<1>3. Typed(line) /\ I!Range(line) = {}
  BY <1>2 DEF Typed, I!IsInjective, I!Range
<1>4. story \in [Stories -> {"Planned", "InProgress", "InReview"}]
  BY <1>2
<1>5. RowTypes /\ QueueTypes
  BY <1>1, <1>2, <1>3, <1>4 DEF RowTypes, QueueTypes, Claims, Letters
<1>6. AtHead
  BY <1>1, <1>2 DEF AtHead
<1>7. \A d \in Deliveries : d \in I!Tasks
  BY DEF I!Tasks
<1>8. ASSUME NEW d \in Deliveries PROVE Recorded(d) /\ Redeemed(d)
  BY <1>1, <1>2, <1>7 DEF Recorded, MovedBy, Redeemed, Owed
<1>9. ASSUME NEW t \in I!Tasks PROVE TaskInv(t)
  BY <1>1, <1>2, <1>3 DEF TaskInv, RowInv
<1> QED
  BY <1>5, <1>6, <1>8, <1>9 DEF WebhookInv, RowsInv, RegistryInv

-----------------------------------------------------------------------------
(* What the head of the line is, and what a step leaves as it is.          *)
LEMMA HeadOfLine ==
  ASSUME WebhookInv, I!AtWork
  PROVE  /\ Head(line) \in I!Tasks /\ task[Head(line)].stage = "line" /\ task[Head(line)] \in TaskRow
         /\ I!D = task[Head(line)].of /\ I!D \in Deliveries /\ delivery[I!D].status # "none"
         /\ Typed(Tail(line)) /\ I!Range(Tail(line)) = I!Range(line) \ {Head(line)}
<1> DEFINE h == Head(line)
<1>1. Typed(line) /\ line # << >>
  BY DEF WebhookInv, RegistryInv, QueueTypes, I!AtWork
<1>2. /\ h \in I!Tasks /\ h \in I!Range(line)
      /\ Typed(Tail(line)) /\ I!Range(Tail(line)) = I!Range(line) \ {h}
  BY <1>1, LeavesHead
<1>3. TaskInv(h) /\ task[h] \in TaskRow
  BY <1>2 DEF WebhookInv, RegistryInv, QueueTypes
<1>4. task[h].stage = "line" /\ task[h].of \in Deliveries /\ delivery[task[h].of].status # "none"
  BY <1>2, <1>3 DEF TaskInv, RowInv
<1> QED
  BY <1>2, <1>3, <1>4 DEF I!D

RowsStay == /\ UNCHANGED <<delivery, hand, links, moved, troubled>>
            /\ story' \in [Stories -> {"Planned", "InProgress", "InReview"}]
HeadStays == hand.stage # "rest" => I!AtWork' /\ I!D' = I!D
Gains == \A d \in Deliveries : /\ Finished(d) => Finished(d)'
                               /\ delivery[d].status # "none" => delivery'[d].status # "none"
                               /\ letter[d] # "none" => letter'[d] # "none"
                               /\ d \in dropped => d \in dropped'

(* The rows and the handler are as they were.                              *)
LEMMA RowsKeep ==
  ASSUME WebhookInv, RowsStay, HeadStays
  PROVE  RowsInv' /\ \A d \in Deliveries : Finished(d)' <=> Finished(d)
<1>1. /\ delivery' = delivery /\ hand' = hand /\ links' = links /\ moved' = moved /\ troubled' = troubled
      /\ RowTypes /\ AtHead /\ \A d \in Deliveries : Recorded(d)
  BY DEF RowsStay, WebhookInv, RowsInv
<1>2. \A d : MovedBy(d)' = MovedBy(d) /\ I!Linked(d)' = I!Linked(d)
  BY <1>1 DEF MovedBy, I!Linked
<1>3. RowTypes'
  BY <1>1 DEF RowTypes, RowsStay
<1>4. AtHead'
  <2>1. hand.stage # "rest" => I!Linked(I!D)' = I!Linked(I!D) /\ MovedBy(I!D)' = MovedBy(I!D)
    BY <1>1 DEF MovedBy, I!Linked, HeadStays
  <2> QED
    BY <1>1, <2>1 DEF AtHead, HeadStays
<1>5. ASSUME NEW d \in Deliveries PROVE Recorded(d)'
  BY <1>1, <1>2 DEF Recorded, HeadStays
<1>6. ASSUME NEW d \in Deliveries PROVE Finished(d)' <=> Finished(d)
  BY <1>1 DEF Finished, HeadStays
<1> QED
  BY <1>3, <1>4, <1>5, <1>6 DEF RowsInv

(* What is true of a task stays so while nothing is taken back.            *)
LEMMA RowInvGrows ==
  ASSUME Gains, NEW t, NEW r, RowInv(t, r)
  PROVE  RowInv(t, r)'
  BY DEF Gains, RowInv

-----------------------------------------------------------------------------
(* A step of the registry with a task t of a delivery d, which becomes r.  *)
LineSteps(t, r) == \/ line' = line /\ (r = task[t] \/ (r.stage # "line" /\ task[t].stage # "line"))
                   \/ line' = Append(line, t) /\ r.stage = "line" /\ task[t].stage # "line"
RegistryMove(t, d, r) ==
  /\ RowsStay /\ (t \in Deliveries => t = d)
  /\ task' = [task EXCEPT ![t] = r] /\ LineSteps(t, r)
  /\ event' \in [Deliveries -> {"none", "pending", "dispatched"}]
  /\ consumption' \in [Deliveries -> Claims] /\ letter' \in [Deliveries -> Letters]
  /\ dropped \subseteq dropped' /\ dropped' \subseteq Deliveries
  /\ \A e \in Deliveries \ {d} : /\ event'[e] = event[e] /\ consumption'[e] = consumption[e]
                                 /\ letter'[e] = letter[e]
  /\ letter[d] # "none" => letter'[d] # "none"

LEMMA RegistryTypes ==
  ASSUME WebhookInv, NEW t \in I!Tasks, NEW d \in Deliveries, NEW r \in TaskRow, RegistryMove(t, d, r)
  PROVE  /\ QueueTypes' /\ RowsInv' /\ Gains
         /\ task'[t] = r /\ \A u \in I!Tasks \ {t} : task'[u] = task[u]
         /\ \A e \in Deliveries : (Finished(e)' <=> Finished(e)) /\ delivery'[e] = delivery[e]
         /\ \A u \in I!Tasks : u \in I!Range(line)' <=> u \in I!Range(line) \/ (u = t /\ r.stage = "line")
<1>0. /\ task \in [I!Tasks -> TaskRow] /\ Typed(line) /\ RowsInv
      /\ task[t].stage = "line" <=> t \in I!Range(line)
  BY DEF WebhookInv, RegistryInv, QueueTypes, TaskInv
<1>1. task' \in [I!Tasks -> TaskRow] /\ task'[t] = r /\ \A u \in I!Tasks \ {t} : task'[u] = task[u]
  BY <1>0 DEF RegistryMove
<1>2. /\ Typed(line') /\ (line # << >> => line' # << >> /\ Head(line') = Head(line))
      /\ \A u \in I!Tasks : u \in I!Range(line') <=> u \in I!Range(line) \/ (u = t /\ r.stage = "line")
  <2>1. CASE line' = line /\ (r = task[t] \/ (r.stage # "line" /\ task[t].stage # "line"))
    BY <1>0, <2>1
  <2>2. CASE line' = Append(line, t) /\ r.stage = "line" /\ task[t].stage # "line"
    <3>1. /\ Typed(Append(line, t)) /\ I!Range(Append(line, t)) = I!Range(line) \cup {t}
          /\ Append(line, t) # << >> /\ (line # << >> => Head(Append(line, t)) = Head(line))
      BY <1>0, <2>2, PutBehind
    <3> QED
      BY <2>2, <3>1
  <2> QED
    BY <2>1, <2>2 DEF RegistryMove, LineSteps
<1>3. QueueTypes'
  BY <1>1, <1>2 DEF QueueTypes, RegistryMove
<1>4. HeadStays
  <2> SUFFICES ASSUME hand.stage # "rest" PROVE I!AtWork' /\ I!D' = I!D
    BY DEF HeadStays
  <2>1. I!AtWork
    BY <1>0 DEF RowsInv, AtHead
  <2>2. Head(line) \in I!Tasks /\ task[Head(line)].stage = "line"
    BY <2>1, HeadOfLine
  <2>3. Head(line) = t => r = task[t]
    <3>1. CASE line' = line
      <4>1. Append(line, t) # line
        BY <1>0 DEF Typed
      <4> QED
        BY <2>2, <3>1, <4>1 DEF RegistryMove, LineSteps
    <3>2. CASE line' # line
      BY <2>2, <3>2 DEF RegistryMove, LineSteps
    <3> QED
      BY <3>1, <3>2
  <2>4. task'[Head(line)] = task[Head(line)]
    BY <1>1, <2>2, <2>3
  <2> QED
    BY <1>2, <2>1, <2>4 DEF I!AtWork, I!D
<1>5. RowsInv' /\ \A e \in Deliveries : (Finished(e)' <=> Finished(e)) /\ delivery'[e] = delivery[e]
  BY <1>4, RowsKeep DEF RegistryMove, RowsStay
<1>6. Gains
  BY <1>5 DEF Gains, RegistryMove
<1> QED
  BY <1>1, <1>2, <1>3, <1>5, <1>6

(* Such a step keeps the invariant if the task and its delivery keep       *)
(* theirs.                                                                 *)
LEMMA RegistryKeeps ==
  ASSUME WebhookInv, NEW t \in I!Tasks, NEW d \in Deliveries, NEW r \in TaskRow, RegistryMove(t, d, r),
         RowInv(t, r)', Redeemed(d)'
  PROVE  WebhookInv'
<1>0. /\ QueueTypes' /\ RowsInv' /\ Gains
      /\ task'[t] = r /\ \A u \in I!Tasks \ {t} : task'[u] = task[u]
      /\ \A e \in Deliveries : (Finished(e)' <=> Finished(e)) /\ delivery'[e] = delivery[e]
      /\ \A u \in I!Tasks : u \in I!Range(line)' <=> u \in I!Range(line) \/ (u = t /\ r.stage = "line")
  BY RegistryTypes
<1>1. (\A u \in I!Tasks : TaskInv(u)) /\ (\A e \in Deliveries : Redeemed(e) /\ e \in I!Tasks)
  BY DEF WebhookInv, RegistryInv, I!Tasks
<1>2. ASSUME NEW u \in I!Tasks PROVE TaskInv(u)'
  <2>1. CASE u = t
    <3>1. r.stage = "line" <=> t \in I!Range(line)'
      <4>1. t \in I!Range(line)' /\ r.stage # "line" => FALSE
        <5>1. t \in I!Range(line)' /\ r.stage # "line" => t \in I!Range(line) /\ task[t].stage = "line"
          BY <1>0, <1>1 DEF TaskInv
        <5> QED
          BY <5>1 DEF RegistryMove, LineSteps
      <4> QED
        BY <1>0, <4>1
    <3> QED
      BY <1>0, <2>1, <3>1 DEF TaskInv
  <2>2. CASE u # t
    <3>1. PICK q : q = task[u] /\ task'[u] = q /\ RowInv(u, q)
      BY <1>0, <1>1, <2>2 DEF TaskInv
    <3>2. RowInv(u, q)'
      BY <1>0, <3>1, RowInvGrows
    <3>3. q.stage = "line" <=> u \in I!Range(line)'
      BY <1>0, <1>1, <2>2, <3>1 DEF TaskInv
    <3> QED
      BY <3>1, <3>2, <3>3 DEF TaskInv
  <2> QED
    BY <2>1, <2>2
<1>3. ASSUME NEW e \in Deliveries, e # d PROVE Redeemed(e)'
  <2>1. task'[e] = task[e] /\ event'[e] = event[e] /\ consumption'[e] = consumption[e] /\ letter'[e] = letter[e]
        /\ (e \in dropped => e \in dropped')
    BY <1>0, <1>1, <1>3 DEF RegistryMove
  <2> QED
    BY <1>0, <1>1, <2>1 DEF Redeemed, Owed, Held, Secured
<1> QED
  BY <1>0, <1>2, <1>3 DEF WebhookInv, RegistryInv

(* A failed attempt leaves a task of the same delivery.                    *)
LEMMA FailureRow ==
  ASSUME NEW t \in I!Tasks, task[t] \in TaskRow
  PROVE  /\ I!AfterFailure(t) \in TaskRow /\ I!AfterFailure(t).stage \in {"again", "markFailed"}
         /\ I!AfterFailure(t).of = task[t].of /\ I!AfterFailure(t).processed = task[t].processed
<1> DEFINE more == [task[t] EXCEPT !.stage = "again", !.tries = @ + 1]
           over == [task[t] EXCEPT !.stage = "markFailed"]
<1>1. task[t].tries \in 0 .. Retries - 1 /\ Retries \in Nat
  BY MentionsAssumption DEF TaskRow
<1>2. /\ over \in TaskRow /\ over.stage = "markFailed" /\ over.of = task[t].of
      /\ over.processed = task[t].processed
  BY DEF TaskRow, TaskStages
<1>3. ASSUME task[t].tries + 1 < Retries
      PROVE  /\ more \in TaskRow /\ more.stage = "again" /\ more.of = task[t].of
             /\ more.processed = task[t].processed
  <2>1. task[t].tries + 1 \in 0 .. Retries - 1
    BY <1>1, <1>3
  <2> QED
    BY <2>1 DEF TaskRow, TaskStages
<1>4. I!AfterFailure(t) = IF task[t].tries + 1 < Retries THEN more ELSE over
  BY DEF I!AfterFailure
<1> HIDE DEF more, over
<1> QED
  BY <1>2, <1>3, <1>4

(* Every step of the registry is such a step.                              *)
RegistryStep ==
  \/ \E d \in Deliveries : I!Dispatch(d) \/ I!Overtake(d) \/ I!Discard(d)
  \/ \E o \in Operators, d \in Deliveries : I!Replay(o, d)
  \/ \E t \in I!Tasks : \/ I!ClaimEvent(t) \/ I!Retry(t) \/ I!MarkProcessed(t) \/ I!MarkFailed(t)
                        \/ I!ClearDeadLetter(t) \/ I!DeadLetter(t) \/ I!Settle(t) \/ I!Report(t)
                        \/ I!AttemptFails(t) \/ I!RegistryFails(t) \/ I!SettleFails(t)

LEMMA RegistrySteps == WebhookInv /\ RegistryStep => WebhookInv'
<1> SUFFICES ASSUME WebhookInv, RegistryStep PROVE WebhookInv'
  OBVIOUS
<1>0. /\ event \in [Deliveries -> {"none", "pending", "dispatched"}] /\ consumption \in [Deliveries -> Claims]
      /\ letter \in [Deliveries -> Letters] /\ task \in [I!Tasks -> TaskRow] /\ dropped \subseteq Deliveries
      /\ story \in [Stories -> {"Planned", "InProgress", "InReview"}]
      /\ (\A t \in I!Tasks : TaskInv(t)) /\ (\A d \in Deliveries : Redeemed(d) /\ d \in I!Tasks)
      /\ Deliveries \cap Operators = {} /\ I!Tasks = Deliveries \cup Operators
  BY MentionsAssumption DEF WebhookInv, RegistryInv, QueueTypes, RowsInv, RowTypes, I!Tasks

(* What a task that is not idle knows of its delivery.                     *)
<1>t. ASSUME NEW t \in I!Tasks, task[t].stage # "idle"
      PROVE  /\ task[t] \in TaskRow /\ task[t].of \in Deliveries /\ delivery[task[t].of].status # "none"
             /\ (t \in Deliveries => task[t].of = t) /\ Redeemed(task[t].of) /\ RowInv(t, task[t])
             /\ (t \in Operators => letter[task[t].of] # "none")
             /\ (task[t].stage = "settle" => t \in Deliveries)
             /\ (task[t].stage = "report" => t \in Operators)
             /\ t \in Operators \/ t \in Deliveries
             /\ (task[t].stage \in {"mark", "clear"} \/ task[t].processed => Finished(task[t].of))
  BY <1>0, <1>t DEF TaskInv, RowInv
<1>same. ASSUME NEW t \in I!Tasks
         PROVE  task[t] \in TaskRow /\ [task EXCEPT ![t] = task[t]] = task /\ RowInv(t, task[t])
  BY <1>0 DEF TaskInv

(* The task begins, or ends, at a delivery.                                *)
<1>free. /\ I!Free \in TaskRow /\ I!Free.stage = "idle"
         /\ \A d \in Deliveries : LET r == [I!Free EXCEPT !.stage = "claim", !.of = d]
                                  IN  r \in TaskRow /\ r.stage = "claim" /\ r.of = d /\ ~r.processed
  <2>1. 0 \in 0 .. Retries - 1
    BY MentionsAssumption
  <2> QED
    BY <2>1 DEF I!Free, TaskRow, TaskStages
<1>at. ASSUME NEW t \in I!Tasks, NEW to \in TaskStages
       PROVE  LET r == [task[t] EXCEPT !.stage = to]
              IN  r \in TaskRow /\ r.stage = to /\ r.of = task[t].of /\ r.processed = task[t].processed
  <2>1. task[t] \in TaskRow
    BY <1>0
  <2> QED
    BY <2>1 DEF TaskRow
<1>goes. ASSUME NEW t \in I!Tasks, NEW to \in TaskStages, I!At(t, to)
         PROVE  \E r \in TaskRow : /\ task' = [task EXCEPT ![t] = r] /\ r.stage = to /\ r.of = task[t].of
                                   /\ r.processed = task[t].processed
  <2> DEFINE r == [task[t] EXCEPT !.stage = to]
  <2>1. task' = [task EXCEPT ![t] = r]
    BY <1>goes DEF I!At
  <2>2. r \in TaskRow /\ r.stage = to /\ r.of = task[t].of /\ r.processed = task[t].processed
    BY <1>at
  <2> HIDE DEF r
  <2> QED
    BY <2>1, <2>2
<1>1. ASSUME NEW d \in Deliveries, I!Dispatch(d) PROVE WebhookInv'
  <2> DEFINE r == [I!Free EXCEPT !.stage = "claim", !.of = d]
  <2>1. /\ event[d] = "pending" /\ task[d].stage = "idle" /\ task' = [task EXCEPT ![d] = r]
        /\ UNCHANGED <<delivery, event, consumption, letter, line, hand, story, links, moved, troubled, dropped>>
    BY <1>1 DEF I!Dispatch, I!Begin, I!stored, I!effects
  <2>2. r \in TaskRow /\ r.stage = "claim" /\ r.of = d /\ ~r.processed
    BY <1>free
  <2> HIDE DEF r
  <2>3. RegistryMove(d, d, r)
    BY <1>0, <2>1, <2>2 DEF RegistryMove, LineSteps, RowsStay
  <2>4. task'[d] = r /\ (Finished(d)' <=> Finished(d)) /\ delivery'[d] = delivery[d]
    BY <1>0, <2>2, <2>3, RegistryTypes
  <2>5. Redeemed(d)'
    BY <1>0, <2>1, <2>2, <2>4 DEF Redeemed, Owed, Held, Secured
  <2>6. RowInv(d, r)'
    BY <1>0, <2>1, <2>2, <2>4 DEF RowInv, Redeemed
  <2> QED
    BY <1>0, <2>2, <2>3, <2>5, <2>6, RegistryKeeps
<1>2. ASSUME NEW d \in Deliveries, I!Overtake(d) PROVE WebhookInv'
  <2>1. /\ event[d] = "pending" /\ task[d].stage # "idle" /\ consumption[d] \in {"processing", "processed"}
        /\ event' = [event EXCEPT ![d] = "dispatched"]
        /\ UNCHANGED <<delivery, consumption, letter, task, line, hand, story, links, moved, troubled, dropped>>
    BY <1>2 DEF I!Overtake, I!effects
  <2>2. RegistryMove(d, d, task[d]) /\ task[d] \in TaskRow /\ RowInv(d, task[d])
    BY <1>0, <1>same, <2>1 DEF RegistryMove, LineSteps, RowsStay
  <2>3. Gains /\ (Finished(d)' <=> Finished(d)) /\ delivery'[d] = delivery[d]
    BY <1>0, <2>2, RegistryTypes
  <2>4. Redeemed(d)'
    BY <1>0, <2>1, <2>3 DEF Redeemed, Owed, Held, Secured
  <2>5. PICK r \in TaskRow : r = task[d] /\ RegistryMove(d, d, r) /\ RowInv(d, r)
    BY <2>2
  <2>6. RowInv(d, r)'
    BY <2>3, <2>5, RowInvGrows
  <2> QED
    BY <1>0, <2>4, <2>5, <2>6, RegistryKeeps
<1>3. ASSUME NEW d \in Deliveries, I!Discard(d) PROVE WebhookInv'
  <2>1. /\ letter[d] \in {"dead", "replayed"} /\ letter' = [letter EXCEPT ![d] = "discarded"]
        /\ UNCHANGED <<delivery, event, consumption, task, line, hand, story, links, moved, troubled, dropped>>
    BY <1>3 DEF I!Discard, I!effects
  <2>2. RegistryMove(d, d, task[d]) /\ task[d] \in TaskRow /\ RowInv(d, task[d])
    BY <1>0, <1>same, <2>1 DEF RegistryMove, LineSteps, RowsStay, Letters
  <2>3. Gains /\ (Finished(d)' <=> Finished(d)) /\ delivery'[d] = delivery[d]
    BY <1>0, <2>2, RegistryTypes
  <2>4. Redeemed(d)'
    BY <1>0, <2>1, <2>3 DEF Redeemed, Owed, Held, Secured
  <2>5. PICK r \in TaskRow : r = task[d] /\ RegistryMove(d, d, r) /\ RowInv(d, r)
    BY <2>2
  <2>6. RowInv(d, r)'
    BY <2>3, <2>5, RowInvGrows
  <2> QED
    BY <1>0, <2>4, <2>5, <2>6, RegistryKeeps
<1>4. ASSUME NEW o \in Operators, NEW d \in Deliveries, I!Replay(o, d) PROVE WebhookInv'
  <2> DEFINE r == [I!Free EXCEPT !.stage = "claim", !.of = d]
  <2>1. /\ letter[d] \in {"dead", "replayed"} /\ task[o].stage = "idle" /\ task' = [task EXCEPT ![o] = r]
        /\ UNCHANGED <<delivery, event, consumption, letter, line, hand, story, links, moved, troubled, dropped>>
    BY <1>4 DEF I!Replay, I!Begin, I!stored, I!effects
  <2>2. r \in TaskRow /\ r.stage = "claim" /\ r.of = d /\ ~r.processed
    BY <1>free
  <2> HIDE DEF r
  <2>3. RegistryMove(o, d, r) /\ o \in I!Tasks /\ o \notin Deliveries
    BY <1>0, <2>1, <2>2 DEF RegistryMove, LineSteps, RowsStay
  <2>4. task'[d] = task[d] /\ (Finished(d)' <=> Finished(d)) /\ delivery'[d] = delivery[d]
    BY <1>0, <2>2, <2>3, RegistryTypes
  <2>5. Redeemed(d)'
    BY <1>0, <2>1, <2>2, <2>4 DEF Redeemed, Owed, Held, Secured
  <2>6. RowInv(o, r)'
    BY <1>0, <2>1, <2>2, <2>3, <2>4 DEF RowInv, Redeemed
  <2> QED
    BY <2>2, <2>3, <2>5, <2>6, RegistryKeeps

(* A task goes on: it is still of its delivery, which is secured or held.  *)
<1>on. ASSUME NEW t \in I!Tasks, NEW r \in TaskRow, task[t].stage # "idle", NEW d, d = task[t].of,
              RegistryMove(t, d, r), r.stage = "idle" \/ r.of = d,
              r.stage = "settle" => t \in Deliveries, r.stage = "report" => t \in Operators,
              r.stage \in {"mark", "clear"} \/ r.processed => Finished(d),
              event'[d] = "none" <=> event[d] = "none",
              consumption'[d] = "processed" \/ letter'[d] = "replayed" => Finished(d),
              \/ Finished(d) \/ letter'[d] # "none" \/ d \in dropped'
              \/ t \in Deliveries /\ r.stage \in {"line", "again", "markFailed", "letter"}
       PROVE  WebhookInv'
  <2>1. /\ d \in Deliveries /\ delivery[d].status # "none" /\ Redeemed(d) /\ (t \in Deliveries => d = t)
        /\ (t \in Operators => letter[d] # "none")
    BY <1>t, <1>on
  <2>2. /\ Gains /\ (Finished(d)' <=> Finished(d)) /\ delivery'[d] = delivery[d] /\ task'[t] = r
    BY <1>0, <1>on, <2>1, RegistryTypes
  <2>3. RowInv(t, r)'
    BY <1>on, <2>1, <2>2 DEF RowInv, Gains
  <2>4. Held(d)' \/ Secured(d)'
    BY <1>on, <2>1, <2>2 DEF Held, Secured
  <2>5. Redeemed(d)'
    BY <1>on, <2>1, <2>2, <2>4 DEF Redeemed
  <2> QED
    BY <1>on, <2>1, <2>3, <2>5, RegistryKeeps
<1>5. ASSUME NEW t \in I!Tasks, I!ClaimEvent(t) PROVE WebhookInv'
  <2>1. PICK d : d = task[t].of /\ task[t].stage = "claim"
    BY <1>5 DEF I!ClaimEvent
  <2>2. UNCHANGED <<delivery, event, letter, hand, story, links, moved, troubled, dropped>>
    BY <1>5 DEF I!ClaimEvent, I!effects
  <2>3. CASE I!Forced(t) \/ consumption[d] \in {"none", "failed"}
    <3>1. consumption' = [consumption EXCEPT ![d] = "processing"] /\ line' = Append(line, t) /\ I!At(t, "line")
      BY <1>5, <2>1, <2>3 DEF I!ClaimEvent, I!Queue
    <3>2. PICK r \in TaskRow : /\ task' = [task EXCEPT ![t] = r] /\ r.stage = "line" /\ r.of = d
                               /\ r.processed = task[t].processed
      BY <1>goes, <2>1, <3>1 DEF TaskStages
    <3>3. RegistryMove(t, d, r)
      BY <1>0, <1>t, <2>1, <2>2, <3>1, <3>2 DEF RegistryMove, LineSteps, RowsStay, Claims
    <3>4. consumption'[d] = "processing" /\ Redeemed(d)
      BY <1>0, <1>t, <2>1, <3>1
    <3> QED
      BY <1>on, <1>t, <2>1, <2>2, <3>2, <3>3, <3>4 DEF Redeemed
  <2>4. CASE ~I!Forced(t) /\ consumption[d] \in {"processing", "processed"}
    <3>1. UNCHANGED <<consumption, line>> /\ I!At(t, "settle")
      BY <1>5, <2>1, <2>4 DEF I!ClaimEvent
    <3>2. PICK r \in TaskRow : /\ task' = [task EXCEPT ![t] = r] /\ r.stage = "settle" /\ r.of = d
                               /\ r.processed = task[t].processed
      BY <1>goes, <2>1, <3>1 DEF TaskStages
    <3>3. RegistryMove(t, d, r)
      BY <1>0, <1>t, <2>1, <2>2, <3>1, <3>2 DEF RegistryMove, LineSteps, RowsStay
    <3>4. t \in Deliveries /\ d = t /\ Redeemed(d)
      BY <1>t, <2>1, <2>4 DEF I!Forced
    <3>5. Secured(d)
      BY <2>1, <2>4, <3>4 DEF Redeemed, Owed, Held, Secured
    <3> QED
      BY <1>on, <1>t, <2>1, <2>2, <3>1, <3>2, <3>3, <3>4, <3>5 DEF Redeemed, Secured
  <2>5. consumption[d] \in Claims
    BY <1>0, <1>t, <2>1
  <2> QED
    BY <2>3, <2>4, <2>5 DEF Claims
<1>6. ASSUME NEW t \in I!Tasks, I!Retry(t) PROVE WebhookInv'
  <2>1. PICK d : d = task[t].of /\ task[t].stage = "again"
    BY <1>6 DEF I!Retry
  <2>2. /\ UNCHANGED <<delivery, event, consumption, letter, hand, story, links, moved, troubled, dropped>>
        /\ line' = Append(line, t) /\ I!At(t, "line")
    BY <1>6 DEF I!Retry, I!Queue, I!stored, I!effects
  <2>3. PICK r \in TaskRow : /\ task' = [task EXCEPT ![t] = r] /\ r.stage = "line" /\ r.of = d
                             /\ r.processed = task[t].processed
    BY <1>goes, <2>1, <2>2 DEF TaskStages
  <2>4. RegistryMove(t, d, r)
    BY <1>0, <1>t, <2>1, <2>2, <2>3 DEF RegistryMove, LineSteps, RowsStay
  <2> QED
    BY <1>on, <1>t, <2>1, <2>2, <2>3, <2>4 DEF Redeemed
<1>7. ASSUME NEW t \in I!Tasks, I!MarkProcessed(t) PROVE WebhookInv'
  <2>1. PICK d : d = task[t].of /\ task[t].stage = "mark"
    BY <1>7 DEF I!MarkProcessed
  <2>2. /\ UNCHANGED <<delivery, event, letter, line, hand, story, links, moved, troubled, dropped>>
        /\ consumption' = [consumption EXCEPT ![d] = "processed"] /\ I!At(t, "clear")
    BY <1>7, <2>1 DEF I!MarkProcessed, I!effects
  <2>3. PICK r \in TaskRow : /\ task' = [task EXCEPT ![t] = r] /\ r.stage = "clear" /\ r.of = d
                             /\ r.processed = task[t].processed
    BY <1>goes, <2>1, <2>2 DEF TaskStages
  <2>4. RegistryMove(t, d, r)
    BY <1>0, <1>t, <2>1, <2>2, <2>3 DEF RegistryMove, LineSteps, RowsStay, Claims
  <2> QED
    BY <1>on, <1>t, <2>1, <2>2, <2>3, <2>4 DEF Redeemed
<1>8. ASSUME NEW t \in I!Tasks, I!MarkFailed(t) PROVE WebhookInv'
  <2>1. PICK d : d = task[t].of /\ task[t].stage = "markFailed"
    BY <1>8 DEF I!MarkFailed
  <2>2. /\ UNCHANGED <<delivery, event, letter, line, hand, story, links, moved, troubled, dropped>>
        /\ consumption' = [consumption EXCEPT ![d] = "failed"] /\ I!At(t, "letter")
    BY <1>8, <2>1 DEF I!MarkFailed, I!effects
  <2>3. PICK r \in TaskRow : /\ task' = [task EXCEPT ![t] = r] /\ r.stage = "letter" /\ r.of = d
                             /\ r.processed = task[t].processed
    BY <1>goes, <2>1, <2>2 DEF TaskStages
  <2>4. RegistryMove(t, d, r) /\ consumption'[d] = "failed"
    BY <1>0, <1>t, <2>1, <2>2, <2>3 DEF RegistryMove, LineSteps, RowsStay, Claims
  <2> QED
    BY <1>on, <1>t, <2>1, <2>2, <2>3, <2>4 DEF Redeemed

(* The outcome of a dispatch, for the outbox or for the operator.          *)
<1>outcome. ASSUME NEW t \in I!Tasks, NEW processed \in BOOLEAN, I!Outcome(t, processed)
            PROVE  \E r \in TaskRow : /\ task' = [task EXCEPT ![t] = r] /\ r.of = task[t].of
                                      /\ r.stage = (IF t \in Operators THEN "report" ELSE "settle")
                                      /\ r.processed = processed
  <2> DEFINE to == IF t \in Operators THEN "report" ELSE "settle"
             r == [task[t] EXCEPT !.stage = to, !.processed = processed]
  <2>1. task' = [task EXCEPT ![t] = r]
    BY <1>outcome DEF I!Outcome, I!Forced
  <2>2. task[t] \in TaskRow /\ to \in TaskStages
    BY <1>0 DEF TaskStages
  <2> HIDE DEF to
  <2>3. r \in TaskRow /\ r.stage = to /\ r.of = task[t].of /\ r.processed = processed
    BY <2>2 DEF TaskRow
  <2> HIDE DEF r
  <2> QED
    BY <2>1, <2>3 DEF to
<1>9. ASSUME NEW t \in I!Tasks, I!ClearDeadLetter(t) PROVE WebhookInv'
  <2>1. PICK d : d = task[t].of /\ task[t].stage = "clear"
    BY <1>9 DEF I!ClearDeadLetter
  <2>2. /\ UNCHANGED <<delivery, event, consumption, line, hand, story, links, moved, troubled, dropped>>
        /\ letter' = [letter EXCEPT ![d] = IF @ = "dead" THEN "replayed" ELSE @] /\ I!Outcome(t, TRUE)
    BY <1>9, <2>1 DEF I!ClearDeadLetter, I!effects
  <2>3. PICK r \in TaskRow : /\ task' = [task EXCEPT ![t] = r] /\ r.of = d /\ r.processed
                             /\ r.stage = (IF t \in Operators THEN "report" ELSE "settle")
    BY <1>outcome, <2>1, <2>2
  <2>4. d \in Deliveries /\ letter[d] \in Letters
    BY <1>0, <1>t, <2>1
  <2>5. RegistryMove(t, d, r)
    BY <1>0, <1>t, <2>1, <2>2, <2>3, <2>4 DEF RegistryMove, LineSteps, RowsStay, Letters
  <2> QED
    BY <1>on, <1>t, <2>1, <2>2, <2>3, <2>5 DEF Redeemed
<1>10. ASSUME NEW t \in I!Tasks, I!DeadLetter(t) PROVE WebhookInv'
  <2>1. PICK d : d = task[t].of /\ task[t].stage = "letter"
    BY <1>10 DEF I!DeadLetter
  <2>2. /\ UNCHANGED <<delivery, event, consumption, line, hand, story, links, moved, troubled, dropped>>
        /\ letter' = [letter EXCEPT ![d] = "dead"] /\ I!Outcome(t, FALSE)
    BY <1>10, <2>1 DEF I!DeadLetter, I!effects
  <2>3. PICK r \in TaskRow : /\ task' = [task EXCEPT ![t] = r] /\ r.of = d /\ ~r.processed
                             /\ r.stage = (IF t \in Operators THEN "report" ELSE "settle")
    BY <1>outcome, <2>1, <2>2
  <2>4. RegistryMove(t, d, r) /\ letter'[d] = "dead"
    BY <1>0, <1>t, <2>1, <2>2, <2>3 DEF RegistryMove, LineSteps, RowsStay, Letters
  <2> QED
    BY <1>on, <1>t, <2>1, <2>2, <2>3, <2>4 DEF Redeemed
<1>11. ASSUME NEW t \in I!Tasks, I!Settle(t) PROVE WebhookInv'
  <2>1. PICK d : d = task[t].of /\ task[t].stage = "settle"
    BY <1>11 DEF I!Settle
  <2>2. /\ UNCHANGED <<delivery, consumption, letter, line, hand, story, links, moved, troubled, dropped>>
        /\ event' = [event EXCEPT ![d] = "dispatched"] /\ task' = [task EXCEPT ![t] = I!Free]
    BY <1>11, <2>1 DEF I!Settle, I!Ends, I!effects
  <2>3. d \in Deliveries /\ t \in Deliveries /\ d = t /\ Redeemed(d) /\ delivery[d].status # "none"
    BY <1>t, <2>1
  <2>4. RegistryMove(t, d, I!Free) /\ event'[d] = "dispatched" /\ event[d] # "none"
    BY <1>0, <1>free, <2>1, <2>2, <2>3 DEF RegistryMove, LineSteps, RowsStay, Redeemed
  <2>5. Secured(d)
    BY <2>1, <2>3 DEF Redeemed, Owed, Held
  <2> QED
    BY <1>on, <1>free, <2>1, <2>2, <2>3, <2>4, <2>5 DEF Redeemed, Secured, I!Free
<1>12. ASSUME NEW t \in I!Tasks, I!Report(t) PROVE WebhookInv'
  <2>1. PICK d : d = task[t].of /\ task[t].stage = "report"
    BY <1>12 DEF I!Report
  <2>2. /\ UNCHANGED <<delivery, event, consumption, line, hand, story, links, moved, troubled, dropped>>
        /\ letter' = [letter EXCEPT ![d] = IF task[t].processed THEN "replayed" ELSE "dead"]
        /\ task' = [task EXCEPT ![t] = I!Free]
    BY <1>12, <2>1 DEF I!Report, I!Ends, I!effects
  <2>3. d \in Deliveries /\ Redeemed(d) /\ (task[t].processed => Finished(d))
    BY <1>t, <2>1
  <2>4. PICK w \in {"replayed", "dead"} : letter' = [letter EXCEPT ![d] = w] /\ (w = "replayed" => Finished(d))
    BY <2>2, <2>3
  <2>5. /\ letter' \in [Deliveries -> Letters] /\ letter'[d] = w /\ w # "none"
        /\ (\A e \in Deliveries \ {d} : letter'[e] = letter[e]) /\ (t \in Deliveries => t = d)
    BY <1>0, <1>t, <2>1, <2>3, <2>4 DEF Letters
  <2>6. RegistryMove(t, d, I!Free)
    BY <1>0, <1>free, <2>1, <2>2, <2>5 DEF RegistryMove, LineSteps, RowsStay
  <2> QED
    BY <1>on, <1>free, <2>1, <2>2, <2>3, <2>4, <2>5, <2>6 DEF Redeemed, I!Free
<1>13. ASSUME NEW t \in I!Tasks, I!AttemptFails(t) PROVE WebhookInv'
  <2>1. PICK d : d = task[t].of /\ task[t].stage \in {"mark", "clear"}
    BY <1>13 DEF I!AttemptFails
  <2>2. /\ UNCHANGED <<delivery, event, consumption, letter, line, hand, story, links, moved, troubled, dropped>>
        /\ task' = [task EXCEPT ![t] = I!AfterFailure(t)]
    BY <1>13 DEF I!AttemptFails, I!stored, I!effects
  <2>3. PICK r \in TaskRow : r = I!AfterFailure(t) /\ r.of = d /\ r.stage \in {"again", "markFailed"}
                             /\ r.processed = task[t].processed
    BY <1>0, <2>1, FailureRow
  <2>4. RegistryMove(t, d, r)
    BY <1>0, <1>t, <2>1, <2>2, <2>3 DEF RegistryMove, LineSteps, RowsStay
  <2> QED
    BY <1>on, <1>t, <2>1, <2>2, <2>3, <2>4 DEF Redeemed
<1>14. ASSUME NEW t \in I!Tasks, I!RegistryFails(t) PROVE WebhookInv'
  <2>1. PICK d : d = task[t].of /\ task[t].stage \in {"claim", "markFailed", "letter"}
    BY <1>14 DEF I!RegistryFails
  <2>2. UNCHANGED <<delivery, event, consumption, letter, line, hand, story, links, moved, troubled>>
    BY <1>14 DEF I!RegistryFails, I!stored, I!effects
  <2>3. CASE I!Forced(t)
    <3>1. task' = [task EXCEPT ![t] = I!Free] /\ dropped' = dropped /\ t \in Operators
      BY <1>14, <2>3 DEF I!RegistryFails, I!Ends, I!Forced
    <3>2. RegistryMove(t, d, I!Free)
      BY <1>0, <1>t, <1>free, <2>1, <2>2, <3>1 DEF RegistryMove, LineSteps, RowsStay
    <3>3. Redeemed(d) /\ letter[d] # "none"
      BY <1>t, <2>1, <3>1
    <3> QED
      BY <1>on, <1>free, <2>1, <2>2, <3>1, <3>2, <3>3 DEF Redeemed, I!Free
  <2>4. CASE ~I!Forced(t)
    <3>1. I!At(t, "settle") /\ dropped' = dropped \cup {d} /\ t \in Deliveries
      BY <1>0, <1>14, <2>1, <2>4 DEF I!RegistryFails, I!Forced
    <3>2. PICK r \in TaskRow : /\ task' = [task EXCEPT ![t] = r] /\ r.stage = "settle" /\ r.of = d
                               /\ r.processed = task[t].processed
      BY <1>goes, <2>1, <3>1 DEF TaskStages
    <3>3. RegistryMove(t, d, r) /\ d \in dropped'
      BY <1>0, <1>t, <2>1, <2>2, <3>1, <3>2 DEF RegistryMove, LineSteps, RowsStay
    <3> QED
      BY <1>on, <1>t, <2>1, <2>2, <3>1, <3>2, <3>3 DEF Redeemed
  <2> QED
    BY <2>3, <2>4
<1>15. ASSUME NEW t \in I!Tasks, I!SettleFails(t) PROVE WebhookInv'
  <2>1. PICK d : d = task[t].of /\ task[t].stage \in {"settle", "report"}
    BY <1>15 DEF I!SettleFails
  <2>2. /\ UNCHANGED <<delivery, event, consumption, letter, line, hand, story, links, moved, troubled, dropped>>
        /\ task' = [task EXCEPT ![t] = I!Free]
    BY <1>15 DEF I!SettleFails, I!Ends, I!stored, I!effects
  <2>3. RegistryMove(t, d, I!Free)
    BY <1>0, <1>t, <1>free, <2>1, <2>2 DEF RegistryMove, LineSteps, RowsStay
  <2>4. Redeemed(d) /\ (Secured(d) \/ letter[d] # "none")
    BY <1>t, <2>1 DEF Redeemed, Owed, Held
  <2> QED
    BY <1>on, <1>t, <1>free, <2>1, <2>2, <2>3, <2>4 DEF Redeemed, Secured, I!Free
<1> QED
  BY <1>1, <1>2, <1>3, <1>4, <1>5, <1>6, <1>7, <1>8, <1>9, <1>10, <1>11, <1>12, <1>13, <1>14, <1>15
     DEF RegistryStep

-----------------------------------------------------------------------------
(* The registry's part of the invariant, as the handler works or returns.  *)
Outlives == \A d \in Deliveries : /\ Finished(d) => Finished(d)'
                                  /\ delivery'[d].status = "none" <=> delivery[d].status = "none"

LEMMA HandlerKeeps ==
  ASSUME WebhookInv, UNCHANGED <<event, consumption, letter, task, line, dropped>>, Outlives
  PROVE  RegistryInv'
<1>0. RegistryInv /\ QueueTypes'
  BY DEF WebhookInv, RegistryInv, QueueTypes
<1>1. Gains
  BY DEF Gains, Outlives
<1>2. ASSUME NEW t \in I!Tasks PROVE TaskInv(t)'
  <2>1. PICK r : r = task[t] /\ RowInv(t, r) /\ TaskInv(t)
    BY <1>0 DEF RegistryInv, TaskInv
  <2>2. RowInv(t, r)'
    BY <1>1, <2>1, RowInvGrows
  <2> QED
    BY <2>1, <2>2 DEF TaskInv
<1>3. ASSUME NEW d \in Deliveries PROVE Redeemed(d)'
  BY <1>0 DEF RegistryInv, Redeemed, Owed, Held, Secured, Outlives
<1> QED
  BY <1>0, <1>2, <1>3 DEF RegistryInv

LEMMA HeadReturns ==
  ASSUME WebhookInv, I!AtWork, NEW r \in TaskRow, task' = [task EXCEPT ![Head(line)] = r], line' = Tail(line),
         NEW d, d = I!D, r.of = d, r.stage \in {"mark", "again", "markFailed"}, r.processed = task[Head(line)].processed,
         r.stage = "mark" => Finished(d)', UNCHANGED <<event, consumption, letter, dropped>>, Outlives
  PROVE  RegistryInv'
<1> DEFINE h == Head(line)
<1>0. RegistryInv /\ task \in [I!Tasks -> TaskRow] /\ dropped \subseteq Deliveries
      /\ \A e \in Deliveries : e \in I!Tasks
  BY DEF WebhookInv, RegistryInv, QueueTypes, I!Tasks
<1>1. /\ h \in I!Tasks /\ task[h].stage = "line" /\ I!D = task[h].of /\ I!D \in Deliveries
      /\ Typed(line') /\ I!Range(line') = I!Range(line) \ {h}
  BY HeadOfLine
<1>2. task' \in [I!Tasks -> TaskRow] /\ task'[h] = r /\ \A t \in I!Tasks \ {h} : task'[t] = task[t]
  BY <1>0, <1>1
<1>of. r.stage = "mark" => Finished(r.of)'
  <2> DEFINE done(e) == Finished(e)'
  <2>1. r.stage = "mark" => done(d)
    OBVIOUS
  <2> HIDE DEF done
  <2>2. r.stage = "mark" => done(r.of)
    BY <2>1
  <2> QED
    BY <2>2 DEF done
<1> HIDE DEF h
<1>3. Gains /\ QueueTypes'
  BY <1>0, <1>1, <1>2 DEF Gains, Outlives, RegistryInv, QueueTypes
<1>4. ASSUME NEW t \in I!Tasks PROVE TaskInv(t)'
  <2>1. PICK q : q = task[t] /\ RowInv(t, q) /\ TaskInv(t)
    BY <1>0 DEF RegistryInv, TaskInv
  <2>2. RowInv(t, q)'
    BY <1>3, <2>1, RowInvGrows
  <2>3. CASE t = h
    <3>0. q.stage = "line" /\ r.of = q.of /\ r.processed = q.processed
      BY <1>1, <2>1, <2>3 DEF h
    <3>1. RowInv(t, r)'
      BY <2>2, <3>0, <1>of DEF RowInv
    <3>2. t \notin I!Range(line)' /\ r.stage # "line"
      BY <1>1, <2>3
    <3> QED
      BY <1>2, <2>3, <3>1, <3>2 DEF TaskInv
  <2>4. CASE t # h
    BY <1>1, <1>2, <2>1, <2>2, <2>4 DEF TaskInv
  <2> QED
    BY <2>3, <2>4
<1>5. ASSUME NEW e \in Deliveries PROVE Redeemed(e)'
  <2>1. task'[e].stage = task[e].stage \/ (task[e].stage = "line" /\ Held(e)' /\ task'[e].stage # "settle")
    BY <1>0, <1>1, <1>2 DEF Held
  <2>2. Held(e) => Held(e)'
    BY <2>1 DEF Held
  <2>3. Redeemed(e)
    BY <1>0 DEF RegistryInv
  <2> QED
    BY <2>1, <2>2, <2>3 DEF Redeemed, Owed, Secured, Outlives
<1> QED
  BY <1>3, <1>4, <1>5 DEF RegistryInv

(* What a step does to a row beside the one it is about.                   *)
Aside(d) == /\ delivery'[d] = delivery[d]
            /\ MovedBy(d)' = MovedBy(d)
            /\ d \in troubled' <=> d \in troubled
            /\ hand.stage = "move" /\ d = I!D => hand'.stage = "move" /\ d = I!D'

(* A row the step is not about keeps its part of the invariant.            *)
LEMMA AsideKeeps ==
  ASSUME NEW d \in Deliveries, Recorded(d), Aside(d), links \subseteq links'
  PROVE  Recorded(d)'
<1>1. I!Linked(d)' = I!Linked(d)
  BY DEF I!Linked
<1> QED
  BY <1>1 DEF Recorded, Aside

(* The rows as the handler starts, works and returns.                      *)
LEMMA HeadStep ==
  ASSUME WebhookInv, I!Claim \/ I!Link \/ I!Complete \/ I!Fail \/ \E i \in Stories : I!Move(i) \/ I!MoveFails(i)
  PROVE  RowsInv' /\ Outlives
<1> USE MentionsAssumption
<1>0. /\ delivery \in [Deliveries -> DeliveryRow] /\ hand \in Handler
      /\ story \in [Stories -> {"Planned", "InProgress", "InReview"}]
      /\ links \subseteq Deliveries \X Stories /\ moved \subseteq Deliveries \X Stories
      /\ troubled \subseteq Deliveries
      /\ AtHead /\ \A d \in Deliveries : Recorded(d)
  BY DEF WebhookInv, RowsInv, RowTypes
<1>w. /\ hand.stage \in {"rest", "link", "move", "publish"}
      /\ hand.todo \subseteq Stories /\ hand.applied \subseteq Stories
  BY <1>0 DEF Handler
<1>d. I!AtWork => I!D \in Deliveries /\ delivery[I!D].status # "none"
  BY HeadOfLine
<1>rest. I!Rest \in Handler /\ I!Rest.stage = "rest"
  BY DEF I!Rest, Handler
<1>aside. ASSUME NEW d \in Deliveries, Aside(d), links \subseteq links' PROVE Recorded(d)'
  BY <1>0, <1>aside, AsideKeeps
<1>same. ASSUME line' = line, task' = task PROVE I!D' = I!D /\ (I!AtWork' <=> I!AtWork)
  BY <1>same DEF I!D, I!AtWork
<1>1. CASE I!Claim
  <2> DEFINE r == [delivery[I!D] EXCEPT !.status = "processing", !.attempts = @ + 1]
             k == [stage |-> "link", todo |-> Mentions[I!D], applied |-> {}]
  <2>1. /\ I!AtWork /\ hand.stage = "rest" /\ I!Claimable(I!D) /\ I!D \in Deliveries
        /\ delivery' = [delivery EXCEPT ![I!D] = r] /\ hand' = k
        /\ UNCHANGED <<line, task, story, links, moved, troubled>>
    BY <1>1, <1>d DEF I!Claim, I!effects
  <2>2. r \in DeliveryRow /\ r.status = "processing"
    <3>1. delivery[I!D] \in DeliveryRow /\ delivery[I!D].attempts + 1 \in Nat
      BY <1>0, <2>1 DEF DeliveryRow
    <3> QED
      BY <3>1 DEF DeliveryRow, HookStatuses
  <2>3. k \in Handler /\ k.stage = "link" /\ k.applied = {}
    BY <2>1 DEF Handler
  <2>4. delivery[I!D].status \notin {"none", "completed"}
    BY <2>1 DEF I!Claimable
  <2> HIDE DEF r, k
  <2>5. /\ delivery' \in [Deliveries -> DeliveryRow] /\ delivery'[I!D] = r
        /\ \A e \in Deliveries \ {I!D} : delivery'[e] = delivery[e]
    BY <1>0, <2>1, <2>2
  <2>6. I!D' = I!D /\ I!AtWork' /\ \A e \in Deliveries : I!Linked(e)' = I!Linked(e) /\ MovedBy(e)' = MovedBy(e)
    BY <1>same, <2>1 DEF I!Linked, MovedBy
  <2>7. RowTypes'
    BY <1>0, <2>1, <2>3, <2>5 DEF RowTypes
  <2>8. AtHead'
    BY <2>1, <2>2, <2>3, <2>5, <2>6 DEF AtHead
  <2>9. ASSUME NEW e \in Deliveries, e # I!D PROVE Aside(e)
    BY <2>1, <2>5, <2>6, <2>9 DEF Aside
  <2>10. Recorded(I!D)'
    BY <1>0, <2>1, <2>2, <2>3, <2>4, <2>5, <2>6 DEF Recorded
  <2>11. Outlives
    BY <2>1, <2>2, <2>3, <2>4, <2>5 DEF Outlives, Finished
  <2>12. ASSUME NEW e \in Deliveries PROVE Recorded(e)'
    <3>1. links \subseteq links'
      BY <2>1
    <3>2. CASE e = I!D
      BY <2>10, <3>2, <2>6 DEF Recorded
    <3>3. CASE e # I!D
      BY <1>aside, <2>9, <3>1, <3>3
    <3> QED
      BY <3>2, <3>3
  <2> QED
    BY <2>7, <2>8, <2>11, <2>12 DEF RowsInv

(* The stage of the handler moves, and the row of its delivery does not.   *)
<1>2. CASE I!Link
  <2> DEFINE k == [hand EXCEPT !.stage = "move"]
  <2>1. /\ hand.stage = "link" /\ links' = links \cup I!Linked(I!D) /\ hand' = k
        /\ UNCHANGED <<delivery, line, task, story, moved, troubled>>
        /\ I!AtWork /\ I!D \in Deliveries
    BY <1>0, <1>2, <1>d DEF I!Link, AtHead, I!stored
  <2>2. k \in Handler /\ k.stage = "move" /\ k.applied = hand.applied
    BY <1>0 DEF Handler
  <2> HIDE DEF k
  <2>3. I!D' = I!D /\ I!AtWork' /\ \A e \in Deliveries : I!Linked(e)' = I!Linked(e) /\ MovedBy(e)' = MovedBy(e)
    BY <1>same, <2>1 DEF I!Linked, MovedBy
  <2>4. RowTypes'
    <3>1. I!Linked(I!D) \subseteq Deliveries \X Stories
      BY <2>1 DEF I!Linked
    <3> QED
      BY <1>0, <2>1, <2>2, <3>1 DEF RowTypes
  <2>5. hand.applied = {} /\ delivery[I!D].status = "processing"
    BY <1>0, <2>1 DEF AtHead
  <2>6. I!D \notin troubled => MovedBy(I!D) = {}
    BY <1>0, <2>1, <2>5 DEF Recorded
  <2>7. AtHead'
    BY <2>1, <2>2, <2>3, <2>5, <2>6 DEF AtHead
  <2>8. ASSUME NEW e \in Deliveries, e # I!D PROVE Aside(e)
    BY <2>1, <2>3, <2>8 DEF Aside
  <2>9. Recorded(I!D)'
    BY <1>0, <2>1, <2>2, <2>3, <2>5 DEF Recorded
  <2>10. Outlives
    BY <2>1, <2>2 DEF Outlives, Finished
  <2>12. ASSUME NEW e \in Deliveries PROVE Recorded(e)'
    <3>1. links \subseteq links'
      BY <2>1
    <3>2. CASE e = I!D
      BY <2>9, <3>2, <2>3 DEF Recorded
    <3>3. CASE e # I!D
      BY <1>aside, <2>8, <3>1, <3>3
    <3> QED
      BY <3>2, <3>3
  <2> QED
    BY <2>4, <2>7, <2>10, <2>12 DEF RowsInv

(* The handler is done with a story, moved or not.                         *)
<1>3. ASSUME NEW i \in Stories, hand.stage = "move",
             UNCHANGED <<delivery, task, line, links>>,
             story' \in [Stories -> {"Planned", "InProgress", "InReview"}],
             troubled' \in {troubled, troubled \cup {I!D}},
             \/ /\ moved' = moved \cup {<<I!D, i>>}
                /\ hand' = [hand EXCEPT !.todo = @ \ {i}, !.applied = @ \cup {i}]
             \/ moved' = moved /\ hand' = [hand EXCEPT !.todo = @ \ {i}]
      PROVE  RowsInv' /\ Outlives
  <2>1. I!AtWork /\ I!D \in Deliveries /\ delivery[I!D].status = "processing"
    BY <1>0, <1>3, <1>d DEF AtHead
  <2>2. I!D' = I!D /\ I!AtWork'
        /\ \A e \in Deliveries : I!Linked(e)' = I!Linked(e) /\ (e # I!D => MovedBy(e)' = MovedBy(e))
    BY <1>same, <1>3, <2>1 DEF I!Linked, MovedBy
  <2> DEFINE also == moved' = moved \cup {<<I!D, i>>} /\ hand'.applied = hand.applied \cup {i}
             only == moved' = moved /\ hand'.applied = hand.applied
  <2>3. hand' \in Handler /\ hand'.stage = "move" /\ (also \/ only)
    <3> DEFINE k1 == [hand EXCEPT !.todo = @ \ {i}, !.applied = @ \cup {i}]
               k2 == [hand EXCEPT !.todo = @ \ {i}]
    <3>1. k1 \in Handler /\ k1.stage = hand.stage /\ k1.applied = hand.applied \cup {i}
      <4>1. hand.todo \ {i} \in SUBSET Stories /\ hand.applied \cup {i} \in SUBSET Stories
        BY <1>w
      <4> QED
        BY <1>0, <4>1 DEF Handler
    <3>2. k2 \in Handler /\ k2.stage = hand.stage /\ k2.applied = hand.applied
      <4>1. hand.todo \ {i} \in SUBSET Stories
        BY <1>w
      <4> QED
        BY <1>0, <4>1 DEF Handler
    <3>3. (moved' = moved \cup {<<I!D, i>>} /\ hand' = k1) \/ (moved' = moved /\ hand' = k2)
      BY <1>3
    <3> HIDE DEF k1, k2
    <3> QED
      BY <1>3, <3>1, <3>2, <3>3
  <2>4. MovedBy(I!D)' = IF only THEN MovedBy(I!D) ELSE MovedBy(I!D) \cup {i}
    BY <1>3, <2>1, <2>2, <2>3 DEF MovedBy
  <2>5. RowTypes'
    BY <1>0, <1>3, <2>1, <2>3 DEF RowTypes
  <2>6. /\ I!Linked(I!D) \subseteq links /\ hand.applied \subseteq MovedBy(I!D)
        /\ I!D \notin troubled => MovedBy(I!D) = hand.applied
    BY <1>0, <1>3 DEF AtHead
  <2>7. /\ hand'.applied \subseteq MovedBy(I!D)'
        /\ I!D \notin troubled' => MovedBy(I!D)' = hand'.applied
    BY <1>3, <2>3, <2>4, <2>6
  <2>8. AtHead'
    BY <1>3, <2>1, <2>2, <2>3, <2>6, <2>7 DEF AtHead
  <2>9. ASSUME NEW e \in Deliveries, e # I!D PROVE Aside(e)
    BY <1>3, <2>2, <2>3, <2>9 DEF Aside
  <2>10. Recorded(I!D)'
    BY <1>0, <1>3, <2>1, <2>2, <2>3 DEF Recorded
  <2>11. Outlives
    BY <1>3, <2>3 DEF Outlives, Finished
  <2>12. ASSUME NEW e \in Deliveries PROVE Recorded(e)'
    <3>1. links \subseteq links'
      BY <1>3
    <3>2. CASE e = I!D
      BY <2>10, <3>2, <2>2 DEF Recorded
    <3>3. CASE e # I!D
      BY <1>aside, <2>9, <3>1, <3>3
    <3> QED
      BY <3>2, <3>3
  <2> QED
    BY <2>5, <2>8, <2>11, <2>12 DEF RowsInv
<1>4. ASSUME NEW i \in Stories, I!Move(i) PROVE RowsInv' /\ Outlives
  <2>1. CASE story[i] = "InProgress"
    <3>1. story' \in [Stories -> {"Planned", "InProgress", "InReview"}]
      BY <1>0, <1>4, <2>1 DEF I!Move
    <3> QED
      BY <1>3, <1>4, <2>1, <3>1 DEF I!Move, I!stored
  <2>2. CASE story[i] # "InProgress"
    BY <1>0, <1>3, <1>4, <2>2 DEF I!Move, I!stored
  <2> QED
    BY <2>1, <2>2
<1>5. ASSUME NEW i \in Stories, I!MoveFails(i) PROVE RowsInv' /\ Outlives
  BY <1>0, <1>3, <1>5 DEF I!MoveFails, I!stored, I!effects
<1>6. CASE I!Complete
  <2> DEFINE r == [delivery[I!D] EXCEPT !.status = "completed", !.applied = hand.applied]
             k == [hand EXCEPT !.stage = "publish"]
  <2>1. /\ hand.stage = "move" /\ delivery' = [delivery EXCEPT ![I!D] = r] /\ hand' = k
        /\ UNCHANGED <<task, line, story, links, moved, troubled>>
        /\ I!AtWork /\ I!D \in Deliveries /\ delivery[I!D].status = "processing"
    BY <1>0, <1>6, <1>d DEF I!Complete, I!effects, AtHead
  <2>2. r \in DeliveryRow /\ r.status = "completed" /\ r.applied = hand.applied
    BY <1>0, <1>w, <2>1 DEF DeliveryRow, HookStatuses
  <2>3. k \in Handler /\ k.stage = "publish"
    BY <1>0 DEF Handler
  <2> HIDE DEF r, k
  <2>4. /\ delivery' \in [Deliveries -> DeliveryRow] /\ delivery'[I!D] = r
        /\ \A e \in Deliveries \ {I!D} : delivery'[e] = delivery[e]
    BY <1>0, <2>1, <2>2
  <2>5. I!D' = I!D /\ I!AtWork' /\ \A e \in Deliveries : I!Linked(e)' = I!Linked(e) /\ MovedBy(e)' = MovedBy(e)
    BY <1>same, <2>1 DEF I!Linked, MovedBy
  <2>6. RowTypes'
    BY <1>0, <2>1, <2>3, <2>4 DEF RowTypes
  <2>7. AtHead'
    BY <2>1, <2>2, <2>3, <2>4, <2>5 DEF AtHead
  <2>8. ASSUME NEW e \in Deliveries, e # I!D PROVE Aside(e)
    BY <2>1, <2>4, <2>5, <2>8 DEF Aside
  <2>9. Recorded(I!D)'
    BY <1>0, <2>1, <2>2, <2>3, <2>4, <2>5 DEF Recorded, AtHead
  <2>10. Outlives
    BY <2>1, <2>2, <2>3, <2>4, <2>5 DEF Outlives, Finished
  <2>12. ASSUME NEW e \in Deliveries PROVE Recorded(e)'
    <3>1. links \subseteq links'
      BY <2>1
    <3>2. CASE e = I!D
      BY <2>9, <3>2, <2>5 DEF Recorded
    <3>3. CASE e # I!D
      BY <1>aside, <2>8, <3>1, <3>3
    <3> QED
      BY <3>2, <3>3
  <2> QED
    BY <2>6, <2>7, <2>10, <2>12 DEF RowsInv
<1>7. CASE I!Fail
  <2> DEFINE q == [delivery[I!D] EXCEPT !.status = I!Requeued(I!D)]
  <2>1. /\ I!AtWork /\ hand.stage # "rest" /\ delivery' \in {delivery, [delivery EXCEPT ![I!D] = q]}
        /\ hand' = I!Rest /\ troubled' = troubled \cup {I!D} /\ UNCHANGED <<story, links, moved>>
        /\ I!D \in Deliveries
    BY <1>7, <1>d DEF I!Fail, I!Throw, I!effects
  <2>2. /\ q \in DeliveryRow /\ q.status \in {"queued", "failed"} /\ q.attempts = delivery[I!D].attempts
        /\ q.status = "failed" => q.attempts >= Retries
    BY <1>0, <2>1 DEF DeliveryRow, HookStatuses, I!Requeued
  <2> HIDE DEF q
  <2>3. /\ delivery' \in [Deliveries -> DeliveryRow] /\ delivery'[I!D] \in {delivery[I!D], q}
        /\ \A e \in Deliveries \ {I!D} : delivery'[e] = delivery[e]
    BY <1>0, <2>1, <2>2
  <2>4. \A e \in Deliveries : I!Linked(e)' = I!Linked(e) /\ MovedBy(e)' = MovedBy(e)
    BY <2>1 DEF I!Linked, MovedBy
  <2>5. RowTypes'
    BY <1>0, <1>rest, <2>1, <2>3 DEF RowTypes
  <2>6. AtHead'
    BY <1>rest, <2>1 DEF AtHead
  <2>7. ASSUME NEW e \in Deliveries PROVE Recorded(e)'
    <3>1. CASE e = I!D
      BY <1>0, <2>1, <2>2, <2>3, <2>4, <3>1 DEF Recorded
    <3>2. CASE e # I!D
      BY <1>0, <2>1, <2>3, <2>4, <3>2 DEF Recorded
    <3> QED
      BY <3>1, <3>2
  <2>8. Outlives
    <3>1. ~Finished(I!D)
      BY <1>0, <1>w, <2>1 DEF Finished, AtHead
    <3>2. hand'.stage # "publish"
      BY <1>rest, <2>1
    <3> QED
      BY <1>d, <2>1, <2>2, <2>3, <3>1, <3>2 DEF Outlives, Finished
  <2> QED
    BY <2>5, <2>6, <2>7, <2>8 DEF RowsInv
<1> QED
  BY <1>1, <1>2, <1>4, <1>5, <1>6, <1>7

(* Every step keeps the invariant.                                         *)
LEMMA WebhookStep == WebhookInv /\ [I!Next]_(I!vars) => WebhookInv'
<1> SUFFICES ASSUME WebhookInv, [I!Next]_(I!vars) PROVE WebhookInv'
  OBVIOUS
<1>0. /\ delivery \in [Deliveries -> DeliveryRow] /\ hand \in Handler
      /\ story \in [Stories -> {"Planned", "InProgress", "InReview"}]
      /\ links \subseteq Deliveries \X Stories /\ moved \subseteq Deliveries \X Stories
      /\ troubled \subseteq Deliveries
      /\ AtHead /\ \A d \in Deliveries : Recorded(d)
  BY DEF WebhookInv, RowsInv, RowTypes
<1>q. /\ event \in [Deliveries -> {"none", "pending", "dispatched"}] /\ consumption \in [Deliveries -> Claims]
      /\ letter \in [Deliveries -> Letters] /\ task \in [I!Tasks -> TaskRow] /\ Typed(line)
      /\ dropped \subseteq Deliveries /\ \A t \in I!Tasks : TaskInv(t)
      /\ \A d \in Deliveries : Redeemed(d) /\ d \in I!Tasks
  BY DEF WebhookInv, RegistryInv, QueueTypes, I!Tasks
<1>rest. I!Rest \in Handler /\ I!Rest.stage = "rest"
  BY DEF I!Rest, Handler

(* The rows stay, and so does the head of the line while it is worked for. *)
<1>stay. ASSUME RowsStay, UNCHANGED <<event, consumption, letter, task, line, dropped>> PROVE WebhookInv'
  <2>1. HeadStays
    BY <1>0, <1>stay DEF HeadStays, AtHead, I!AtWork, I!D
  <2>2. RowsInv' /\ Outlives
    BY <1>stay, <2>1, RowsKeep DEF Outlives, RowsStay
  <2> QED
    BY <1>stay, <2>2, HandlerKeeps DEF WebhookInv
<1>1. CASE UNCHANGED I!vars
  BY <1>0, <1>1, <1>stay DEF I!vars, I!stored, I!effects, RowsStay
<1>2. CASE RegistryStep
  BY <1>2, RegistrySteps
<1>3. ASSUME NEW i \in Stories, I!Resume(i) PROVE WebhookInv'
  <2>1. story' \in [Stories -> {"Planned", "InProgress", "InReview"}]
    BY <1>0, <1>3 DEF I!Resume
  <2> QED
    BY <1>3, <1>stay, <2>1 DEF I!Resume, I!stored, RowsStay
<1>4. CASE I!Claim \/ I!Link \/ I!Complete \/ \E i \in Stories : I!Move(i) \/ I!MoveFails(i)
  <2>1. UNCHANGED <<event, consumption, letter, task, line, dropped>>
    BY <1>4 DEF I!Claim, I!Link, I!Complete, I!Move, I!MoveFails, I!stored
  <2> QED
    BY <1>4, <2>1, HeadStep, HandlerKeeps DEF WebhookInv

(* The handler returns, or throws.                                         *)
<1>back. ASSUME I!AtWork, I!Return, delivery[I!D].status = "completed", hand.stage # "move",
                UNCHANGED <<delivery, event, consumption, letter, story, links, moved, troubled, dropped>>
         PROVE  WebhookInv'
  <2>1. PICK d \in Deliveries : d = I!D
    BY <1>back, HeadOfLine
  <2> DEFINE r == [task[Head(line)] EXCEPT !.stage = "mark"]
  <2>2. /\ task' = [task EXCEPT ![Head(line)] = r] /\ line' = Tail(line) /\ hand' = I!Rest
    BY <1>back DEF I!Return, I!At
  <2>3. r \in TaskRow /\ r.of = d /\ r.stage = "mark" /\ r.processed = task[Head(line)].processed
    <3>1. task[Head(line)] \in TaskRow /\ I!D = task[Head(line)].of
      BY <1>back, HeadOfLine
    <3> QED
      BY <2>1, <3>1 DEF TaskRow, TaskStages
  <2> HIDE DEF r
  <2>4. Finished(d)' /\ Outlives
    BY <1>back, <1>rest, <2>1, <2>2 DEF Finished, Outlives
  <2>5. RegistryInv'
    BY <1>back, <2>1, <2>2, <2>3, <2>4, HeadReturns
  <2>6. RowTypes' /\ AtHead'
    BY <1>0, <1>back, <1>rest, <2>2 DEF RowTypes, AtHead
  <2>7. ASSUME NEW e \in Deliveries PROVE Recorded(e)'
    <3>1. I!Linked(e)' = I!Linked(e) /\ MovedBy(e)' = MovedBy(e)
      BY <1>back DEF I!Linked, MovedBy
    <3> QED
      BY <1>0, <1>back, <3>1 DEF Recorded
  <2> QED
    BY <2>5, <2>6, <2>7 DEF WebhookInv, RowsInv
<1>5. CASE I!Skip
  <2>1. I!AtWork /\ I!D \in Deliveries /\ delivery[I!D].status # "none"
    BY <1>5, HeadOfLine DEF I!Skip
  <2>2. delivery[I!D].status = "completed"
    <3>1. delivery[I!D] \in DeliveryRow
      BY <1>0, <2>1
    <3> QED
      BY <1>5, <2>1, <3>1 DEF I!Skip, I!Claimable, DeliveryRow, HookStatuses
  <2> QED
    BY <1>5, <1>back, <2>1, <2>2 DEF I!Skip, I!stored, I!effects
<1>6. CASE I!Publish
  BY <1>0, <1>6, <1>back DEF I!Publish, AtHead, I!stored, I!effects
<1>throw. ASSUME I!AtWork, I!Throw, RowsInv', Outlives, UNCHANGED <<event, consumption, letter, dropped>>
          PROVE  WebhookInv'
  <2>1. PICK d \in Deliveries : d = I!D
    BY <1>throw, HeadOfLine
  <2>2. PICK r : r = I!AfterFailure(Head(line))
    OBVIOUS
  <2>3. Head(line) \in I!Tasks /\ task[Head(line)] \in TaskRow /\ d = task[Head(line)].of
    BY <1>throw, <2>1, HeadOfLine
  <2>4. r \in TaskRow /\ r.of = d /\ r.stage \in {"again", "markFailed"}
        /\ r.processed = task[Head(line)].processed
    BY <2>2, <2>3, FailureRow
  <2>5. task' = [task EXCEPT ![Head(line)] = r] /\ line' = Tail(line)
    BY <1>throw, <2>2 DEF I!Throw
  <2>6. RegistryInv'
    BY <1>throw, <2>1, <2>4, <2>5, HeadReturns
  <2> QED
    BY <1>throw, <2>6 DEF WebhookInv
<1>7. CASE I!ClaimFails
  <2>1. /\ I!AtWork /\ I!Throw /\ hand.stage = "rest" /\ hand' = I!Rest
        /\ UNCHANGED <<delivery, event, consumption, letter, story, links, moved, troubled, dropped>>
    BY <1>7 DEF I!ClaimFails, I!Throw, I!stored, I!effects
  <2>2. HeadStays /\ Outlives
    BY <1>rest, <2>1 DEF HeadStays, Outlives, Finished
  <2>3. RowTypes' /\ AtHead'
    BY <1>0, <1>rest, <2>1 DEF RowTypes, AtHead
  <2>4. ASSUME NEW e \in Deliveries PROVE Recorded(e)'
    <3>1. I!Linked(e)' = I!Linked(e) /\ MovedBy(e)' = MovedBy(e)
      BY <2>1 DEF I!Linked, MovedBy
    <3> QED
      BY <1>0, <2>1, <3>1 DEF Recorded
  <2> QED
    BY <1>throw, <2>1, <2>2, <2>3, <2>4 DEF RowsInv
<1>8. CASE I!Fail
  <2>1. I!AtWork /\ I!Throw /\ UNCHANGED <<event, consumption, letter, dropped>>
    BY <1>8 DEF I!Fail
  <2>2. RowsInv' /\ Outlives
    BY <1>8, HeadStep
  <2> QED
    BY <1>throw, <2>1, <2>2

(* A delivery is accepted.                                                 *)
<1>9. ASSUME NEW d \in Deliveries, I!Accept(d) PROVE WebhookInv'
  <2> DEFINE r == [delivery[d] EXCEPT !.status = "queued"]
  <2>1. /\ delivery[d].status = "none" /\ delivery' = [delivery EXCEPT ![d] = r]
        /\ event' = [event EXCEPT ![d] = "pending"]
        /\ UNCHANGED <<consumption, letter, task, line, hand, story, links, moved, troubled, dropped>>
    BY <1>9 DEF I!Accept, I!effects
  <2>2. r \in DeliveryRow /\ r.status = "queued" /\ r.attempts = delivery[d].attempts
    BY <1>0 DEF DeliveryRow, HookStatuses
  <2> HIDE DEF r
  <2>3. /\ delivery' \in [Deliveries -> DeliveryRow] /\ delivery'[d] = r /\ event'[d] = "pending"
        /\ \A e \in Deliveries \ {d} : delivery'[e] = delivery[e] /\ event'[e] = event[e]
        /\ event' \in [Deliveries -> {"none", "pending", "dispatched"}]
    BY <1>0, <1>q, <2>1, <2>2
  <2>4. RowTypes' /\ QueueTypes'
    BY <1>0, <1>q, <2>1, <2>3 DEF RowTypes, QueueTypes
  <2>5. I!D' = I!D /\ \A e : I!Linked(e)' = I!Linked(e) /\ MovedBy(e)' = MovedBy(e)
    BY <2>1 DEF I!D, I!Linked, MovedBy
  <2>6. hand.stage # "rest" => I!D \in Deliveries \ {d} /\ I!AtWork
    BY <1>0, <2>1, HeadOfLine DEF AtHead
  <2>7. AtHead'
    BY <1>0, <2>1, <2>3, <2>5, <2>6 DEF AtHead, I!AtWork
  <2>8. ASSUME NEW e \in Deliveries PROVE Recorded(e)'
    BY <1>0, <2>1, <2>2, <2>3, <2>5, <2>8 DEF Recorded
  <2>9. \A e \in Deliveries : Finished(e)' <=> Finished(e)
    BY <2>1, <2>2, <2>3, <2>5 DEF Finished
  <2>10. Gains
    BY <2>1, <2>2, <2>3, <2>9 DEF Gains
  <2>11. ASSUME NEW t \in I!Tasks PROVE TaskInv(t)'
    <3>1. PICK q : q = task[t] /\ RowInv(t, q) /\ TaskInv(t)
      BY <1>q DEF TaskInv
    <3>2. RowInv(t, q)'
      BY <2>10, <3>1, RowInvGrows
    <3> QED
      BY <2>1, <3>1, <3>2 DEF TaskInv
  <2>12. ASSUME NEW e \in Deliveries PROVE Redeemed(e)'
    <3>1. CASE e = d
      BY <1>q, <2>1, <2>2, <2>3, <2>9, <3>1 DEF Redeemed, Owed, Held, Secured
    <3>2. CASE e # d
      BY <1>q, <2>1, <2>3, <2>9, <3>2 DEF Redeemed, Owed, Held, Secured
    <3> QED
      BY <3>1, <3>2
  <2> QED
    BY <2>4, <2>7, <2>8, <2>11, <2>12 DEF WebhookInv, RowsInv, RegistryInv

(* The process stops: what no task holds any more is dropped, or finished. *)
<1>10. CASE I!Crash
  <2>1. /\ delivery' = [d \in Deliveries |-> I!Reset(delivery[d])]
        /\ consumption' = [d \in Deliveries |-> I!Reopened(consumption[d])]
        /\ task' = [t \in I!Tasks |-> I!Free] /\ line' = << >> /\ hand' = I!Rest
        /\ troubled' = troubled \cup (IF I!AtWork THEN {I!D} ELSE {})
        /\ dropped' = dropped \cup {d \in Deliveries : I!Unhandled(d)}
        /\ UNCHANGED <<event, letter, story, links, moved>>
    BY <1>10 DEF I!Crash, I!effects
  <2>2. ASSUME NEW e \in Deliveries
        PROVE  /\ delivery'[e] \in DeliveryRow /\ delivery'[e].attempts = delivery[e].attempts
               /\ delivery'[e].applied = delivery[e].applied
               /\ delivery'[e].status = IF delivery[e].status = "processing" THEN "queued"
                                                                             ELSE delivery[e].status
    <3>1. delivery[e] \in DeliveryRow
      BY <1>0
    <3> QED
      BY <2>1, <3>1 DEF I!Reset, DeliveryRow, HookStatuses
  <2>3. /\ I!Free \in TaskRow /\ I!Free.stage = "idle" /\ Typed(line') /\ \A t : t \notin I!Range(line')
    <3>1. 0 \in 0 .. Retries - 1
      BY MentionsAssumption
    <3> QED
      BY <2>1, <3>1 DEF I!Free, TaskRow, TaskStages, Typed, I!IsInjective, I!Range
  <2>4. \A e \in Deliveries : /\ consumption'[e] \in Claims /\ consumption'[e] # "processing"
                              /\ consumption'[e] = "processed" => consumption[e] = "processed"
    BY <1>q, <2>1 DEF I!Reopened, Claims
  <2>5. delivery' \in [Deliveries -> DeliveryRow] /\ consumption' \in [Deliveries -> Claims]
        /\ task' \in [I!Tasks -> TaskRow] /\ troubled' \subseteq Deliveries /\ dropped' \subseteq Deliveries
    BY <1>0, <1>q, <2>1, <2>2, <2>3, <2>4, HeadOfLine
  <2>6. RowTypes' /\ QueueTypes'
    BY <1>0, <1>q, <1>rest, <2>1, <2>3, <2>5 DEF RowTypes, QueueTypes
  <2>7. AtHead'
    BY <1>rest, <2>1 DEF AtHead
  <2>8. ASSUME NEW e \in Deliveries PROVE Recorded(e)'
    <3>1. I!Linked(e)' = I!Linked(e) /\ MovedBy(e)' = MovedBy(e)
      BY <2>1 DEF I!Linked, MovedBy
    <3>2. hand.stage = "move" => I!AtWork
      BY <1>0 DEF AtHead
    <3> QED
      BY <1>0, <1>rest, <2>1, <2>2, <3>1, <3>2 DEF Recorded
  <2>9. \A e \in Deliveries : Finished(e) => Finished(e)'
    BY <1>rest, <2>1, <2>2 DEF Finished
  <2>10. ASSUME NEW t \in I!Tasks PROVE TaskInv(t)'
    BY <2>1, <2>3 DEF TaskInv, RowInv
  <2>11. ASSUME NEW e \in Deliveries PROVE Redeemed(e)'
    <3>1. task'[e].stage = "idle"
      BY <1>q, <2>1, <2>3
    <3>2. ASSUME event[e] = "dispatched" PROVE Secured(e)'
      <4>1. Held(e) \/ Secured(e)
        BY <1>q, <3>2 DEF Redeemed, Owed
      <4>2. CASE Secured(e)
        BY <2>1, <2>9, <4>2 DEF Secured
      <4>3. CASE task[e].stage \in {"line", "again", "markFailed", "letter"}
        BY <2>1, <3>2, <4>3 DEF Secured, I!Unhandled
      <4>4. CASE task[e].stage \in {"mark", "clear"}
        <5>1. Finished(e)
          BY <1>q, <4>4 DEF TaskInv, RowInv
        <5> QED
          BY <2>9, <5>1 DEF Secured
      <4> QED
        BY <4>1, <4>2, <4>3, <4>4 DEF Held
    <3> QED
      BY <1>q, <2>1, <2>2, <2>4, <2>9, <3>1, <3>2 DEF Redeemed, Owed
  <2> QED
    BY <2>6, <2>7, <2>8, <2>10, <2>11 DEF WebhookInv, RowsInv, RegistryInv
<1> QED
  BY <1>1, <1>2, <1>3, <1>4, <1>5, <1>6, <1>7, <1>8, <1>9, <1>10 DEF I!Next, RegistryStep

(* Deliveries keep their invariant through crashes, failures and replays   *)
(* (inbound-webhook-queue.service.ts:215).                                 *)
THEOREM WebhookHolds == I!Spec => []WebhookInv
<1>1. I!Spec => []WebhookInv
  BY WebhookInit, WebhookStep, PTL DEF I!Spec
<1> QED
  BY <1>1

(* The invariant implies what is checked: types, an answer for every       *)
(* accepted webhook (inbound-webhook-queue.service.ts:215), an honest one  *)
(* (integration.service.ts:58).                                            *)
LEMMA WebhookProps == WebhookInv => I!TypeOK /\ I!AcceptedIsAnswered /\ I!ResultIsHonest
<1> SUFFICES ASSUME WebhookInv PROVE I!TypeOK /\ I!AcceptedIsAnswered /\ I!ResultIsHonest
  OBVIOUS
<1>1. I!TypeOK
  BY DEF WebhookInv, RowsInv, RegistryInv, RowTypes, QueueTypes, DeliveryRow, HookStatuses, Handler,
     TaskRow, TaskStages, Claims, Letters, Typed, I!TypeOK
<1>2. I!AcceptedIsAnswered
  <2> SUFFICES ASSUME NEW d \in Deliveries
               PROVE  /\ delivery[d].status \notin {"none", "completed"} /\ d \notin dropped =>
                           event[d] = "pending" \/ task[d].stage # "idle" \/ letter[d] \in {"dead", "discarded"}
                      /\ delivery[d].status = "failed" => delivery[d].attempts >= Retries
                      /\ consumption[d] = "processed" => delivery[d].status = "completed"
    BY DEF I!AcceptedIsAnswered
  <2>1. /\ Redeemed(d) /\ Recorded(d) /\ event[d] \in {"none", "pending", "dispatched"} /\ letter[d] \in Letters
    BY DEF WebhookInv, RowsInv, RegistryInv, QueueTypes
  <2> QED
    BY <2>1 DEF Redeemed, Owed, Held, Secured, Finished, Recorded, Letters
<1>3. I!ResultIsHonest
  BY DEF WebhookInv, RowsInv, Recorded, MovedBy, I!ResultIsHonest
<1> QED
  BY <1>1, <1>2, <1>3
-----------------------------------------------------------------------------
(* ConnectorLifecycle: rows that are read, changed and stored.             *)
(*                                                                         *)
(* Every step is one of a few moves of a caller and a row                  *)
(* (ConnectorMoves), and each part of the invariant is kept by each move.  *)
(* Readings relates what a caller holds to the rows that were stored       *)
(* since; BudgetFollows, the budget to what the connectors ask for, when   *)
(* nobody registers, and what a registration that nothing overlaps will    *)
(* store.  A registration is alone only as long as no process but its own  *)
(* is starting: what a process that stopped has left undone may contradict *)
(* what the registration has read.                                         *)

ConnectorStatuses == {"absent", "unconfigured", "connected", "discovering", "discovered",
                      "active", "degraded", "paused", "error"}
Configs == [rateGovernance : Limits, writeBack : {0, 1}]
ConnectorRow == [status : ConnectorStatuses, discovery : {"none", "ready", "limited"},
                 activated : BOOLEAN, config : Configs]
WorkRow == [stage : {"idle", "work"},
            op : {"none", "test", "discover", "activate", "pause", "sync", "configure"},
            of : Connectors \cup {"none"}, read : ConnectorRow, section : C!Sections \cup {"none"},
            value : Limits \cup {0, 1}, limit : Limits \cup {0}]
LeftOver == {<< >>} \cup UNION {[D -> Limits] : D \in SUBSET Connectors}
RegistrationRow == [stage : {"register", "store"}, op : {"create", "activate", "configure", "start"},
                    of : Connectors, read : ConnectorRow, own : Limits, merged : Limits \cup {0},
                    left : LeftOver, crowded : BOOLEAN]
UpdateRow == WorkRow \cup RegistrationRow

ConnectorTypes == /\ connector \in [Connectors -> ConnectorRow]
                  /\ update \in [Callers -> UpdateRow]
                  /\ budgeted \in Limits \cup {0} /\ updates \in 0 .. MaxCalls
                  /\ policies \in [Hosts -> Limits \cup {0}] /\ starting \subseteq Hosts
                  /\ meant \in [Connectors -> Configs]
                  /\ slips \subseteq {"lost", "overlap", "outdated"}

(* An operation works on a connector there is, and one that changes the    *)
(* status of a paused connector does not begin.                            *)
Readings == \A w \in Callers :
  /\ update[w].stage # "idle" => update[w].of \in Connectors /\ C!Exists(update[w].of)
  /\ C!Registering(w) => \A d \in DOMAIN update[w].left : d \in Connectors /\ C!Exists(d)
  /\ update[w].stage = "work" /\ update[w].op = "configure" => 
       update[w].section \in C!Sections /\ update[w].value \in C!Values(update[w].section)
  /\ update[w].stage = "work" /\ update[w].op \in {"discover", "sync"} => update[w].read.status # "paused"

(* The budgets the connectors ask for, and a registration that nothing     *)
(* has overlapped.                                                         *)
ConnectorAsked == {C!Asked(c) : c \in {d \in Connectors : C!Exists(d)}}
Alone(w) == /\ C!Registering(w) /\ ~update[w].crowded /\ C!Others(w) = {}
            /\ starting \subseteq (IF update[w].op = "start" THEN {Host[w]} ELSE {})
Settled == C!Steady /\ "overlap" \notin slips =>
  /\ budgeted # 0 /\ budgeted <= C!Smallest(ConnectorAsked)
  /\ "outdated" \notin slips => budgeted = C!Smallest(ConnectorAsked)
AloneKnows == \A w \in Callers : Alone(w) =>
  /\ update[w].stage = "register" => update[w].own \in ConnectorAsked
  /\ update[w].stage = "store" => update[w].merged = C!Smallest(ConnectorAsked)
  /\ \A d \in DOMAIN update[w].left : update[w].left[d] \in ConnectorAsked
BudgetFollows == Settled /\ AloneKnows

(* A row that is not there yet has no settings.                            *)
Unwritten == \A c \in Connectors : ~C!Exists(c) => connector[c].config = C!Blank

ConnectorInv == ConnectorTypes /\ Readings /\ BudgetFollows /\ Unwritten /\ C!SettingsAreKept

(* An operation at rest.                                                   *)
LEMMA IdleType == /\ C!Absent \in ConnectorRow /\ C!Absent.status = "absent" /\ C!Absent.config = C!Blank
                  /\ C!Blank \in Configs
                  /\ C!Idle \in WorkRow /\ C!Idle \in UpdateRow
                  /\ C!Idle.stage = "idle" /\ C!Idle.op = "none" /\ C!Idle.of = "none"
<1>1. C!Blank \in Configs
  BY LimitsAssumption DEF Configs, C!Blank
<1>2. C!Absent \in ConnectorRow
  BY <1>1 DEF C!Absent, ConnectorRow, ConnectorStatuses
<1>3. C!Idle \in WorkRow
  BY <1>2 DEF WorkRow, C!Idle
<1> QED
  BY <1>1, <1>2, <1>3 DEF UpdateRow, C!Idle, C!Absent

(* Without rows and with callers at rest the invariant holds.              *)
LEMMA ConnectorInit == C!Init => ConnectorInv
<1> SUFFICES ASSUME C!Init PROVE ConnectorInv
  OBVIOUS
<1> USE IdleType
<1>1. \A w \in Callers : update[w].stage = "idle"
  BY DEF C!Init
<1>2. \A c \in Connectors : connector[c].status = "absent" /\ connector[c].config = C!Blank
  BY DEF C!Init
<1>4. ConnectorTypes
  BY LimitsAssumption DEF C!Init, ConnectorTypes
<1>5. Readings /\ AloneKnows
  BY <1>1 DEF Readings, AloneKnows, Alone, C!Registering
<1>6. Settled
  BY <1>2 DEF Settled, C!Steady, C!Exists
<1>7. Unwritten /\ C!SettingsAreKept
  BY <1>2 DEF Unwritten, C!SettingsAreKept, C!Init
<1> QED
  BY <1>4, <1>5, <1>6, <1>7 DEF ConnectorInv, BudgetFollows

(* The least of some budgets is one of them, and no more than any.         *)
LEMMA SmallestIsOne ==
  ASSUME NEW W \in SUBSET Limits, W # {}
  PROVE  C!Smallest(W) \in W /\ C!Smallest(W) \in Limits /\ \A x \in W : C!Smallest(W) <= x
<1>1. \E x \in W : \A y \in W : x <= y
  BY LeastNumber, LimitsAssumption
<1> QED
  BY <1>1 DEF C!Smallest

(* A section replaced in a configuration.                                  *)
LEMMA Replaces ==
  ASSUME NEW cfg \in Configs, NEW section \in C!Sections, NEW value \in C!Values(section)
  PROVE  /\ [cfg EXCEPT ![section] = value] \in Configs
         /\ section = "writeBack" => [cfg EXCEPT ![section] = value].rateGovernance = cfg.rateGovernance
<1>1. CASE section = "rateGovernance"
  BY <1>1 DEF Configs, C!Values
<1>2. CASE section = "writeBack"
  BY <1>2 DEF Configs, C!Values
<1> QED
  BY <1>1, <1>2 DEF C!Sections

(* The callers' rows by what they do.                                      *)
LEMMA RowKinds ==
  ASSUME NEW u \in UpdateRow
  PROVE  /\ u.stage \in {"register", "store"} => u \in RegistrationRow
         /\ u.stage \in {"idle", "work"} => u \in WorkRow
         /\ u.stage \in {"idle", "work", "register", "store"}
<1>1. CASE u \in WorkRow
  BY <1>1 DEF WorkRow
<1>2. CASE u \in RegistrationRow
  BY <1>2 DEF RegistrationRow
<1> QED
  BY <1>1, <1>2 DEF UpdateRow

(* A registration, crowded.                                                *)
LEMMA CrowdedFields ==
  ASSUME NEW u \in RegistrationRow, NEW b \in BOOLEAN
  PROVE  LET n == [u EXCEPT !.crowded = b] IN
         /\ n \in RegistrationRow /\ n.crowded = b
         /\ n.stage = u.stage /\ n.op = u.op /\ n.of = u.of /\ n.read = u.read /\ n.own = u.own
         /\ n.merged = u.merged /\ n.left = u.left
BY DEF RegistrationRow

(* What a registration has left to do names connectors and budgets.        *)
LEMMA LeftFields ==
  ASSUME NEW left \in LeftOver
  PROVE  /\ \A d \in DOMAIN left : d \in Connectors /\ left[d] \in Limits
         /\ \A c : [d \in DOMAIN left \ {c} |-> left[d]] \in LeftOver
<1>1. CASE left = << >>
  <2>1. DOMAIN left = {}
    BY <1>1
  <2>2. ASSUME NEW c PROVE [d \in DOMAIN left \ {c} |-> left[d]] \in [{} -> Limits]
    BY <2>1
  <2> QED
    BY <2>1, <2>2 DEF LeftOver
<1>2. ASSUME NEW D \in SUBSET Connectors, left \in [D -> Limits]
      PROVE  /\ \A d \in DOMAIN left : d \in Connectors /\ left[d] \in Limits
             /\ \A c : [d \in DOMAIN left \ {c} |-> left[d]] \in LeftOver
  <2>1. DOMAIN left = D
    BY <1>2
  <2>2. ASSUME NEW c PROVE [d \in DOMAIN left \ {c} |-> left[d]] \in [D \ {c} -> Limits]
    BY <1>2, <2>1
  <2> QED
    BY <1>2, <2>1, <2>2 DEF LeftOver
<1> QED
  BY <1>1, <1>2 DEF LeftOver

(* A row that is written in part keeps its type.                           *)
LEMMA RowWrites ==
  ASSUME NEW c \in Connectors, connector \in [Connectors -> ConnectorRow], NEW r \in ConnectorRow,
         connector' = [connector EXCEPT ![c] = r]
  PROVE  /\ connector' \in [Connectors -> ConnectorRow]
         /\ connector'[c] = r /\ \A d \in Connectors \ {c} : connector'[d] = connector[d]
OBVIOUS

(* What a step writes of the row of a connector, and of the operations.    *)
ConnectorGoes(w, u) ==
  /\ update' \in [Callers -> UpdateRow] /\ update'[w] = u
  /\ \A v \in Callers \ {w} : update'[v] = update[v]
Crowds(w, u) ==
  /\ update' \in [Callers -> UpdateRow] /\ update'[w] = u
  /\ \A v \in Callers \ {w} :
       /\ ~C!Registering(v) => update'[v] = update[v]
       /\ C!Registering(v) => /\ update'[v].crowded = TRUE
                              /\ update'[v].stage = update[v].stage /\ update'[v].op = update[v].op
                              /\ update'[v].of = update[v].of /\ update'[v].left = update[v].left
Writes(c) ==
  /\ connector' \in [Connectors -> ConnectorRow]
  /\ connector'[c].status # "absent"
  /\ \A d \in Connectors \ {c} : connector'[d] = connector[d]
WritesStatus(c) == Writes(c) /\ connector'[c].config = connector[c].config
Apart == UNCHANGED <<budgeted, policies, starting, meant, slips>>

(* An operation that goes on to register the budget of its connector.      *)
Enrols(w, c, kind) ==
  \E u \in RegistrationRow :
    /\ ConnectorGoes(w, u) /\ u.stage = "register" /\ u.op = kind /\ u.of = c
    /\ u.own = connector'[c].config.rateGovernance /\ DOMAIN u.left = {}

ConnectorBegins(w, c) ==
  /\ update[w].stage = "idle" /\ C!Exists(c) /\ WritesStatus(c) /\ Apart /\ updates' \in 0 .. MaxCalls
  /\ connector'[c] = connector[c] \/ connector[c].status # "paused"
  /\ \E u \in WorkRow :
       /\ ConnectorGoes(w, u) /\ u.stage = "work" /\ u.of = c
       /\ u.op \in {"discover", "sync"} => u.read.status # "paused"
       /\ u.op = "configure" => u.section \in C!Sections /\ u.value \in C!Values(u.section)
Concludes(w, c) ==
  /\ update[w].stage = "work" /\ update[w].of = c /\ Apart /\ UNCHANGED updates
  /\ WritesStatus(c) /\ ConnectorGoes(w, C!Idle)
  /\ connector[c].status = "paused" /\ connector'[c].status # "paused" =>
       \/ update[w].read.status # "paused"
       \/ update[w].op = "test" /\ connector'[c].status = "error"
Activates(w, c) ==
  /\ update[w].stage = "work" /\ update[w].op = "activate" /\ update[w].of = c /\ Apart /\ UNCHANGED updates
  /\ WritesStatus(c) /\ Enrols(w, c, "activate")
Creates(w, c) ==
  /\ update[w].stage = "idle" /\ ~C!Exists(c) /\ updates' \in 0 .. MaxCalls /\ Apart
  /\ Writes(c) /\ connector'[c].config = C!Blank /\ Enrols(w, c, "create")
Configures(w, c) ==
  /\ update[w].stage = "work" /\ update[w].op = "configure" /\ update[w].of = c
  /\ UNCHANGED <<budgeted, policies, starting, updates>> /\ Writes(c)
  /\ connector'[c].status = connector[c].status
  /\ connector'[c].config = [update[w].read.config EXCEPT ![update[w].section] = update[w].value]
  /\ meant' = [meant EXCEPT ![c] = [meant[c] EXCEPT ![update[w].section] = update[w].value]]
  /\ connector[c].config # update[w].read.config => "lost" \in slips'
  /\ slips \subseteq slips' /\ slips' \subseteq {"lost", "overlap", "outdated"}
  /\ \/ update[w].section = "rateGovernance" /\ Enrols(w, c, "configure")
     \/ /\ update[w].section = "writeBack" /\ connector[c].config = update[w].read.config
        /\ slips' = slips /\ ConnectorGoes(w, C!Idle)
     \/ /\ update[w].section = "writeBack" /\ connector[c].config # update[w].read.config
        /\ "overlap" \in slips' /\ Crowds(w, C!Idle)
Reads(w) ==
  /\ update[w].stage = "register" /\ UNCHANGED <<connector, updates, budgeted, starting, meant, slips>>
  /\ policies' \in [Hosts -> Limits \cup {0}]
  /\ \E u \in RegistrationRow :
       /\ ConnectorGoes(w, u) /\ u.stage = "store" /\ u.op = update[w].op /\ u.of = update[w].of
       /\ u.left = update[w].left /\ u.crowded = update[w].crowded
       /\ u.merged = C!Smallest({update[w].own} \cup ConnectorAsked)

(* The next of those a starting process has found, or the end.             *)
GoesOn(w, u) ==
  /\ u \in RegistrationRow /\ u.stage = "register" /\ u.op = update[w].op
  /\ u.of \in DOMAIN update[w].left /\ u.own = update[w].left[u.of] /\ u.crowded = update[w].crowded
  /\ DOMAIN u.left \subseteq DOMAIN update[w].left
  /\ \A d \in DOMAIN u.left : u.left[d] = update[w].left[d]
ConnectorStores(w) ==
  /\ update[w].stage = "store" /\ UNCHANGED <<connector, policies, updates, meant>>
  /\ budgeted' = update[w].merged
  /\ slips' = IF update[w].crowded \/ C!Others(w) # {} THEN slips \cup {"overlap"}
                                                        ELSE slips \ {"overlap", "outdated"}
  /\ \/ /\ Crowds(w, C!Idle)
        /\ starting' = IF update[w].op = "start" THEN starting \ {Host[w]} ELSE starting
     \/ (\E u \in RegistrationRow : GoesOn(w, u) /\ Crowds(w, u)) /\ UNCHANGED starting
Breaks(w) ==
  /\ C!Registering(w) /\ UNCHANGED <<connector, budgeted, policies, starting, updates, meant>>
  /\ Crowds(w, C!Idle) /\ slips' = slips \cup {"overlap"}

(* A call to the provider, given its policy and then admitted.             *)
Recalls(w) ==
  /\ update[w].stage = "work"
  /\ \E u \in WorkRow : /\ ConnectorGoes(w, u) /\ u.stage = "work" /\ u.op = update[w].op /\ u.of = update[w].of
                        /\ u.read = update[w].read /\ u.section = update[w].section /\ u.value = update[w].value
ConnectorGoverned(w) == Recalls(w) /\ UNCHANGED <<connector, budgeted, policies, starting, updates, meant, slips>>
ConnectorAdmits(w) ==
  /\ Recalls(w) /\ UNCHANGED <<connector, policies, starting, updates, meant>>
  /\ update[w].limit \in Limits
  /\ budgeted' = C!Narrowed(update[w].limit)
  /\ slips' = IF update[w].limit < C!Smallest(ConnectorAsked) THEN slips \cup {"outdated"} ELSE slips

(* A process stops, and starts.                                            *)
Stops(h) ==
  /\ h \in Hosts /\ UNCHANGED <<connector, budgeted, updates, meant, slips>>
  /\ update' \in [Callers -> UpdateRow]
  /\ \A w \in Callers : update'[w] = (IF Host[w] = h THEN C!Idle ELSE update[w])
  /\ starting' = starting \cup {h} /\ policies' \in [Hosts -> Limits \cup {0}]
Restarts(w) ==
  /\ update[w].stage = "idle" /\ UNCHANGED <<connector, budgeted, policies, updates, meant, slips>>
  /\ \/ /\ UNCHANGED update /\ starting' \subseteq starting /\ \A c \in Connectors : ~C!Exists(c)
     \/ /\ UNCHANGED starting
        /\ \E u \in RegistrationRow :
             /\ ConnectorGoes(w, u) /\ u.stage = "register" /\ C!Exists(u.of) /\ u.own = C!Asked(u.of)
             /\ \A d \in DOMAIN u.left : C!Exists(d) /\ u.left[d] = C!Asked(d)
ConnectorMoves ==
  \/ UNCHANGED C!vars
  \/ \E w \in Callers : \/ \E c \in Connectors : ConnectorBegins(w, c) \/ Concludes(w, c) \/ Activates(w, c)
                                             \/ Creates(w, c) \/ Configures(w, c)
                        \/ Reads(w) \/ ConnectorStores(w) \/ Breaks(w) \/ ConnectorGoverned(w) \/ ConnectorAdmits(w)
                        \/ Stops(Host[w]) \/ Restarts(w)

(* One caller's row is written.                                            *)
LEMMA OneGoes ==
  ASSUME NEW w \in Callers, NEW u \in UpdateRow, update \in [Callers -> UpdateRow],
         update' = [update EXCEPT ![w] = u]
  PROVE  ConnectorGoes(w, u)
BY DEF ConnectorGoes

(* An operation that ends.                                                 *)
LEMMA Finishes ==
  ASSUME NEW w \in Callers, update \in [Callers -> UpdateRow], C!Finish(w)
  PROVE  ConnectorGoes(w, C!Idle)
BY IdleType DEF C!Finish, ConnectorGoes

(* A row is written, and those who register are no longer alone.           *)
LEMMA Crowding ==
  ASSUME NEW w \in Callers, NEW u \in UpdateRow, update \in [Callers -> UpdateRow], C!Crowd(w, u)
  PROVE  Crowds(w, u)
<1> DEFINE n(v) == [update[v] EXCEPT !.crowded = TRUE]
<1>1. \A v \in Callers : update'[v] = IF v = w THEN u ELSE IF C!Registering(v) THEN n(v) ELSE update[v]
  BY DEF C!Crowd
<1>2. ASSUME NEW v \in Callers, C!Registering(v)
      PROVE  /\ n(v) \in UpdateRow /\ n(v).crowded = TRUE /\ n(v).stage = update[v].stage
             /\ n(v).op = update[v].op /\ n(v).of = update[v].of /\ n(v).left = update[v].left
  <2>1. update[v] \in RegistrationRow
    BY <1>2, RowKinds DEF C!Registering
  <2> QED
    BY <2>1, CrowdedFields DEF UpdateRow
<1> HIDE DEF n
<1>3. \A v \in Callers : update'[v] \in UpdateRow
  BY <1>1, <1>2
<1>4. update' \in [Callers -> UpdateRow]
  <2>1. update' = [v \in Callers |-> update'[v]]
    BY DEF C!Crowd
  <2> QED
    BY <1>3, <2>1
<1>5. update'[w] = u
  BY <1>1
<1>6. \A v \in Callers \ {w} : (~C!Registering(v) => update'[v] = update[v])
                               /\ (C!Registering(v) => update'[v] = n(v))
  BY <1>1
<1> QED
  BY <1>2, <1>4, <1>5, <1>6 DEF Crowds

(* An operation that goes on to register the budget.                       *)
LEMMA Registers ==
  ASSUME NEW w \in Callers, NEW c \in Connectors, update \in [Callers -> UpdateRow],
         connector'[c] \in ConnectorRow,
         NEW kind \in {"create", "activate", "configure"}, C!Register(w, c, kind)
  PROVE  Enrols(w, c, kind)
<1>1. PICK own \in Limits : own = connector'[c].config.rateGovernance
  BY DEF ConnectorRow, Configs
<1>2. PICK left \in LeftOver : left = << >>
  BY DEF LeftOver
<1>3. DOMAIN left = {}
  BY <1>2
<1>4. PICK u : u = C!Registration(kind, c, own, left)
  OBVIOUS
<1>5. update' = [update EXCEPT ![w] = u]
  BY <1>1, <1>2, <1>4 DEF C!Register
<1>6. kind \in {"create", "activate", "configure", "start"}
  OBVIOUS
<1>7. u \in RegistrationRow /\ u.stage = "register" /\ u.op = kind /\ u.of = c /\ u.own = own /\ u.left = left
  BY <1>4, <1>6, IdleType DEF C!Registration, RegistrationRow
<1>8. ConnectorGoes(w, u)
  BY <1>5, <1>7, OneGoes DEF UpdateRow
<1> QED
  BY <1>1, <1>3, <1>7, <1>8 DEF Enrols

(* A status, and what comes with it, is written into the row.              *)
LEMMA StatusWrites ==
  ASSUME NEW c \in Connectors, connector \in [Connectors -> ConnectorRow],
         NEW status \in ConnectorStatuses \ {"absent"},
         \/ connector' = [connector EXCEPT ![c].status = status]
         \/ connector' = [connector EXCEPT ![c].status = status, ![c].activated = TRUE]
         \/ \E found \in {"ready", "limited"} : connector' = [connector EXCEPT ![c].discovery = found, ![c].status = status]
  PROVE  WritesStatus(c) /\ connector'[c].status = status
<1>0. connector[c] \in ConnectorRow
  OBVIOUS
<1>1. ASSUME NEW r \in ConnectorRow, connector' = [connector EXCEPT ![c] = r],
             r.config = connector[c].config, r.status = status
      PROVE  WritesStatus(c) /\ connector'[c].status = status
  BY <1>1 DEF Writes, WritesStatus
<1>2. CASE connector' = [connector EXCEPT ![c].status = status]
  <2> DEFINE r == [connector[c] EXCEPT !.status = status]
  <2>1. r \in ConnectorRow /\ r.config = connector[c].config /\ r.status = status
    BY <1>0 DEF ConnectorRow
  <2>2. connector' = [connector EXCEPT ![c] = r]
    BY <1>2
  <2> HIDE DEF r
  <2> QED
    BY <1>1, <2>1, <2>2
<1>3. CASE connector' = [connector EXCEPT ![c].status = status, ![c].activated = TRUE]
  <2> DEFINE r == [connector[c] EXCEPT !.status = status, !.activated = TRUE]
  <2>1. r \in ConnectorRow /\ r.config = connector[c].config /\ r.status = status
    BY <1>0 DEF ConnectorRow
  <2>2. connector' = [connector EXCEPT ![c] = r]
    BY <1>0, <1>3
  <2> HIDE DEF r
  <2> QED
    BY <1>1, <2>1, <2>2
<1>4. ASSUME NEW found \in {"ready", "limited"},
             connector' = [connector EXCEPT ![c].discovery = found, ![c].status = status]
      PROVE  WritesStatus(c) /\ connector'[c].status = status
  <2> DEFINE r == [connector[c] EXCEPT !.discovery = found, !.status = status]
  <2>1. r \in ConnectorRow /\ r.config = connector[c].config /\ r.status = status
    BY <1>0 DEF ConnectorRow
  <2>2. connector' = [connector EXCEPT ![c] = r]
    BY <1>0, <1>4
  <2> HIDE DEF r
  <2> QED
    BY <1>1, <2>1, <2>2
<1> QED
  BY <1>2, <1>3, <1>4

(* Every step is one of the moves.                                         *)
LEMMA ConnectorSteps == ConnectorInv /\ [C!Next]_(C!vars) => ConnectorMoves
<1> SUFFICES ASSUME ConnectorInv, [C!Next]_(C!vars) PROVE ConnectorMoves
  OBVIOUS
<1>0. /\ connector \in [Connectors -> ConnectorRow] /\ update \in [Callers -> UpdateRow]
      /\ updates \in 0 .. MaxCalls /\ meant \in [Connectors -> Configs]
      /\ policies \in [Hosts -> Limits \cup {0}] /\ slips \subseteq {"lost", "overlap", "outdated"}
  BY DEF ConnectorInv, ConnectorTypes
<1>1. ASSUME NEW w \in Callers, NEW c \in Connectors, C!Create(w, c) PROVE Creates(w, c)
  <2> DEFINE r == [C!Absent EXCEPT !.status = "unconfigured"]
  <2>1. r \in ConnectorRow /\ r.config = C!Blank /\ r.status = "unconfigured"
    BY IdleType DEF ConnectorRow, ConnectorStatuses
  <2>2. connector' = [connector EXCEPT ![c] = r]
    BY <1>1 DEF C!Create
  <2> HIDE DEF r
  <2>3. Writes(c) /\ connector'[c].config = C!Blank /\ connector'[c] \in ConnectorRow
    BY <1>0, <2>1, <2>2 DEF Writes
  <2>4. Enrols(w, c, "create")
    BY <1>0, <1>1, <2>3, Registers DEF C!Create
  <2>5. updates' \in 0 .. MaxCalls
    BY <1>0, <1>1, LimitsAssumption DEF C!Create
  <2> QED
    BY <1>1, <2>3, <2>4, <2>5 DEF C!Create, Creates, Apart
<1>2. ASSUME NEW w \in Callers, NEW c \in Connectors, NEW kind, NEW section, NEW value,
             C!Begin(w, c, kind, section, value),
             \/ kind \in {"test", "discover", "activate", "pause", "sync"} /\ section = "none" /\ value = 0
             \/ kind = "configure" /\ section \in C!Sections /\ value \in Limits \cup {0, 1}
      PROVE  ConnectorBegins(w, c)
  <2>1. connector[c] \in ConnectorRow
    BY <1>0
  <2> DEFINE u == [C!Idle EXCEPT !.stage = "work", !.op = kind, !.of = c, !.read = connector[c],
                                 !.section = section, !.value = value]
  <2>2. /\ u \in WorkRow /\ u.stage = "work" /\ u.op = kind /\ u.of = c /\ u.read = connector[c]
        /\ u.section = section /\ u.value = value
    BY <1>2, <2>1, IdleType DEF WorkRow
  <2>3. update' = [update EXCEPT ![w] = u]
    BY <1>2 DEF C!Begin
  <2> HIDE DEF u
  <2>4. ConnectorGoes(w, u)
    BY <1>0, <2>2, <2>3, OneGoes DEF UpdateRow
  <2>5. kind \in {"discover", "sync"} => connector[c].status # "paused"
    BY <1>2 DEF C!Begin, C!Refuses
  <2>6. kind = "configure" => section \in C!Sections /\ value \in C!Values(section)
    BY <1>2 DEF C!Begin
  <2>7. C!Exists(c) /\ update[w].stage = "idle" /\ updates' \in 0 .. MaxCalls /\ Apart
    BY <1>0, <1>2, LimitsAssumption DEF C!Begin, Apart
  <2>8. WritesStatus(c) /\ (connector'[c] = connector[c] \/ connector[c].status # "paused")
    <3>1. CASE kind = "discover"
      <4>1. connector' = [connector EXCEPT ![c].status = "discovering"]
        BY <1>2, <3>1 DEF C!Begin
      <4>2. "discovering" \in ConnectorStatuses \ {"absent"}
        BY DEF ConnectorStatuses
      <4>3. WritesStatus(c)
        BY <1>0, <4>1, <4>2, StatusWrites
      <4> QED
        BY <2>5, <3>1, <4>3
    <3>2. CASE kind # "discover"
      <4>1. connector' = connector
        BY <1>2, <3>2 DEF C!Begin
      <4> QED
        BY <1>0, <2>7, <4>1 DEF WritesStatus, Writes, C!Exists
    <3> QED
      BY <3>1, <3>2
  <2> QED
    BY <2>2, <2>4, <2>5, <2>6, <2>7, <2>8 DEF ConnectorBegins
<1>3. ASSUME NEW w \in Callers, C!Fails(w) PROVE Concludes(w, update[w].of)
  <2>1. update[w].of \in Connectors /\ (update[w].op \in {"discover", "sync"} => update[w].read.status # "paused")
    BY <1>3 DEF ConnectorInv, Readings, C!Fails
  <2>2. /\ WritesStatus(update[w].of)
        /\ connector'[update[w].of].status = "error"
    <3>1. "error" \in ConnectorStatuses \ {"absent"}
      BY DEF ConnectorStatuses
    <3>2. connector' = [connector EXCEPT ![update[w].of].status = "error"]
      BY <1>3 DEF C!Fails
    <3> QED
      BY <1>0, <2>1, <3>1, <3>2, StatusWrites
  <2>9. ConnectorGoes(w, C!Idle) /\ Apart /\ UNCHANGED updates /\ update[w].stage = "work"
    BY <1>0, <1>3, Finishes DEF C!Fails, Apart
  <2>10. update[w].op \in {"test", "discover", "sync"}
    BY <1>3 DEF C!Fails
  <2> QED
    BY <2>1, <2>2, <2>9, <2>10 DEF Concludes
<1>4. ASSUME NEW w \in Callers, C!TestConnection(w) PROVE Concludes(w, update[w].of)
  <2>1. update[w].of \in Connectors /\ C!Tested(update[w].read) \in ConnectorStatuses \ {"absent"}
    BY <1>4 DEF ConnectorInv, Readings, C!TestConnection, C!Tested, ConnectorStatuses
  <2>2. /\ WritesStatus(update[w].of)
        /\ connector'[update[w].of].status = C!Tested(update[w].read)
    BY <1>0, <1>4, <2>1, StatusWrites DEF C!TestConnection
  <2>3. update[w].read.status = "paused" => C!Tested(update[w].read) = "paused"
    BY DEF C!Tested
  <2>9. ConnectorGoes(w, C!Idle) /\ Apart /\ UNCHANGED updates /\ update[w].stage = "work"
    BY <1>0, <1>4, Finishes DEF C!TestConnection, Apart
  <2> QED
    BY <2>1, <2>2, <2>3, <2>9 DEF Concludes
<1>5. ASSUME NEW w \in Callers, NEW found \in {"ready", "limited"}, C!DiscoverSchema(w, found)
      PROVE  Concludes(w, update[w].of)
  <2>1. update[w].of \in Connectors /\ update[w].read.status # "paused"
    BY <1>5 DEF ConnectorInv, Readings, C!DiscoverSchema
  <2> DEFINE status == IF ~update[w].read.activated THEN "discovered"
                       ELSE IF found = "ready" THEN "active" ELSE "degraded"
  <2>2. status \in ConnectorStatuses \ {"absent"}
    BY DEF ConnectorStatuses
  <2>3. connector' = [connector EXCEPT ![update[w].of].discovery = found, ![update[w].of].status = status]
    BY <1>5 DEF C!DiscoverSchema
  <2> HIDE DEF status
  <2>4. WritesStatus(update[w].of)
    BY <1>0, <2>1, <2>2, <2>3, StatusWrites
  <2>9. ConnectorGoes(w, C!Idle) /\ Apart /\ UNCHANGED updates /\ update[w].stage = "work"
    BY <1>0, <1>5, Finishes DEF C!DiscoverSchema, Apart
  <2> QED
    BY <2>1, <2>4, <2>9 DEF Concludes
<1>6. ASSUME NEW w \in Callers, C!Activate(w) PROVE Activates(w, update[w].of)
  <2>1. update[w].of \in Connectors
    BY <1>6 DEF ConnectorInv, Readings, C!Activate
  <2>2. WritesStatus(update[w].of)
    <3>1. "active" \in ConnectorStatuses \ {"absent"}
      BY DEF ConnectorStatuses
    <3>2. connector' = [connector EXCEPT ![update[w].of].status = "active", ![update[w].of].activated = TRUE]
      BY <1>6 DEF C!Activate
    <3> QED
      BY <1>0, <2>1, <3>1, <3>2, StatusWrites
  <2>3. connector'[update[w].of] \in ConnectorRow
    BY <2>1, <2>2 DEF WritesStatus, Writes
  <2>4. Enrols(w, update[w].of, "activate")
    BY <1>0, <1>6, <2>1, <2>3, Registers DEF C!Activate
  <2> QED
    BY <1>6, <2>2, <2>4 DEF C!Activate, Activates, Apart
<1>7. ASSUME NEW w \in Callers, C!Pause(w) PROVE Concludes(w, update[w].of)
  <2>1. update[w].of \in Connectors
    BY <1>7 DEF ConnectorInv, Readings, C!Pause
  <2>2. /\ WritesStatus(update[w].of)
        /\ connector'[update[w].of].status = "paused"
    <3>1. "paused" \in ConnectorStatuses \ {"absent"}
      BY DEF ConnectorStatuses
    <3>2. connector' = [connector EXCEPT ![update[w].of].status = "paused"]
      BY <1>7 DEF C!Pause
    <3> QED
      BY <1>0, <2>1, <3>1, <3>2, StatusWrites
  <2>9. ConnectorGoes(w, C!Idle) /\ Apart /\ UNCHANGED updates /\ update[w].stage = "work"
    BY <1>0, <1>7, Finishes DEF C!Pause, Apart
  <2> QED
    BY <2>1, <2>2, <2>9 DEF Concludes
<1>8. ASSUME NEW w \in Callers, NEW status \in {"active", "degraded"}, C!SyncConnector(w, status)
      PROVE  Concludes(w, update[w].of)
  <2>1. update[w].of \in Connectors /\ update[w].read.status # "paused"
    BY <1>8 DEF ConnectorInv, Readings, C!SyncConnector
  <2>2. WritesStatus(update[w].of)
    BY <1>0, <1>8, <2>1, StatusWrites DEF C!SyncConnector, ConnectorStatuses
  <2>9. ConnectorGoes(w, C!Idle) /\ Apart /\ UNCHANGED updates /\ update[w].stage = "work"
    BY <1>0, <1>8, Finishes DEF C!SyncConnector, Apart
  <2> QED
    BY <2>1, <2>2, <2>9 DEF Concludes
<1>9. ASSUME NEW w \in Callers, C!Configure(w) PROVE Configures(w, update[w].of)
  <2> DEFINE c == update[w].of
             cfg == [update[w].read.config EXCEPT ![update[w].section] = update[w].value]
             r == [connector[c] EXCEPT !.config = cfg]
  <2>0. update[w] \in WorkRow
    BY <1>0, <1>9, RowKinds DEF C!Configure
  <2>1. /\ c \in Connectors /\ connector[c] \in ConnectorRow /\ C!Exists(c) /\ update[w].read \in ConnectorRow
        /\ update[w].section \in C!Sections /\ update[w].value \in C!Values(update[w].section)
    BY <1>0, <1>9, <2>0 DEF ConnectorInv, Readings, C!Configure, WorkRow
  <2>2. cfg \in Configs
    BY <2>1, Replaces DEF ConnectorRow
  <2> HIDE DEF cfg
  <2>3. r \in ConnectorRow /\ r.config = cfg /\ r.status = connector[c].status
    BY <2>1, <2>2 DEF ConnectorRow
  <2>4. connector' = [connector EXCEPT ![c] = r]
    BY <1>9 DEF C!Configure, C!Replaced, cfg
  <2> HIDE DEF r
  <2>5. Writes(c) /\ connector'[c] = r /\ connector'[c] \in ConnectorRow
    BY <1>0, <2>1, <2>3, <2>4 DEF Writes, C!Exists
  <2>6. C!Overwrites(w) <=> connector[c].config # update[w].read.config
    BY DEF C!Overwrites
  <2>7. \/ update[w].section = "rateGovernance" /\ Enrols(w, c, "configure")
        \/ update[w].section = "writeBack" /\ connector[c].config = update[w].read.config /\ ConnectorGoes(w, C!Idle)
        \/ update[w].section = "writeBack" /\ connector[c].config # update[w].read.config /\ Crowds(w, C!Idle)
    BY <1>0, <1>9, <2>1, <2>5, <2>6, Registers, Finishes, Crowding, IdleType DEF C!Configure, C!Sections
  <2>8. meant' = [meant EXCEPT ![c] = [meant[c] EXCEPT ![update[w].section] = update[w].value]]
    BY <1>9 DEF C!Configure
  <2>9. slips' = slips \cup (IF ~C!Overwrites(w) THEN {}
                             ELSE IF update[w].section = "rateGovernance" THEN {"lost"} ELSE {"lost", "overlap"})
    BY <1>9 DEF C!Configure
  <2>10. /\ connector[c].config # update[w].read.config => "lost" \in slips'
         /\ slips \subseteq slips' /\ slips' \subseteq {"lost", "overlap", "outdated"}
         /\ connector[c].config = update[w].read.config => slips' = slips
         /\ update[w].section = "writeBack" /\ connector[c].config # update[w].read.config => "overlap" \in slips'
    BY <1>0, <2>6, <2>9
  <2> QED
    BY <1>9, <2>3, <2>5, <2>7, <2>8, <2>10 DEF C!Configure, Configures, cfg
<1>10. ASSUME NEW w \in Callers, C!ReadPolicies(w) PROVE Reads(w)
  <2> DEFINE u == [update[w] EXCEPT !.stage = "store", !.merged = C!Safer(w)]
  <2>1. update[w] \in RegistrationRow /\ update[w].own \in Limits
    BY <1>0, <1>10, RowKinds DEF C!ReadPolicies, RegistrationRow
  <2>2. ConnectorAsked \in SUBSET Limits
    BY <1>0 DEF ConnectorAsked, C!Asked, ConnectorRow, Configs
  <2>3. C!Safer(w) = C!Smallest({update[w].own} \cup ConnectorAsked)
    BY DEF C!Safer, ConnectorAsked
  <2>4. C!Safer(w) \in Limits
    <3>1. {update[w].own} \cup ConnectorAsked \in SUBSET Limits
      BY <2>1, <2>2
    <3> QED
      BY <2>3, <3>1, SmallestIsOne
  <2>5. /\ u \in RegistrationRow /\ u.stage = "store" /\ u.op = update[w].op /\ u.of = update[w].of /\ u.merged = C!Safer(w)
        /\ u.left = update[w].left /\ u.crowded = update[w].crowded
    BY <2>1, <2>4 DEF RegistrationRow
  <2>6. update' = [update EXCEPT ![w] = u]
    BY <1>0, <1>10 DEF C!ReadPolicies
  <2> HIDE DEF u
  <2>7. ConnectorGoes(w, u)
    BY <1>0, <2>5, <2>6, OneGoes DEF UpdateRow
  <2>8. policies' \in [Hosts -> Limits \cup {0}]
    BY <1>0, <1>10, <2>4 DEF C!ReadPolicies
  <2>9. update[w].stage = "register" /\ UNCHANGED <<connector, updates, budgeted, starting, meant, slips>>
    BY <1>10 DEF C!ReadPolicies
  <2> QED
    BY <2>3, <2>5, <2>7, <2>8, <2>9 DEF Reads
<1>11. ASSUME NEW w \in Callers, C!StorePolicy(w) PROVE ConnectorStores(w)
  <2>1. update[w] \in RegistrationRow /\ update[w].left \in LeftOver
    BY <1>0, <1>11, RowKinds DEF C!StorePolicy, RegistrationRow
  <2>2. CASE DOMAIN update[w].left = {}
    <3>1. C!Crowd(w, C!Idle)
          /\ starting' = (IF update[w].op = "start" THEN starting \ {Host[w]} ELSE starting)
      BY <1>11, <2>2 DEF C!StorePolicy
    <3>2. Crowds(w, C!Idle)
      BY <1>0, <3>1, IdleType, Crowding
    <3> QED
      BY <1>11, <3>1, <3>2 DEF C!StorePolicy, ConnectorStores
  <2>3. CASE DOMAIN update[w].left # {}
    <3>1. UNCHANGED starting
          /\ \E c \in DOMAIN update[w].left :
               C!Crowd(w, [C!Registration(update[w].op, c, update[w].left[c],
                                          [d \in DOMAIN update[w].left \ {c} |-> update[w].left[d]])
                           EXCEPT !.crowded = update[w].crowded])
      BY <1>11, <2>3 DEF C!StorePolicy
    <3>2. PICK c \in DOMAIN update[w].left :
               C!Crowd(w, [C!Registration(update[w].op, c, update[w].left[c],
                                          [d \in DOMAIN update[w].left \ {c} |-> update[w].left[d]])
                           EXCEPT !.crowded = update[w].crowded])
      BY <3>1
    <3>3. PICK rest \in LeftOver : rest = [d \in DOMAIN update[w].left \ {c} |-> update[w].left[d]]
      BY <2>1, LeftFields
    <3>4. DOMAIN rest \subseteq DOMAIN update[w].left /\ \A d \in DOMAIN rest : rest[d] = update[w].left[d]
      BY <3>3
    <3>5. c \in Connectors /\ update[w].left[c] \in Limits
      BY <2>1, <3>2, LeftFields
    <3>6. PICK n : n = C!Registration(update[w].op, c, update[w].left[c], rest)
      OBVIOUS
    <3>7. update[w].op \in {"create", "activate", "configure", "start"} /\ update[w].crowded \in BOOLEAN
      BY <2>1 DEF RegistrationRow
    <3>8. n \in RegistrationRow /\ n.stage = "register" /\ n.op = update[w].op /\ n.of = c
          /\ n.own = update[w].left[c] /\ n.left = rest
      BY <3>3, <3>5, <3>6, <3>7, IdleType DEF C!Registration, RegistrationRow
    <3>9. PICK u : u = [n EXCEPT !.crowded = update[w].crowded]
      OBVIOUS
    <3>10. /\ u \in RegistrationRow /\ u.stage = "register" /\ u.op = update[w].op /\ u.of = c
           /\ u.own = update[w].left[c] /\ u.left = rest /\ u.crowded = update[w].crowded
      BY <3>7, <3>8, <3>9, CrowdedFields
    <3>11. C!Crowd(w, u)
      BY <3>2, <3>3, <3>6, <3>9
    <3>12. Crowds(w, u) /\ GoesOn(w, u)
      BY <1>0, <3>2, <3>4, <3>10, <3>11, Crowding DEF GoesOn, UpdateRow
    <3> QED
      BY <1>11, <3>1, <3>10, <3>12 DEF C!StorePolicy, ConnectorStores
  <2> QED
    BY <2>2, <2>3
<1>12. ASSUME NEW w \in Callers, C!Stop(Host[w]) PROVE Stops(Host[w])
  <2>1. Host[w] \in Hosts
    BY LimitsAssumption
  <2>2. \A v \in Callers : update'[v] = (IF Host[v] = Host[w] THEN C!Idle ELSE update[v])
    BY <1>12 DEF C!Stop
  <2>3. update' \in [Callers -> UpdateRow]
    BY <1>0, <1>12, IdleType DEF C!Stop
  <2>4. policies' \in [Hosts -> Limits \cup {0}]
    BY <1>0, <1>12 DEF C!Stop
  <2> QED
    BY <1>12, <2>1, <2>2, <2>3, <2>4 DEF C!Stop, Stops
<1>13. ASSUME NEW w \in Callers, NEW limit \in Limits \cup {0}, update[w].stage = "work",
              update' = [update EXCEPT ![w].limit = limit]
       PROVE  Recalls(w)
  <2>1. update[w] \in WorkRow
    BY <1>0, <1>13, RowKinds
  <2>2. PICK u : u = [update[w] EXCEPT !.limit = limit]
    OBVIOUS
  <2>3. /\ u \in WorkRow /\ u.stage = update[w].stage /\ u.op = update[w].op /\ u.of = update[w].of
        /\ u.read = update[w].read /\ u.section = update[w].section /\ u.value = update[w].value
    BY <2>1, <2>2 DEF WorkRow
  <2>4. update' = [update EXCEPT ![w] = u]
    BY <1>13, <2>2
  <2>5. ConnectorGoes(w, u)
    BY <1>0, <2>3, <2>4, OneGoes DEF UpdateRow
  <2> QED
    BY <1>13, <2>3, <2>5 DEF Recalls
<1>14. ASSUME NEW w \in Callers, C!Govern(w) PROVE ConnectorGoverned(w)
  <2>1. update[w] \in WorkRow /\ update[w].stage = "work"
    BY <1>0, <1>14, RowKinds DEF C!Govern
  <2>2. policies[Host[w]] \in Limits \cup {0} /\ update[w].read.config.rateGovernance \in Limits
    BY <1>0, <2>1, LimitsAssumption DEF WorkRow, ConnectorRow, Configs
  <2>3. PICK limit \in Limits \cup {0} : limit = IF policies[Host[w]] # 0 THEN policies[Host[w]]
                                                 ELSE update[w].read.config.rateGovernance
    BY <2>2
  <2>4. update' = [update EXCEPT ![w].limit = limit]
    BY <1>14, <2>3 DEF C!Govern
  <2> QED
    BY <1>13, <1>14, <2>1, <2>4 DEF C!Govern, ConnectorGoverned
<1>15. ASSUME NEW w \in Callers, C!Admit(w) PROVE ConnectorAdmits(w)
  <2>1. update[w] \in WorkRow /\ update[w].stage = "work" /\ update[w].limit # 0
    BY <1>0, <1>15, RowKinds DEF C!Admit
  <2>2. update[w].limit \in Limits
    BY <2>1 DEF WorkRow
  <2>3. Recalls(w)
    <3>1. CASE update' = [update EXCEPT ![w].limit = 0]
      BY <1>13, <2>1, <3>1
    <3>2. CASE update' = update
      <4>1. ConnectorGoes(w, update[w])
        BY <1>0, <3>2 DEF ConnectorGoes
      <4> QED
        BY <2>1, <4>1 DEF Recalls
    <3> QED
      BY <1>15, <3>1, <3>2 DEF C!Admit
  <2>4. C!Safest = C!Smallest(ConnectorAsked)
    BY DEF C!Safest, ConnectorAsked
  <2> QED
    BY <1>15, <2>2, <2>3, <2>4 DEF C!Admit, ConnectorAdmits
<1>16. ASSUME NEW w \in Callers, C!StartUp(w) PROVE Restarts(w)
  <2>1. update[w].stage = "idle"
    BY <1>16 DEF C!StartUp, C!Begun
  <2> DEFINE found == {c \in Connectors : C!Exists(c)}
  <2>2. UNCHANGED <<connector, budgeted, policies, updates, meant, slips>>
    BY <1>16 DEF C!StartUp
  <2>3. CASE found = {}
    <3>1. starting' = starting \ {Host[w]} /\ UNCHANGED update
      BY <1>16, <2>3 DEF C!StartUp
    <3>2. \A c \in Connectors : ~C!Exists(c)
      BY <2>3
    <3> QED
      BY <2>1, <2>2, <3>1, <3>2 DEF Restarts
  <2>4. CASE found # {}
    <3>1. UNCHANGED starting
          /\ \E c \in found : update' = [update EXCEPT ![w] = 
               C!Registration("start", c, C!Asked(c), [d \in found \ {c} |-> C!Asked(d)])]
      BY <1>16, <2>4 DEF C!StartUp
    <3>2. PICK c \in found : update' = [update EXCEPT ![w] = 
               C!Registration("start", c, C!Asked(c), [d \in found \ {c} |-> C!Asked(d)])]
      BY <3>1
    <3>3. \A d \in Connectors : C!Asked(d) \in Limits
      BY <1>0 DEF C!Asked, ConnectorRow, Configs
    <3>4. PICK left : left = [d \in found \ {c} |-> C!Asked(d)]
      OBVIOUS
    <3>5. left \in [found \ {c} -> Limits] /\ found \ {c} \in SUBSET Connectors
      BY <3>3, <3>4
    <3>6. left \in LeftOver /\ \A d \in DOMAIN left : C!Exists(d) /\ left[d] = C!Asked(d)
      BY <3>4, <3>5 DEF LeftOver
    <3>7. PICK own \in Limits : own = C!Asked(c)
      BY <3>3
    <3>8. PICK u : u = C!Registration("start", c, own, left)
      OBVIOUS
    <3>9. u \in RegistrationRow /\ u.stage = "register" /\ u.of = c /\ u.own = own /\ u.left = left
      BY <3>2, <3>6, <3>7, <3>8, IdleType DEF C!Registration, RegistrationRow
    <3>10. ConnectorGoes(w, u)
      BY <1>0, <3>2, <3>4, <3>7, <3>8, <3>9, OneGoes DEF UpdateRow
    <3> QED
      BY <2>1, <2>2, <3>1, <3>2, <3>6, <3>7, <3>9, <3>10 DEF Restarts
  <2> QED
    BY <2>3, <2>4
<1>17. CASE UNCHANGED C!vars
  BY <1>17 DEF ConnectorMoves
<1>19. ASSUME NEW w \in Callers, C!RegistrationFails(w) PROVE Breaks(w)
  <2>1. Crowds(w, C!Idle)
    BY <1>0, <1>19, Crowding, IdleType DEF C!RegistrationFails
  <2> QED
    BY <1>19, <2>1 DEF C!RegistrationFails, Breaks
<1>18. CASE C!Next
  <2>1. PICK w \in Callers :
          \/ \E c \in Connectors :
               \/ C!Create(w, c)
               \/ \E kind \in {"test", "discover", "activate", "pause", "sync"} : C!Begin(w, c, kind, "none", 0)
               \/ \E section \in C!Sections, value \in Limits \cup {0, 1} : C!Begin(w, c, "configure", section, value)
          \/ C!Fails(w) \/ C!TestConnection(w) \/ C!Activate(w) \/ C!Pause(w) \/ C!Configure(w)
          \/ \E found \in {"ready", "limited"} : C!DiscoverSchema(w, found)
          \/ \E status \in {"active", "degraded"} : C!SyncConnector(w, status)
          \/ C!ReadPolicies(w) \/ C!StorePolicy(w) \/ C!RegistrationFails(w) \/ C!Govern(w) \/ C!Admit(w)
          \/ C!StartUp(w) \/ C!Stop(Host[w])
    BY <1>18 DEF C!Next
  <2>2. update[w].stage = "work" => update[w].of \in Connectors
    BY DEF ConnectorInv, Readings
  <2>3. ASSUME NEW c \in Connectors, NEW kind \in {"test", "discover", "activate", "pause", "sync"},
               C!Begin(w, c, kind, "none", 0)
        PROVE  ConnectorBegins(w, c)
    BY <1>2, <2>3
  <2>4. ASSUME NEW c \in Connectors, NEW section \in C!Sections, NEW value \in Limits \cup {0, 1},
               C!Begin(w, c, "configure", section, value)
        PROVE  ConnectorBegins(w, c)
    BY <1>2, <2>4
  <2>5. CASE C!Fails(w) \/ C!TestConnection(w) \/ C!Activate(w) \/ C!Pause(w) \/ C!Configure(w)
             \/ (\E found \in {"ready", "limited"} : C!DiscoverSchema(w, found))
             \/ (\E status \in {"active", "degraded"} : C!SyncConnector(w, status))
    <3>1. update[w].stage = "work"
      BY <2>5 DEF C!Fails, C!TestConnection, C!Activate, C!Pause, C!Configure, C!DiscoverSchema,
         C!SyncConnector
    <3> QED
      BY <1>3, <1>4, <1>5, <1>6, <1>7, <1>8, <1>9, <2>2, <2>5, <3>1 DEF ConnectorMoves
  <2> QED
    BY <1>1, <1>10, <1>11, <1>12, <1>14, <1>15, <1>16, <1>19, <2>1, <2>3, <2>4, <2>5 DEF ConnectorMoves
<1> QED
  BY <1>17, <1>18

(* The budgets asked for do not change while configurations and the set of *)
(* rows do not.                                                            *)
LEMMA AskedStays ==
  ASSUME \A c \in Connectors : connector'[c].config.rateGovernance = connector[c].config.rateGovernance
                               /\ (connector'[c].status # "absent" <=> connector[c].status # "absent")
  PROVE  ConnectorAsked' = ConnectorAsked
BY DEF ConnectorAsked, C!Exists, C!Asked

(* A move keeps the types.                                                 *)
LEMMA ConnectorTypesStep == ConnectorInv /\ ConnectorMoves => ConnectorTypes'
<1> SUFFICES ASSUME ConnectorInv, ConnectorMoves PROVE ConnectorTypes'
  OBVIOUS
<1> USE DEF ConnectorTypes
<1>0. ConnectorTypes
  BY DEF ConnectorInv
<1>1. CASE UNCHANGED C!vars
  BY <1>0, <1>1 DEF C!vars
<1>2. ASSUME NEW w \in Callers, NEW c \in Connectors,
             ConnectorBegins(w, c) \/ Concludes(w, c) \/ Activates(w, c) \/ Creates(w, c)
      PROVE  ConnectorTypes'
  <2>1. connector' \in [Connectors -> ConnectorRow] /\ update' \in [Callers -> UpdateRow]
    BY <1>2 DEF ConnectorBegins, Concludes, Activates, Creates, Enrols, WritesStatus, Writes, ConnectorGoes
  <2>2. Apart /\ updates' \in 0 .. MaxCalls
    BY <1>0, <1>2 DEF ConnectorBegins, Concludes, Activates, Creates
  <2> QED
    BY <1>0, <2>1, <2>2 DEF Apart
<1>6. ASSUME NEW w \in Callers, NEW c \in Connectors, Configures(w, c) PROVE ConnectorTypes'
  <2>1. update[w].section \in C!Sections /\ update[w].value \in C!Values(update[w].section)
    BY <1>6 DEF Configures, ConnectorInv, Readings
  <2>2. [meant[c] EXCEPT ![update[w].section] = update[w].value] \in Configs
    BY <1>0, <2>1, Replaces
  <2>3. meant' \in [Connectors -> Configs] /\ slips' \subseteq {"lost", "overlap", "outdated"}
    BY <1>0, <1>6, <2>2 DEF Configures
  <2>4. connector' \in [Connectors -> ConnectorRow] /\ update' \in [Callers -> UpdateRow]
        /\ UNCHANGED <<budgeted, policies, starting, updates>>
    BY <1>6 DEF Configures, Writes, Enrols, ConnectorGoes, Crowds
  <2> QED
    BY <1>0, <2>3, <2>4
<1>7. ASSUME NEW w \in Callers, Reads(w) PROVE ConnectorTypes'
  BY <1>0, <1>7 DEF Reads, ConnectorGoes
<1>8. ASSUME NEW w \in Callers, ConnectorStores(w) PROVE ConnectorTypes'
  <2>1. update[w].merged \in Limits \cup {0}
    BY <1>0, <1>8, RowKinds DEF ConnectorStores, RegistrationRow
  <2>2. update' \in [Callers -> UpdateRow] /\ starting' \subseteq Hosts
    BY <1>0, <1>8 DEF ConnectorStores, Crowds
  <2>3. slips' \subseteq {"lost", "overlap", "outdated"}
    BY <1>0, <1>8 DEF ConnectorStores
  <2>4. budgeted' \in Limits \cup {0} /\ UNCHANGED <<connector, policies, updates, meant>>
    BY <1>8, <2>1 DEF ConnectorStores
  <2> QED
    BY <1>0, <2>2, <2>3, <2>4
<1>9. ASSUME NEW w \in Callers, ConnectorGoverned(w) \/ ConnectorAdmits(w) PROVE ConnectorTypes'
  <2>1. update' \in [Callers -> UpdateRow] /\ UNCHANGED <<connector, policies, starting, updates, meant>>
    BY <1>9 DEF ConnectorGoverned, ConnectorAdmits, Recalls, ConnectorGoes
  <2>2. budgeted' \in Limits \cup {0} /\ slips' \subseteq {"lost", "overlap", "outdated"}
    BY <1>0, <1>9 DEF ConnectorGoverned, ConnectorAdmits, C!Narrowed, C!Smaller
  <2> QED
    BY <1>0, <2>1, <2>2
<1>10. ASSUME NEW h, Stops(h) PROVE ConnectorTypes'
  BY <1>0, <1>10 DEF Stops
<1>11. ASSUME NEW w \in Callers, Restarts(w) PROVE ConnectorTypes'
  BY <1>0, <1>11 DEF Restarts, ConnectorGoes
<1>12. ASSUME NEW w \in Callers, Breaks(w) PROVE ConnectorTypes'
  BY <1>0, <1>12 DEF Breaks, Crowds
<1> QED
  BY <1>1, <1>2, <1>6, <1>7, <1>8, <1>9, <1>10, <1>11, <1>12 DEF ConnectorMoves

(* What the connectors there are allow a caller to hold.                   *)
ConnectorsThere == {c \in Connectors : C!Exists(c)}
Reading(u, there) ==
  /\ u.stage # "idle" => u.of \in there
  /\ u.stage \in {"register", "store"} => \A d \in DOMAIN u.left : d \in there
  /\ u.stage = "work" /\ u.op = "configure" => u.section \in C!Sections /\ u.value \in C!Values(u.section)
  /\ u.stage = "work" /\ u.op \in {"discover", "sync"} => u.read.status # "paused"

(* With more connectors, a caller may hold what it did.                    *)
LEMMA ReadingGrows ==
  ASSUME NEW u, NEW D, NEW E, D \subseteq E, Reading(u, D) PROVE Reading(u, E)
BY DEF Reading

(* What every caller holds is what it may.                                 *)
LEMMA ReadingsAre == Readings <=> \A w \in Callers : Reading(update[w], ConnectorsThere)
BY DEF Readings, Reading, ConnectorsThere, C!Registering

(* A move keeps what a caller read true to what it may have seen.          *)
LEMMA ReadingsStep == ConnectorInv /\ ConnectorMoves => Readings'
<1> SUFFICES ASSUME ConnectorInv, ConnectorMoves PROVE Readings'
  OBVIOUS
<1>0. Readings /\ ConnectorTypes
  BY DEF ConnectorInv
<1>e. ASSUME connector' = connector \/ \E c \in Connectors : Writes(c)
      PROVE  ConnectorsThere \subseteq ConnectorsThere'
  BY <1>e DEF Writes, C!Exists, ConnectorsThere
<1>r. (\A w \in Callers : Reading(update'[w], ConnectorsThere')) => Readings'
  BY DEF Readings, Reading, ConnectorsThere, C!Registering
<1>i. Reading(C!Idle, ConnectorsThere')
  BY IdleType DEF Reading
<1>k. ASSUME ConnectorsThere \subseteq ConnectorsThere', NEW w \in Callers PROVE Reading(update[w], ConnectorsThere')
  BY <1>0, <1>k, ReadingsAre, ReadingGrows
<1>g. ASSUME ConnectorsThere \subseteq ConnectorsThere', NEW w \in Callers, NEW u,
             ConnectorGoes(w, u) \/ Crowds(w, u), Reading(u, ConnectorsThere')
      PROVE  Readings'
  <2>1. ASSUME NEW v \in Callers \ {w} PROVE Reading(update'[v], ConnectorsThere')
    <3>1. CASE update'[v] = update[v]
      BY <1>g, <1>k, <3>1
    <3>2. CASE update'[v] # update[v]
      <4>1. /\ C!Registering(v) /\ update'[v].stage = update[v].stage /\ update'[v].of = update[v].of
            /\ update'[v].left = update[v].left
        BY <1>g, <3>2 DEF ConnectorGoes, Crowds
      <4>2. update[v].stage \in {"register", "store"} /\ Reading(update[v], ConnectorsThere')
        BY <1>g, <1>k, <4>1 DEF C!Registering
      <4> QED
        BY <4>1, <4>2 DEF Reading
    <3> QED
      BY <3>1, <3>2
  <2>2. update'[w] = u
    BY <1>g DEF ConnectorGoes, Crowds
  <2> QED
    BY <1>g, <1>r, <2>1, <2>2
<1>1. CASE UNCHANGED C!vars
  BY <1>0, <1>1 DEF C!vars, Readings, C!Exists, C!Registering
<1>w. ASSUME NEW c \in Connectors, Writes(c)
      PROVE  ConnectorsThere \subseteq ConnectorsThere' /\ c \in ConnectorsThere'
  BY <1>w DEF Writes, C!Exists, ConnectorsThere
<1>2. ASSUME NEW w \in Callers, NEW c \in Connectors, ConnectorBegins(w, c) PROVE Readings'
  <2>1. PICK u \in WorkRow :
          /\ ConnectorGoes(w, u) /\ u.stage = "work" /\ u.of = c
          /\ u.op \in {"discover", "sync"} => u.read.status # "paused"
          /\ u.op = "configure" => u.section \in C!Sections /\ u.value \in C!Values(u.section)
    BY <1>2 DEF ConnectorBegins
  <2>2. ConnectorsThere \subseteq ConnectorsThere' /\ c \in ConnectorsThere'
    BY <1>2, <1>w DEF ConnectorBegins, WritesStatus
  <2>3. Reading(u, ConnectorsThere')
    BY <2>1, <2>2 DEF Reading
  <2> QED
    BY <1>g, <2>1, <2>2, <2>3
<1>3. ASSUME NEW w \in Callers, NEW c \in Connectors, Concludes(w, c) PROVE Readings'
  <2>1. ConnectorGoes(w, C!Idle) /\ ConnectorsThere \subseteq ConnectorsThere'
    BY <1>3, <1>w DEF Concludes, WritesStatus
  <2> QED
    BY <1>g, <1>i, <2>1
<1>4. ASSUME NEW w \in Callers, NEW c \in Connectors, NEW kind, Writes(c), Enrols(w, c, kind) PROVE Readings'
  <2>1. PICK u \in RegistrationRow : ConnectorGoes(w, u) /\ u.stage = "register" /\ u.of = c /\ DOMAIN u.left = {}
    BY <1>4 DEF Enrols
  <2>2. ConnectorsThere \subseteq ConnectorsThere' /\ c \in ConnectorsThere'
    BY <1>4, <1>w
  <2>3. Reading(u, ConnectorsThere')
    BY <2>1, <2>2 DEF Reading
  <2> QED
    BY <1>g, <2>1, <2>2, <2>3
<1>5. ASSUME NEW w \in Callers, NEW c \in Connectors, Activates(w, c) \/ Creates(w, c) PROVE Readings'
  BY <1>4, <1>5 DEF Activates, Creates, WritesStatus
<1>6. ASSUME NEW w \in Callers, NEW c \in Connectors, Configures(w, c) PROVE Readings'
  <2>1. Writes(c) /\ (Enrols(w, c, "configure") \/ ConnectorGoes(w, C!Idle) \/ Crowds(w, C!Idle))
    BY <1>6 DEF Configures
  <2>2. ConnectorsThere \subseteq ConnectorsThere'
    BY <1>w, <2>1
  <2> QED
    BY <1>4, <1>g, <1>i, <2>1, <2>2
<1>7. ASSUME NEW w \in Callers, Reads(w) PROVE Readings'
  <2>1. PICK u \in RegistrationRow : /\ ConnectorGoes(w, u) /\ u.stage = "store" /\ u.of = update[w].of
                                     /\ u.left = update[w].left
    BY <1>7 DEF Reads
  <2>2. ConnectorsThere \subseteq ConnectorsThere' /\ update[w].stage = "register"
    BY <1>7, <1>e DEF Reads
  <2>3. Reading(update[w], ConnectorsThere')
    BY <1>k, <2>2
  <2>4. Reading(u, ConnectorsThere')
    BY <2>1, <2>2, <2>3 DEF Reading
  <2> QED
    BY <1>g, <2>1, <2>2, <2>4
<1>8. ASSUME NEW w \in Callers, ConnectorStores(w) PROVE Readings'
  <2>1. ConnectorsThere \subseteq ConnectorsThere' /\ update[w].stage = "store"
    BY <1>8, <1>e DEF ConnectorStores
  <2>2. Reading(update[w], ConnectorsThere')
    BY <1>k, <2>1
  <2>3. CASE Crowds(w, C!Idle)
    BY <1>g, <1>i, <2>1, <2>3
  <2>4. ASSUME NEW u \in RegistrationRow, GoesOn(w, u), Crowds(w, u) PROVE Readings'
    <3>1. Reading(u, ConnectorsThere')
      BY <2>1, <2>2, <2>4 DEF GoesOn, Reading
    <3> QED
      BY <1>g, <2>1, <2>4, <3>1
  <2> QED
    BY <1>8, <2>3, <2>4 DEF ConnectorStores
<1>9. ASSUME NEW w \in Callers, ConnectorGoverned(w) \/ ConnectorAdmits(w) PROVE Readings'
  <2>1. Recalls(w) /\ connector' = connector
    BY <1>9 DEF ConnectorGoverned, ConnectorAdmits
  <2>2. PICK u \in WorkRow : /\ ConnectorGoes(w, u) /\ u.stage = "work" /\ u.op = update[w].op /\ u.of = update[w].of
                        /\ u.read = update[w].read /\ u.section = update[w].section /\ u.value = update[w].value
    BY <2>1 DEF Recalls
  <2>3. update[w].stage = "work" /\ ConnectorsThere \subseteq ConnectorsThere'
    BY <1>e, <2>1 DEF Recalls
  <2>4. Reading(update[w], ConnectorsThere')
    BY <1>k, <2>3
  <2>5. Reading(u, ConnectorsThere')
    BY <2>2, <2>3, <2>4 DEF Reading
  <2> QED
    BY <1>g, <2>2, <2>3, <2>5
<1>10. ASSUME NEW h, Stops(h) PROVE Readings'
  <2>1. ConnectorsThere \subseteq ConnectorsThere'
    BY <1>10, <1>e DEF Stops
  <2>2. \A w \in Callers : Reading(update'[w], ConnectorsThere')
    BY <1>10, <1>i, <1>k, <2>1 DEF Stops
  <2> QED
    BY <1>r, <2>2
<1>11. ASSUME NEW w \in Callers, Restarts(w) PROVE Readings'
  <2>1. ConnectorsThere \subseteq ConnectorsThere'
    BY <1>11, <1>e DEF Restarts
  <2>2. CASE UNCHANGED update
    BY <1>k, <1>r, <2>1, <2>2
  <2>3. ASSUME NEW u \in RegistrationRow, ConnectorGoes(w, u), u.stage = "register", C!Exists(u.of),
               \A d \in DOMAIN u.left : C!Exists(d)
        PROVE  Readings'
    <3>1. u.of \in Connectors /\ \A d \in DOMAIN u.left : d \in Connectors
      BY LeftFields DEF RegistrationRow
    <3>2. Reading(u, ConnectorsThere')
      BY <2>1, <2>3, <3>1 DEF Reading, ConnectorsThere
    <3> QED
      BY <1>g, <2>1, <2>3, <3>2
  <2> QED
    BY <1>11, <2>2, <2>3 DEF Restarts
<1>12. ASSUME NEW w \in Callers, Breaks(w) PROVE Readings'
  <2>1. ConnectorsThere \subseteq ConnectorsThere' /\ Crowds(w, C!Idle)
    BY <1>12, <1>e DEF Breaks
  <2> QED
    BY <1>g, <1>i, <2>1
<1> QED
  BY <1>1, <1>2, <1>3, <1>5, <1>6, <1>7, <1>8, <1>9, <1>10, <1>11, <1>12 DEF ConnectorMoves

(* A move writes the row of one connector, or none.                        *)
LEMMA OneRow == ConnectorMoves => connector' = connector \/ \E c \in Connectors : Writes(c)
<1> SUFFICES ASSUME ConnectorMoves PROVE connector' = connector \/ \E c \in Connectors : Writes(c)
  OBVIOUS
<1>1. CASE UNCHANGED C!vars
  BY <1>1 DEF C!vars
<1>2. ASSUME NEW w \in Callers, NEW c \in Connectors,
             \/ ConnectorBegins(w, c) \/ Concludes(w, c) \/ Activates(w, c)
             \/ Creates(w, c) \/ Configures(w, c)
      PROVE  Writes(c)
  BY <1>2 DEF ConnectorBegins, Concludes, Activates, Creates, Configures, WritesStatus
<1>3. ASSUME NEW w \in Callers, NEW h,
             \/ Reads(w) \/ ConnectorStores(w) \/ Breaks(w) \/ ConnectorGoverned(w) \/ ConnectorAdmits(w)
             \/ Stops(h) \/ Restarts(w)
      PROVE  connector' = connector
  BY <1>3 DEF Reads, ConnectorStores, Breaks, ConnectorGoverned, ConnectorAdmits, Stops, Restarts
<1> QED
  BY <1>1, <1>2, <1>3 DEF ConnectorMoves

(* A move keeps a connector that is not registered without settings.       *)
LEMMA UnwrittenStep == ConnectorInv /\ ConnectorMoves => Unwritten'
BY OneRow DEF ConnectorInv, Unwritten, C!Exists, Writes

(* A move keeps the settings as they were last given.                      *)
LEMMA SettingsStep == ConnectorInv /\ ConnectorMoves => C!SettingsAreKept'
<1> SUFFICES ASSUME ConnectorInv, ConnectorMoves PROVE C!SettingsAreKept'
  OBVIOUS
<1>0. C!SettingsAreKept /\ ConnectorTypes
  BY DEF ConnectorInv
<1> USE DEF C!SettingsAreKept
<1>1. CASE UNCHANGED C!vars
  BY <1>0, <1>1 DEF C!vars
<1>2. ASSUME NEW w \in Callers, NEW c \in Connectors,
             ConnectorBegins(w, c) \/ Concludes(w, c) \/ Activates(w, c)
      PROVE  C!SettingsAreKept'
  <2>1. WritesStatus(c) /\ UNCHANGED <<meant, slips>>
    BY <1>2 DEF ConnectorBegins, Concludes, Activates, Apart
  <2> QED
    BY <1>0, <2>1 DEF WritesStatus, Writes
<1>3. ASSUME NEW w \in Callers, NEW c \in Connectors, Creates(w, c) PROVE C!SettingsAreKept'
  <2>1. connector[c].config = C!Blank
    BY <1>0, <1>3 DEF Creates, Unwritten, ConnectorInv
  <2> QED
    BY <1>0, <1>3, <2>1 DEF Creates, Writes, Apart
<1>4. ASSUME NEW w \in Callers, NEW c \in Connectors, Configures(w, c) PROVE C!SettingsAreKept'
  <2>1. CASE "lost" \in slips'
    BY <2>1
  <2>2. CASE "lost" \notin slips'
    <3>0. "lost" \notin slips
      BY <1>4, <2>2 DEF Configures
    <3>1. connector[c].config = update[w].read.config /\ connector[c].config = meant[c]
      BY <1>0, <1>4, <2>2, <3>0 DEF Configures
    <3>2. connector'[c].config = meant'[c]
      BY <1>0, <1>4, <3>1 DEF Configures, ConnectorTypes
    <3>3. \A d \in Connectors \ {c} : connector'[d].config = meant'[d]
      BY <1>0, <1>4, <3>0 DEF Configures, ConnectorTypes, Writes
    <3> QED
      BY <3>2, <3>3
  <2> QED
    BY <2>1, <2>2
<1>5. ASSUME NEW w \in Callers, NEW h,
             \/ Reads(w) \/ ConnectorStores(w) \/ Breaks(w) \/ ConnectorGoverned(w) \/ ConnectorAdmits(w)
             \/ Stops(h) \/ Restarts(w)
      PROVE  C!SettingsAreKept'
  <2>1. UNCHANGED <<connector, meant>>
    BY <1>5 DEF Reads, ConnectorStores, Breaks, ConnectorGoverned, ConnectorAdmits, Stops, Restarts
  <2>2. "lost" \in slips => "lost" \in slips'
    BY <1>5 DEF Reads, ConnectorStores, Breaks, ConnectorGoverned, ConnectorAdmits, Stops, Restarts
  <2> QED
    BY <1>0, <2>1, <2>2
<1> QED
  BY <1>1, <1>2, <1>3, <1>4, <1>5 DEF ConnectorMoves

(* What a registration that is alone has of what is asked for.             *)
Knows(u, asked) ==
  /\ u.stage = "register" => u.own \in asked
  /\ u.stage = "store" => u.merged = C!Smallest(asked)
  /\ \A d \in DOMAIN u.left : u.left[d] \in asked
LEMMA KnowsAre == AloneKnows <=> \A w \in Callers : Alone(w) => Knows(update[w], ConnectorAsked)
BY DEF AloneKnows, Knows

(* What is asked for, when some connector asks.                            *)
LEMMA AskedTypes ==
  ASSUME ConnectorTypes
  PROVE  /\ ConnectorAsked \in SUBSET Limits
         /\ \A c \in Connectors : C!Exists(c) => C!Asked(c) \in ConnectorAsked
BY DEF ConnectorTypes, ConnectorAsked, C!Asked, ConnectorRow, Configs

(* A caller that does not register, before or after, and changes neither   *)
(* what is asked nor who starts, leaves those who do as they were.         *)
LEMMA Quietly ==
  ASSUME AloneKnows, ConnectorAsked' = ConnectorAsked, starting' = starting, NEW w \in Callers,
         update[w].stage \notin {"register", "store"}, NEW u, ConnectorGoes(w, u),
         u.stage \notin {"register", "store"}
  PROVE  AloneKnows' /\ ((\A v \in Callers : ~C!Registering(v))' => \A v \in Callers : ~C!Registering(v))
<1>1. update'[w] = u /\ \A v \in Callers \ {w} : update'[v] = update[v]
  BY DEF ConnectorGoes
<1>2. \A v \in Callers : C!Registering(v)' <=> C!Registering(v)
  BY <1>1 DEF C!Registering
<1>3. ASSUME NEW v \in Callers, Alone(v)' PROVE Knows(update'[v], ConnectorAsked')
  <2>1. v # w /\ update'[v] = update[v]
    BY <1>1, <1>3 DEF Alone, C!Registering
  <2>2. Alone(v)
    <3>1. C!Others(v)' = C!Others(v)
      BY <1>2 DEF C!Others
    <3> QED
      BY <1>2, <1>3, <2>1, <3>1 DEF Alone
  <2> QED
    BY <2>1, <2>2, KnowsAre
<1>4. AloneKnows'
  BY <1>3 DEF AloneKnows, Knows
<1> QED
  BY <1>2, <1>4

(* A caller that enrols what the connector asks for, which nobody else     *)
(* then knows of.                                                          *)
LEMMA Enrolled ==
  ASSUME NEW w \in Callers, NEW u, ConnectorGoes(w, u) \/ Crowds(w, u), u.stage \in {"register", "store"},
         (Alone(w)' => Knows(u, ConnectorAsked'))
  PROVE  BudgetFollows'
<1>1. update'[w] = u
  BY DEF ConnectorGoes, Crowds
<1>2. C!Registering(w)'
  BY <1>1 DEF C!Registering
<1>3. ~C!Steady'
  BY <1>2 DEF C!Steady
<1>4. ASSUME NEW v \in Callers, Alone(v)' PROVE v = w
  BY <1>2, <1>4 DEF Alone, C!Others
<1>5. \A v \in Callers : Alone(v)' => Knows(update'[v], ConnectorAsked')
  BY <1>1, <1>4
<1> QED
  BY <1>3, <1>5 DEF BudgetFollows, Settled, AloneKnows, Knows

(* A move keeps the budget of the target no wider than the least a         *)
(* connector asks for, or on its way there.                                *)
LEMMA BudgetStep == ConnectorInv /\ ConnectorMoves => BudgetFollows'
<1> SUFFICES ASSUME ConnectorInv, ConnectorMoves PROVE BudgetFollows'
  OBVIOUS
<1>0. Settled /\ AloneKnows /\ ConnectorTypes /\ Readings
  BY DEF ConnectorInv, BudgetFollows
<1>1. CASE UNCHANGED C!vars
  <2>1. ConnectorAsked' = ConnectorAsked
    BY <1>1 DEF ConnectorAsked, C!Exists, C!Asked, C!vars
  <2>2. C!Steady' <=> C!Steady
    BY <1>1 DEF C!Steady, C!Exists, C!Registering, C!vars
  <2>3. \A w \in Callers : Alone(w)' <=> Alone(w)
    BY <1>1 DEF Alone, C!Registering, C!Others, C!vars
  <2>4. Settled'
    BY <1>0, <1>1, <2>1, <2>2 DEF Settled, C!vars
  <2>5. AloneKnows'
    BY <1>0, <1>1, <2>1, <2>3 DEF AloneKnows, C!vars
  <2> QED
    BY <2>4, <2>5 DEF BudgetFollows
<1>q. ASSUME ConnectorAsked' = ConnectorAsked, UNCHANGED <<budgeted, starting, slips>>, NEW w \in Callers, NEW u,
             ConnectorGoes(w, u), update[w].stage \notin {"register", "store"}, u.stage \notin {"register", "store"},
             (\E c \in Connectors : C!Exists(c))' => \E c \in Connectors : C!Exists(c)
      PROVE  BudgetFollows'
  <2>1. AloneKnows' /\ ((\A v \in Callers : ~C!Registering(v))' => \A v \in Callers : ~C!Registering(v))
    BY <1>0, <1>q, Quietly
  <2>2. C!Steady' => C!Steady
    BY <1>q, <2>1 DEF C!Steady
  <2>3. Settled'
    BY <1>0, <1>q, <2>2 DEF Settled
  <2> QED
    BY <2>1, <2>3 DEF BudgetFollows
<1>2. ASSUME NEW w \in Callers, NEW c \in Connectors,
             ConnectorBegins(w, c) \/ Concludes(w, c) PROVE BudgetFollows'
  <2>1. C!Exists(c) /\ WritesStatus(c) /\ UNCHANGED <<budgeted, starting, slips>>
    BY <1>0, <1>2 DEF ConnectorBegins, Concludes, Readings, Apart
  <2>2. ConnectorAsked' = ConnectorAsked
    BY <2>1, AskedStays DEF WritesStatus, Writes, C!Exists
  <2>3. PICK u : ConnectorGoes(w, u) /\ u.stage \notin {"register", "store"}
    BY <1>2, IdleType DEF ConnectorBegins, Concludes
  <2>4. update[w].stage \notin {"register", "store"}
    BY <1>2 DEF ConnectorBegins, Concludes
  <2> QED
    BY <1>q, <2>1, <2>2, <2>3, <2>4
<1>3. ASSUME NEW w \in Callers, NEW c \in Connectors, NEW kind, Writes(c), Enrols(w, c, kind)
      PROVE  BudgetFollows'
  <2>1. PICK u \in RegistrationRow : /\ ConnectorGoes(w, u) /\ u.stage = "register" /\ DOMAIN u.left = {}
                                     /\ u.own = connector'[c].config.rateGovernance
    BY <1>3 DEF Enrols
  <2>2. connector'[c].config.rateGovernance \in ConnectorAsked'
    BY <1>3 DEF ConnectorAsked, C!Exists, C!Asked, Writes
  <2>3. Knows(u, ConnectorAsked')
    BY <2>1, <2>2 DEF Knows
  <2> QED
    BY <2>1, <2>3, Enrolled
<1>4. ASSUME NEW w \in Callers, NEW c \in Connectors, Activates(w, c) \/ Creates(w, c) PROVE BudgetFollows'
  BY <1>3, <1>4 DEF Activates, Creates, WritesStatus
<1>5. ASSUME NEW w \in Callers, NEW c \in Connectors, Configures(w, c) PROVE BudgetFollows'
  <2>1. CASE Enrols(w, c, "configure")
    BY <1>3, <1>5, <2>1 DEF Configures
  <2>2. CASE /\ update[w].section = "writeBack" /\ connector[c].config = update[w].read.config
             /\ slips' = slips /\ ConnectorGoes(w, C!Idle)
    <3>1. connector'[c].config.rateGovernance = connector[c].config.rateGovernance
      <4>1. update[w].value \in C!Values(update[w].section) /\ connector[c].config \in Configs /\ update[w].section \in C!Sections
        BY <1>0, <1>5 DEF Configures, Readings, ConnectorTypes, ConnectorRow
      <4>2. connector'[c].config = [connector[c].config EXCEPT ![update[w].section] = update[w].value]
        BY <1>5, <2>2 DEF Configures
      <4> QED
        BY <2>2, <4>1, <4>2, Replaces
    <3>2. C!Exists(c) /\ update[w].stage = "work" /\ UNCHANGED <<budgeted, starting, slips>>
      BY <1>0, <1>5, <2>2 DEF Configures, Readings
    <3>3. ConnectorAsked' = ConnectorAsked
      BY <1>5, <3>1, AskedStays DEF Configures, Writes
    <3>4. update[w].stage \notin {"register", "store"} /\ C!Idle.stage \notin {"register", "store"}
      BY <3>2, IdleType
    <3>5. ConnectorGoes(w, C!Idle)
      BY <2>2
    <3> QED
      BY <1>q, <3>2, <3>3, <3>4, <3>5
  <2>3. CASE "overlap" \in slips' /\ Crowds(w, C!Idle)
    <3>1. ASSUME NEW v \in Callers, Alone(v)' PROVE FALSE
      <4>1. v # w
        BY <2>3, <3>1, IdleType DEF Crowds, Alone, C!Registering
      <4> QED
        BY <2>3, <3>1, <4>1 DEF Crowds, Alone, C!Registering
    <3>2. AloneKnows'
      BY <3>1 DEF AloneKnows
    <3>3. Settled'
      BY <2>3 DEF Settled
    <3> QED
      BY <3>2, <3>3 DEF BudgetFollows
  <2> QED
    BY <1>5, <2>1, <2>2, <2>3 DEF Configures
<1>6. ASSUME NEW w \in Callers, Reads(w) PROVE BudgetFollows'
  <2>1. PICK u \in RegistrationRow :
          /\ ConnectorGoes(w, u) /\ u.stage = "store" /\ u.op = update[w].op /\ u.of = update[w].of
          /\ u.left = update[w].left /\ u.crowded = update[w].crowded
          /\ u.merged = C!Smallest({update[w].own} \cup ConnectorAsked)
    BY <1>6 DEF Reads
  <2>2. ConnectorAsked' = ConnectorAsked /\ starting' = starting /\ update[w].stage = "register"
    BY <1>6 DEF Reads, ConnectorAsked, C!Exists, C!Asked
  <2>3. update'[w] = u /\ \A v \in Callers \ {w} : update'[v] = update[v]
    BY <2>1 DEF ConnectorGoes
  <2>4. ASSUME Alone(w)' PROVE Knows(u, ConnectorAsked')
    <3>1. C!Others(w)' = C!Others(w)
      BY <2>3 DEF C!Others, C!Registering
    <3>2. Alone(w)
      BY <2>1, <2>2, <2>3, <2>4, <3>1 DEF Alone, C!Registering
    <3>3. Knows(update[w], ConnectorAsked)
      BY <1>0, <3>2, KnowsAre
    <3>4. {update[w].own} \cup ConnectorAsked = ConnectorAsked
      BY <2>2, <3>3 DEF Knows
    <3> QED
      BY <2>1, <2>2, <3>3, <3>4 DEF Knows
  <2> QED
    BY <2>1, <2>4, Enrolled
<1>7. ASSUME NEW w \in Callers, ConnectorStores(w) PROVE BudgetFollows'
  <2>1. ConnectorAsked' = ConnectorAsked /\ update[w].stage = "store"
    BY <1>7 DEF ConnectorStores, ConnectorAsked, C!Exists, C!Asked
  <2>2. ASSUME NEW u \in RegistrationRow, GoesOn(w, u), Crowds(w, u), UNCHANGED starting PROVE BudgetFollows'
    <3>1. ASSUME Alone(w)' PROVE Knows(u, ConnectorAsked')
      <4>1. C!Others(w)' = C!Others(w)
        BY <2>2 DEF C!Others, C!Registering, Crowds
      <4>2. update'[w] = u
        BY <2>2 DEF Crowds
      <4>3. Alone(w)
        BY <2>1, <2>2, <3>1, <4>1, <4>2 DEF Alone, C!Registering, GoesOn
      <4>4. Knows(update[w], ConnectorAsked)
        BY <1>0, <4>3, KnowsAre
      <4> QED
        BY <2>1, <2>2, <4>4 DEF Knows, GoesOn
    <3>2. u.stage \in {"register", "store"}
      BY <2>2 DEF GoesOn
    <3> QED
      BY <2>2, <3>1, <3>2, Enrolled
  <2>3. CASE /\ Crowds(w, C!Idle)
             /\ starting' = IF update[w].op = "start" THEN starting \ {Host[w]} ELSE starting
    <3>1. ASSUME NEW v \in Callers, Alone(v)' PROVE FALSE
      <4>1. v # w
        BY <2>3, <3>1, IdleType DEF Crowds, Alone, C!Registering
      <4> QED
        BY <2>3, <3>1, <4>1 DEF Crowds, Alone, C!Registering
    <3>2. AloneKnows'
      BY <3>1 DEF AloneKnows
    <3>3. ASSUME C!Steady', "overlap" \notin slips' PROVE budgeted' = C!Smallest(ConnectorAsked) /\ budgeted' \in Limits
      <4>1. ~update[w].crowded /\ C!Others(w) = {}
        BY <1>7, <3>3 DEF ConnectorStores
      <4>2. starting \subseteq (IF update[w].op = "start" THEN {Host[w]} ELSE {})
        BY <2>3, <3>3 DEF C!Steady
      <4>3. Alone(w)
        BY <2>1, <4>1, <4>2 DEF Alone, C!Registering
      <4>4. Knows(update[w], ConnectorAsked)
        BY <1>0, <4>3, KnowsAre
      <4>5. budgeted' = C!Smallest(ConnectorAsked)
        BY <1>7, <2>1, <4>4 DEF ConnectorStores, Knows
      <4>6. ConnectorAsked # {} /\ ConnectorAsked \in SUBSET Limits
        BY <1>0, <2>1, AskedTypes DEF Readings
      <4> QED
        BY <4>5, <4>6, SmallestIsOne
    <3>4. ASSUME C!Steady', "overlap" \notin slips'
          PROVE  /\ budgeted' # 0 /\ budgeted' <= C!Smallest(ConnectorAsked')
                 /\ budgeted' = C!Smallest(ConnectorAsked')
      <4>1. budgeted' = C!Smallest(ConnectorAsked') /\ budgeted' \in Nat \ {0}
        BY <2>1, <3>3, <3>4, LimitsAssumption
      <4>2. budgeted' <= budgeted'
        BY <4>1
      <4> QED
        BY <4>1, <4>2
    <3>5. Settled'
      BY <3>4 DEF Settled
    <3> QED
      BY <3>2, <3>5 DEF BudgetFollows
  <2> QED
    BY <1>7, <2>2, <2>3 DEF ConnectorStores
<1>8. ASSUME NEW w \in Callers, Recalls(w), connector' = connector, starting' = starting
      PROVE  AloneKnows' /\ ConnectorAsked' = ConnectorAsked /\ (C!Steady' => C!Steady)
  <2>1. PICK u : ConnectorGoes(w, u) /\ u.stage = "work"
    BY <1>8 DEF Recalls
  <2>2. ConnectorAsked' = ConnectorAsked /\ update[w].stage = "work"
    BY <1>8 DEF Recalls, ConnectorAsked, C!Exists, C!Asked
  <2>3. AloneKnows' /\ ((\A v \in Callers : ~C!Registering(v))' => \A v \in Callers : ~C!Registering(v))
    BY <1>0, <1>8, <2>1, <2>2, Quietly
  <2> QED
    BY <1>8, <2>2, <2>3 DEF C!Steady, C!Exists
<1>9. ASSUME NEW w \in Callers, ConnectorGoverned(w) PROVE BudgetFollows'
  <2>1. AloneKnows' /\ ConnectorAsked' = ConnectorAsked /\ (C!Steady' => C!Steady)
    BY <1>8, <1>9 DEF ConnectorGoverned
  <2>2. Settled'
    BY <1>0, <1>9, <2>1 DEF ConnectorGoverned, Settled
  <2> QED
    BY <2>1, <2>2 DEF BudgetFollows
<1>10. ASSUME NEW w \in Callers, ConnectorAdmits(w) PROVE BudgetFollows'
  <2>1. AloneKnows' /\ ConnectorAsked' = ConnectorAsked /\ (C!Steady' => C!Steady)
    BY <1>8, <1>10 DEF ConnectorAdmits
  <2>2. /\ update[w].limit \in Limits /\ budgeted' = C!Narrowed(update[w].limit)
        /\ slips' = IF update[w].limit < C!Smallest(ConnectorAsked) THEN slips \cup {"outdated"} ELSE slips
    BY <1>10 DEF ConnectorAdmits
  <2>3. ASSUME C!Steady', "overlap" \notin slips'
        PROVE  /\ budgeted' # 0 /\ budgeted' <= C!Smallest(ConnectorAsked)
               /\ "outdated" \notin slips' => budgeted' = C!Smallest(ConnectorAsked)
    <3>1. C!Steady /\ "overlap" \notin slips
      BY <2>1, <2>2, <2>3
    <3>2. /\ budgeted # 0 /\ budgeted <= C!Smallest(ConnectorAsked)
          /\ "outdated" \notin slips => budgeted = C!Smallest(ConnectorAsked)
      BY <1>0, <3>1 DEF Settled
    <3>3. ConnectorAsked # {} /\ ConnectorAsked \in SUBSET Limits
      BY <1>0, <3>1, AskedTypes DEF C!Steady
    <3>4. C!Smallest(ConnectorAsked) \in Nat \ {0} /\ budgeted \in Nat \ {0} /\ update[w].limit \in Nat \ {0}
      BY <1>0, <2>2, <3>2, <3>3, SmallestIsOne, LimitsAssumption DEF ConnectorTypes
    <3>5. budgeted' = IF budgeted < update[w].limit THEN budgeted ELSE update[w].limit
      BY <2>2, <3>2 DEF C!Narrowed, C!Smaller
    <3>6. budgeted' # 0 /\ budgeted' <= C!Smallest(ConnectorAsked)
      BY <3>2, <3>4, <3>5
    <3>7. ASSUME "outdated" \notin slips' PROVE budgeted' = C!Smallest(ConnectorAsked)
      <4>1. "outdated" \notin slips /\ ~(update[w].limit < C!Smallest(ConnectorAsked))
        BY <2>2, <3>7
      <4> QED
        BY <3>2, <3>4, <3>5, <4>1
    <3> QED
      BY <3>6, <3>7
  <2>4. Settled'
    BY <2>1, <2>3 DEF Settled
  <2> QED
    BY <2>1, <2>4 DEF BudgetFollows
<1>11. ASSUME NEW h, Stops(h) PROVE BudgetFollows'
  <2>1. h \in starting'
    BY <1>11 DEF Stops
  <2>2. ASSUME NEW v \in Callers, Alone(v)' PROVE FALSE
    <3>1. Host[v] # h
      BY <1>11, <2>2, IdleType DEF Stops, Alone, C!Registering
    <3> QED
      BY <2>1, <2>2, <3>1 DEF Alone
  <2>3. AloneKnows'
    BY <2>2 DEF AloneKnows
  <2>4. Settled'
    BY <2>1 DEF Settled, C!Steady
  <2> QED
    BY <2>3, <2>4 DEF BudgetFollows
<1>12. ASSUME NEW w \in Callers, Restarts(w) PROVE BudgetFollows'
  <2>1. connector' = connector /\ ConnectorAsked' = ConnectorAsked
    BY <1>12 DEF Restarts, ConnectorAsked, C!Exists, C!Asked
  <2>2. CASE UNCHANGED update /\ \A c \in Connectors : ~C!Exists(c)
    <3>1. ASSUME NEW v \in Callers, Alone(v)' PROVE FALSE
      <4>1. C!Registering(v)
        BY <2>2, <3>1 DEF Alone, C!Registering
      <4> QED
        BY <1>0, <2>2, <4>1 DEF Readings, C!Registering
    <3>2. AloneKnows'
      BY <3>1 DEF AloneKnows
    <3>3. ~C!Steady'
      BY <2>1, <2>2 DEF C!Steady, C!Exists
    <3>4. Settled'
      BY <3>3 DEF Settled
    <3> QED
      BY <3>2, <3>4 DEF BudgetFollows
  <2>3. ASSUME NEW u \in RegistrationRow, ConnectorGoes(w, u), u.stage = "register", C!Exists(u.of),
               u.own = C!Asked(u.of), \A d \in DOMAIN u.left : C!Exists(d) /\ u.left[d] = C!Asked(d)
        PROVE  BudgetFollows'
    <3>1. u.of \in Connectors /\ \A d \in DOMAIN u.left : d \in Connectors
      BY LeftFields DEF RegistrationRow
    <3>2. u.own \in ConnectorAsked /\ \A d \in DOMAIN u.left : u.left[d] \in ConnectorAsked
      BY <2>3, <3>1 DEF ConnectorAsked
    <3>3. Knows(u, ConnectorAsked')
      BY <2>1, <2>3, <3>2 DEF Knows
    <3> QED
      BY <2>3, <3>3, Enrolled
  <2> QED
    BY <1>12, <2>2, <2>3 DEF Restarts
<1>13. ASSUME NEW w \in Callers, Breaks(w) PROVE BudgetFollows'
  <2>1. Crowds(w, C!Idle) /\ "overlap" \in slips'
    BY <1>13 DEF Breaks
  <2>2. ASSUME NEW v \in Callers, Alone(v)' PROVE FALSE
    <3>1. v # w
      BY <2>1, <2>2, IdleType DEF Crowds, Alone, C!Registering
    <3> QED
      BY <2>1, <2>2, <3>1 DEF Crowds, Alone, C!Registering
  <2>3. AloneKnows'
    BY <2>2 DEF AloneKnows
  <2>4. Settled'
    BY <2>1 DEF Settled
  <2> QED
    BY <2>3, <2>4 DEF BudgetFollows
<1> QED
  BY <1>1, <1>2, <1>4, <1>5, <1>6, <1>7, <1>9, <1>10, <1>11, <1>12, <1>13 DEF ConnectorMoves

(* The invariant of the connectors holds after any interleaving of their   *)
(* callers' reads and writes, stops and starts (connector.service.ts:282). *)
THEOREM ConnectorHolds == C!Spec => []ConnectorInv
<1>1. ConnectorInv /\ [C!Next]_(C!vars) => ConnectorInv'
  BY ConnectorSteps, ConnectorTypesStep, ReadingsStep, SettingsStep, BudgetStep,
     UnwrittenStep DEF ConnectorInv
<1> QED
  BY <1>1, ConnectorInit, PTL DEF C!Spec

(* The invariant implies what is checked: types, the safest budget (rate-  *)
(* governor.ts:125, 294), settings as last given (connector.service.ts:    *)
(* 402).                                                                   *)
LEMMA ConnectorProps == ConnectorInv => C!TypeOK /\ C!BudgetIsSafest /\ C!SettingsAreKept
<1> SUFFICES ASSUME ConnectorInv PROVE C!TypeOK /\ C!BudgetIsSafest
  BY DEF ConnectorInv
<1>0. ConnectorTypes /\ Settled
  BY DEF ConnectorInv, BudgetFollows
<1>1. C!TypeOK
  <2>1. \A c \in Connectors : connector[c] \in ConnectorRow
    BY <1>0 DEF ConnectorTypes
  <2>2. \A w \in Callers : update[w].stage \in {"idle", "work", "register", "store"}
    BY <1>0, RowKinds DEF ConnectorTypes
  <2> QED
    BY <1>0, <2>1, <2>2 DEF ConnectorTypes, C!TypeOK, ConnectorRow, Configs, ConnectorStatuses
<1>2. C!Safest = C!Smallest(ConnectorAsked)
  BY DEF C!Safest, ConnectorAsked
<1>3. C!BudgetIsSafest
  BY <1>0, <1>2 DEF C!BudgetIsSafest, Settled
<1> QED
  BY <1>1, <1>3

(* A paused connector stays so until whoever may end its pause does        *)
(* (connector.service.ts:282).                                             *)
THEOREM PausesStay == C!Spec => C!PauseIsKept
<1> DEFINE Step == \A c \in Connectors : (connector[c].status = "paused" /\ connector'[c].status # "paused") =>
                     \E w \in Callers : /\ update[w].of = c /\ update'[w] # update[w]
                                        /\ \/ update[w].op = "activate" \/ update[w].read.status # "paused"
                                           \/ update[w].op = "test" /\ connector'[c].status = "error"
<1>1. ConnectorInv /\ [C!Next]_(C!vars) => Step
  <2> SUFFICES ASSUME ConnectorInv, ConnectorMoves, NEW c \in Connectors,
                      connector[c].status = "paused", connector'[c].status # "paused"
               PROVE  \E w \in Callers : /\ update[w].of = c /\ update'[w] # update[w]
                                         /\ \/ update[w].op = "activate" \/ update[w].read.status # "paused"
                                            \/ update[w].op = "test" /\ connector'[c].status = "error"
    BY ConnectorSteps
  <2>1. PICK w \in Callers, d \in Connectors : \/ ConnectorBegins(w, d) \/ Concludes(w, d) \/ Activates(w, d)
                                               \/ Creates(w, d) \/ Configures(w, d)
    BY DEF ConnectorMoves, C!vars, Reads, ConnectorStores, Breaks, ConnectorGoverned, ConnectorAdmits, Stops, Restarts
  <2>2. d = c
    BY <2>1 DEF ConnectorBegins, Concludes, Activates, Creates, Configures, WritesStatus, Writes
  <2>3. CASE Concludes(w, c)
    BY <2>3, IdleType DEF Concludes, ConnectorGoes
  <2>4. CASE Activates(w, c)
    BY <2>4 DEF Activates, Enrols, ConnectorGoes
  <2> QED
    BY <2>1, <2>2, <2>3, <2>4 DEF ConnectorBegins, Creates, Configures, C!Exists
<1>2. C!PauseIsKept <=> [][Step]_(C!vars)
  BY DEF C!PauseIsKept
<1> HIDE DEF Step
<1> QED
  BY <1>1, <1>2, ConnectorHolds, PTL DEF C!Spec

-----------------------------------------------------------------------------
(* NativeQuery: the watermark of a scheduled query.                        *)
(*                                                                         *)
(* Only the owner of the lease commits, and with the watermark it read     *)
(* (QueryLease). A page is a prefix of what is found past the watermark    *)
(* (PagesEnd), so moving the watermark behind its last record skips        *)
(* nothing.                                                                *)

(* The rows, requests and runs have their types; a text that went past     *)
(* validation is bounded.                                                  *)
QueryRow == [status : {"draft", "published", "disabled"}, text : Texts, mark : Nat,
             hash : Texts \cup {N!NoText}, owner : Runners \cup {N!Nobody},
             expired : BOOLEAN, due : BOOLEAN]
RunRow == [stage : {"idle", "check", "fetch", "commit"}, text : Texts \cup {N!NoText},
           mark : Nat, page : SUBSET Nat]
UserRow == [stage : {"idle", "update", "publish"}, text : Texts \cup {N!NoText}]
QueryTypes == /\ changes \in Seq(Records) /\ queue \subseteq DOMAIN changes
              /\ query \in QueryRow /\ query.mark <= N!Now
              /\ user \in [Users -> UserRow]
              /\ \A u \in Users : user[u].stage # "idle" => user[u].text \in Texts
              /\ run \in [Runners -> RunRow]
              /\ \A w \in Runners : run[w].page \subseteq DOMAIN changes
BoundedRuns == \A w \in Runners : run[w].stage \in {"fetch", "commit"} => run[w].text \in Bounded

(* The lease: only a published query has an owner, and the owner works     *)
(* with the watermark of the row, and, unless an update crossed a publish, *)
(* with its text.                                                          *)
QueryLease == /\ query.owner # N!Nobody => query.status = "published"
              /\ \A w \in Runners : N!Mine(w) =>
                   /\ run[w].stage # "idle"
                   /\ run[w].mark = query.mark
                   /\ ~raced => run[w].text = query.hash
              /\ ~raced => ~N!Astray(query)

(* A page ends with a last change, and holds every matching one up to it.  *)
EndsWith(shown, last) == last \in shown /\ \A v \in shown : v <= last
PagesEnd == \A w \in Runners : run[w].stage = "commit" =>
              /\ run[w].page = {} \/ \E last \in run[w].page : EndsWith(run[w].page, last)
              /\ \A v \in run[w].page : run[w].mark <= v
              /\ \A v \in N!Current : \A last \in run[w].page :
                   changes[v] \in Matches[run[w].text] /\ run[w].mark <= v /\ v <= last
                   => v \in run[w].page

QueryInv == QueryTypes /\ BoundedRuns /\ QueryLease /\ PagesEnd /\ N!NothingSkipped

(* A draft and idle runs satisfy the invariant.                            *)
LEMMA QueryInit == N!Init => QueryInv
<1> SUFFICES ASSUME N!Init PROVE QueryInv
  OBVIOUS
<1> PICK text \in Texts : query = N!Draft(text)
  BY DEF N!Init
<1> USE QueryAssumption
<1>1. QueryTypes
  BY DEF N!Init, QueryTypes, QueryRow, RunRow, UserRow, N!Draft, N!Rest, N!NoRun, N!Now
<1>2. BoundedRuns
  BY DEF N!Init, BoundedRuns, N!NoRun
<1>3. QueryLease
  BY DEF N!Init, QueryLease, N!Draft, N!Mine, N!Astray
<1>4. PagesEnd
  BY DEF N!Init, PagesEnd, N!NoRun
<1>5. N!NothingSkipped
  BY DEF N!Init, N!NothingSkipped, N!Draft
<1> QED
  BY <1>1, <1>2, <1>3, <1>4, <1>5 DEF QueryInv

-----------------------------------------------------------------------------
(* The maximum of a watermark and a page after it.                         *)
LEMMA MaxOfPage ==
  ASSUME NEW m \in Nat, NEW shown \in SUBSET Nat, \A v \in shown : m <= v
  PROVE  /\ shown = {} => N!Max({m} \cup shown) = m
         /\ \A last \in shown : EndsWith(shown, last) => N!Max({m} \cup shown) = last
<1>1. CASE shown = {}
  <2>1. N!Max({m}) = m
    BY DEF N!Max
  <2> QED
    BY <1>1, <2>1
<1>2. ASSUME NEW last \in shown, EndsWith(shown, last) PROVE N!Max({m} \cup shown) = last
  <2> DEFINE T == {m} \cup shown
  <2>1. last \in T /\ \A v \in T : last >= v
    BY <1>2 DEF EndsWith
  <2>2. \A x \in T : (\A v \in T : x >= v) => x = last
    BY <2>1
  <2> HIDE DEF T
  <2>3. N!Max(T) = last
    BY <2>1, <2>2 DEF N!Max
  <2> QED
    BY <2>3 DEF T
<1> QED
  BY <1>1, <1>2

(* The watermark a run would store.                                        *)
Top(w) == N!Max({run[w].mark} \cup run[w].page)

(* It is the watermark of the run, or the end of its page.                 *)
LEMMA TopIs ==
  ASSUME QueryInv, NEW w \in Runners, run[w].stage = "commit"
  PROVE  \/ run[w].page = {} /\ Top(w) = run[w].mark
         \/ EndsWith(run[w].page, Top(w)) /\ run[w].mark <= Top(w) /\ Top(w) \in DOMAIN changes
<1>1. run[w] \in RunRow /\ run[w].page \subseteq DOMAIN changes
  BY DEF QueryInv, QueryTypes
<1>2. run[w].mark \in Nat /\ run[w].page \in SUBSET Nat
  BY <1>1 DEF RunRow
<1>3. \A v \in run[w].page : run[w].mark <= v
  BY DEF QueryInv, PagesEnd
<1>4. CASE run[w].page = {}
  BY <1>2, <1>4, MaxOfPage DEF Top
<1>5. ASSUME NEW last \in run[w].page, EndsWith(run[w].page, last)
      PROVE  EndsWith(run[w].page, Top(w)) /\ run[w].mark <= Top(w) /\ Top(w) \in DOMAIN changes
  <2>1. Top(w) = last
    BY <1>2, <1>3, <1>5, MaxOfPage DEF Top
  <2> QED
    BY <1>1, <1>3, <1>5, <2>1
<1> QED
  BY <1>4, <1>5 DEF QueryInv, PagesEnd

(* What publishing does to the row.                                        *)
LEMMA Publishes ==
  ASSUME QueryInv, NEW u \in Users, N!Publish(u), query.status # "published"
  PROVE  /\ query' \in QueryRow /\ user[u].text \in Texts
         /\ query'.status = "published" /\ query'.hash = user[u].text
         /\ query'.owner = query.owner /\ query'.text = query.text
         /\ \/ N!KeepsWatermark(user[u].text) /\ query'.mark = query.mark /\ from' = from
            \/ ~N!KeepsWatermark(user[u].text) /\ from' \in 1 .. N!Now /\ query'.mark = from'
         /\ raced' = (raced \/ N!Astray(query'))
<1>1. query \in QueryRow /\ N!Now \in Nat
  BY DEF QueryInv, QueryTypes, N!Now
<1>2. user[u].text \in Texts
  BY DEF QueryInv, QueryTypes, N!Publish
<1>3. PICK start \in 1 .. N!Now :
        /\ query' = [query EXCEPT !.status = "published", !.hash = user[u].text, !.due = TRUE,
                                  !.mark = IF N!KeepsWatermark(user[u].text) THEN query.mark ELSE start]
        /\ from' = IF N!KeepsWatermark(user[u].text) THEN from ELSE start
        /\ raced' = (raced \/ N!Astray(query'))
  BY DEF N!Publish
<1>4. start \in Nat
  BY <1>1
<1>5. CASE N!KeepsWatermark(user[u].text)
  BY <1>1, <1>2, <1>3, <1>5 DEF QueryRow
<1>6. CASE ~N!KeepsWatermark(user[u].text)
  <2>1. query' = [query EXCEPT !.status = "published", !.hash = user[u].text, !.due = TRUE, !.mark = start]
    BY <1>3, <1>6
  <2>2. query' \in QueryRow /\ query'.mark = start /\ query'.status = "published"
        /\ query'.hash = user[u].text /\ query'.owner = query.owner /\ query'.text = query.text
    BY <1>1, <1>2, <1>4, <2>1 DEF QueryRow
  <2> QED
    BY <1>2, <1>3, <1>6, <2>2
<1> QED
  BY <1>5, <1>6

(* What a run that still has the lease does to the row.                    *)
LEMMA QueryStores ==
  ASSUME QueryInv, NEW w \in Runners, N!Commit(w), N!Commits(w)
  PROVE  /\ query' \in QueryRow /\ query'.mark = Top(w) /\ queue' = queue \cup run[w].page
         /\ query'.hash = query.hash /\ query'.owner = N!Nobody
         /\ query'.text = query.text /\ query'.status = query.status
<1>1. query \in QueryRow /\ run[w].mark \in Nat /\ run[w].stage = "commit"
  BY DEF QueryInv, QueryTypes, RunRow, N!Commit
<1>2. Top(w) \in Nat
  <2>1. DOMAIN changes \subseteq Nat
    BY DEF QueryInv, QueryTypes
  <2> QED
    BY <1>1, <2>1, TopIs
<1>3. query' = [[query EXCEPT !.owner = N!Nobody, !.expired = FALSE] EXCEPT !.mark = Top(w)]
  BY DEF N!Commit, Top, N!Released
<1> QED
  BY <1>1, <1>2, <1>3 DEF QueryRow, N!Commit

(* Every step keeps the types.                                             *)
LEMMA QueryTypesStep == QueryInv /\ [N!Next]_(N!vars) => QueryTypes' /\ BoundedRuns'
<1> SUFFICES ASSUME QueryInv, [N!Next]_(N!vars) PROVE QueryTypes' /\ BoundedRuns'
  OBVIOUS
<1> USE QueryAssumption DEF QueryInv, QueryTypes, BoundedRuns, UserRow, RunRow, N!Rest, N!NoRun, N!End, N!Ask, N!Now
<1>1. CASE UNCHANGED N!vars
  BY <1>1 DEF N!vars
<1>2. ASSUME NEW r \in Records, N!Change(r) PROVE QueryTypes' /\ BoundedRuns'
  <2>1. changes' \in Seq(Records) /\ DOMAIN changes \subseteq DOMAIN changes' /\ Len(changes) <= Len(changes')
    BY <1>2 DEF N!Change
  <2>2. query.mark \in Nat /\ Len(changes) \in Nat /\ Len(changes') \in Nat
    BY <2>1 DEF QueryRow
  <2>3. query'.mark <= Len(changes') + 1
    BY <1>2, <2>1, <2>2 DEF N!Change
  <2> QED
    BY <1>2, <2>1, <2>3 DEF N!Change
<1>3. ASSUME NEW u \in Users, NEW text \in Texts, N!BeginUpdate(u, text) PROVE QueryTypes' /\ BoundedRuns'
  BY <1>3 DEF N!BeginUpdate
<1>4. ASSUME NEW u \in Users, N!Update(u) PROVE QueryTypes' /\ BoundedRuns'
  BY <1>4 DEF N!Update, QueryRow
<1>5. ASSUME NEW u \in Users, N!BeginPublish(u) PROVE QueryTypes' /\ BoundedRuns'
  BY <1>5 DEF N!BeginPublish
<1>6. ASSUME NEW u \in Users, N!Publish(u) PROVE QueryTypes' /\ BoundedRuns'
  <2>1. query' \in QueryRow /\ query'.mark <= N!Now
    <3>1. CASE query.status = "published"
      BY <1>6, <3>1 DEF N!Publish
    <3>2. CASE query.status # "published"
      BY <1>6, <3>2, Publishes
    <3> QED
      BY <3>1, <3>2
  <2> QED
    BY <1>6, <2>1 DEF N!Publish
<1>7. ASSUME NEW w \in Runners, N!Claim(w) PROVE QueryTypes' /\ BoundedRuns'
  BY <1>7 DEF N!Claim, QueryRow
<1>8. ASSUME NEW w \in Runners, N!GiveUp(w) PROVE QueryTypes' /\ BoundedRuns'
  BY <1>8 DEF N!GiveUp, N!Released, QueryRow
<1>9. ASSUME NEW w \in Runners, N!Check(w) PROVE QueryTypes' /\ BoundedRuns'
  BY <1>9 DEF N!Check, N!Passes
<1>10. ASSUME NEW w \in Runners, N!Fetch(w) PROVE QueryTypes' /\ BoundedRuns'
  <2>1. N!Found(w) \subseteq DOMAIN changes /\ DOMAIN changes \in SUBSET Nat
    BY DEF N!Found, N!Current
  <2>2. PICK last \in N!Found(w) \cup {0} :
          run' = [run EXCEPT ![w].stage = "commit", ![w].page = {v \in N!Found(w) : v <= last}]
    BY <1>10 DEF N!Fetch
  <2> DEFINE shown == {v \in N!Found(w) : v <= last}
  <2>3. shown \in SUBSET Nat /\ shown \subseteq DOMAIN changes
    BY <2>1
  <2>4. run' = [run EXCEPT ![w].stage = "commit", ![w].page = shown]
    BY <2>2
  <2> HIDE DEF shown
  <2>5. run[w].stage = "fetch" /\ UNCHANGED <<changes, query, user, queue>>
    BY <1>10 DEF N!Fetch
  <2>6. /\ run' \in [Runners -> RunRow]
        /\ run'[w].page = shown /\ run'[w].text = run[w].text
        /\ \A v \in Runners \ {w} : run'[v] = run[v]
    <3>1. run[w] \in RunRow /\ [run[w] EXCEPT !.stage = "commit", !.page = shown] \in RunRow
      BY <2>3
    <3>2. run' = [run EXCEPT ![w] = [run[w] EXCEPT !.stage = "commit", !.page = shown]]
      BY <2>4
    <3> QED
      BY <3>1, <3>2
  <2>7. \A v \in Runners : run'[v].page \subseteq DOMAIN changes
    BY <2>3, <2>6
  <2>8. BoundedRuns'
    BY <2>5, <2>6
  <2> HIDE DEF BoundedRuns, RunRow, UserRow
  <2> QED
    BY <2>5, <2>6, <2>7, <2>8
<1>11. ASSUME NEW w \in Runners, N!Commit(w) PROVE QueryTypes' /\ BoundedRuns'
  <2>1. CASE N!Commits(w)
    <3>1. query' \in QueryRow /\ query'.mark = Top(w) /\ queue' = queue \cup run[w].page
      BY <1>11, <2>1, QueryStores
    <3>2. run[w].stage = "commit"
      BY <1>11 DEF N!Commit
    <3>3. Top(w) <= Len(changes) + 1
      <4>1. run[w].mark <= Len(changes) + 1
        BY <2>1 DEF N!Commits, N!Mine, QueryLease
      <4> QED
        BY <3>2, <4>1, TopIs
    <3>4. run' = [run EXCEPT ![w] = [stage |-> "idle", text |-> N!NoText, mark |-> 0, page |-> {}]]
      BY <1>11 DEF N!Commit
    <3> QED
      BY <1>11, <3>1, <3>3, <3>4 DEF N!Commit
  <2>2. CASE ~N!Commits(w)
    BY <1>11, <2>2 DEF N!Commit
  <2> QED
    BY <2>1, <2>2
<1>12. CASE N!Disable
  BY <1>12 DEF N!Disable, QueryRow
<1>13. CASE N!ComeDue
  BY <1>13 DEF N!ComeDue, QueryRow
<1>14. CASE N!LeaseExpires
  BY <1>14 DEF N!LeaseExpires, QueryRow
<1> QED
  BY <1>1, <1>2, <1>3, <1>4, <1>5, <1>6, <1>7, <1>8, <1>9, <1>10, <1>11, <1>12, <1>13, <1>14 DEF N!Next

(* Every step keeps the lease.                                             *)
LEMMA QueryLeaseStep == QueryInv /\ [N!Next]_(N!vars) => QueryLease'
<1> SUFFICES ASSUME QueryInv, [N!Next]_(N!vars) PROVE QueryLease'
  OBVIOUS
<1> USE QueryAssumption DEF QueryInv, QueryTypes, QueryLease, UserRow, RunRow, N!NoRun, N!End, N!Mine, N!Astray, QueryRow
<1>1. CASE UNCHANGED N!vars
  BY <1>1 DEF N!vars
<1>2. ASSUME NEW r \in Records, N!Change(r) PROVE QueryLease'
  BY <1>2 DEF N!Change
<1>3. ASSUME NEW u \in Users, NEW text \in Texts, N!BeginUpdate(u, text) PROVE QueryLease'
  BY <1>3 DEF N!BeginUpdate
<1>4. ASSUME NEW u \in Users, N!Update(u) PROVE QueryLease'
  BY <1>4 DEF N!Update
<1>5. ASSUME NEW u \in Users, N!BeginPublish(u) PROVE QueryLease'
  BY <1>5 DEF N!BeginPublish
<1>6. ASSUME NEW u \in Users, N!Publish(u) PROVE QueryLease'
  <2>1. CASE query.status = "published"
    BY <1>6, <2>1 DEF N!Publish
  <2>2. CASE query.status # "published"
    <3>1. query'.owner = N!Nobody /\ query'.status = "published"
      BY <1>6, <2>2, Publishes
    <3> QED
      BY <1>6, <2>2, <3>1, Publishes DEF N!Publish
  <2> QED
    BY <2>1, <2>2
<1>7. ASSUME NEW w \in Runners, N!Claim(w) PROVE QueryLease'
  BY <1>7 DEF N!Claim, N!Claimable
<1>8. ASSUME NEW w \in Runners, N!GiveUp(w) PROVE QueryLease'
  BY <1>8 DEF N!GiveUp, N!Released
<1>9. ASSUME NEW w \in Runners, N!Check(w) PROVE QueryLease'
  BY <1>9 DEF N!Check
<1>10. ASSUME NEW w \in Runners, N!Fetch(w) PROVE QueryLease'
  BY <1>10 DEF N!Fetch
<1>11. ASSUME NEW w \in Runners, N!Commit(w) PROVE QueryLease'
  <2>1. CASE N!Commits(w)
    <3>1. query'.owner = N!Nobody /\ query'.hash = query.hash /\ query'.text = query.text /\ query'.status = query.status
      BY <1>11, <2>1, QueryStores
    <3> QED
      BY <1>11, <3>1 DEF N!Commit
  <2>2. CASE ~N!Commits(w)
    BY <1>11, <2>2 DEF N!Commit, N!Commits
  <2> QED
    BY <2>1, <2>2
<1>12. CASE N!Disable
  BY <1>12 DEF N!Disable
<1>13. CASE N!ComeDue
  BY <1>13 DEF N!ComeDue
<1>14. CASE N!LeaseExpires
  BY <1>14 DEF N!LeaseExpires
<1> QED
  BY <1>1, <1>2, <1>3, <1>4, <1>5, <1>6, <1>7, <1>8, <1>9, <1>10, <1>11, <1>12, <1>13, <1>14 DEF N!Next

-----------------------------------------------------------------------------
(* A change of a record is its last one until the next; the new one is     *)
(* behind all others.                                                      *)
LEMMA CurrentShrinks ==
  ASSUME changes \in Seq(Records), NEW r \in Records, N!Change(r)
  PROVE  /\ \A v \in DOMAIN changes : changes'[v] = changes[v]
         /\ N!Current' \subseteq N!Current \cup {N!Now}
         /\ N!Now \notin DOMAIN changes
<1>1. changes' = Append(changes, r)
  BY DEF N!Change
<1>2. DOMAIN changes' = DOMAIN changes \cup {N!Now} /\ \A v \in DOMAIN changes : changes'[v] = changes[v]
  BY <1>1 DEF N!Now
<1> QED
  BY <1>2 DEF N!Current, N!Now

(* Every step keeps the pages.                                             *)
LEMMA PagesStep == QueryInv /\ [N!Next]_(N!vars) => PagesEnd'
<1> SUFFICES ASSUME QueryInv, [N!Next]_(N!vars) PROVE PagesEnd'
  OBVIOUS
<1> USE QueryAssumption DEF QueryInv, QueryTypes, RunRow
<1>1. ASSUME changes' = changes,
             \A w \in Runners : run'[w].stage = "commit" => run'[w] = run[w]
      PROVE  PagesEnd'
  <2>1. N!Current' = N!Current
    BY <1>1 DEF N!Current
  <2> QED
    BY <1>1, <2>1 DEF PagesEnd
<1>2. CASE UNCHANGED N!vars
  BY <1>1, <1>2 DEF N!vars
<1>3. ASSUME NEW r \in Records, N!Change(r) PROVE PagesEnd'
  <2>1. run' = run
    BY <1>3 DEF N!Change
  <2>2. \A w \in Runners : \A last \in run[w].page : last < N!Now
    BY DEF N!Now
  <2>3. N!Now \in Nat
    BY DEF N!Now
  <2>4. \A v \in N!Current' : (v \in N!Current /\ changes'[v] = changes[v]) \/ v = N!Now
    BY <1>3, CurrentShrinks DEF N!Current
  <2>5. SUFFICES ASSUME NEW w \in Runners, run[w].stage = "commit",
                        NEW v \in N!Current', NEW last \in run[w].page,
                        changes'[v] \in Matches[run[w].text], run[w].mark <= v, v <= last
                 PROVE  v \in run[w].page
    BY <2>1 DEF PagesEnd
  <2>6. v # N!Now
    BY <2>2, <2>3, <2>5
  <2> QED
    BY <2>4, <2>5, <2>6 DEF PagesEnd
<1>4. ASSUME NEW w \in Runners, N!Fetch(w) PROVE PagesEnd'
  <2>1. N!Found(w) \subseteq DOMAIN changes /\ DOMAIN changes \in SUBSET Nat /\ \A v \in N!Found(w) : run[w].mark <= v
    BY DEF N!Found, N!Current
  <2>2. PICK last \in N!Found(w) \cup {0} :
          run' = [run EXCEPT ![w].stage = "commit", ![w].page = {v \in N!Found(w) : v <= last}]
    BY <1>4 DEF N!Fetch
  <2> DEFINE shown == {v \in N!Found(w) : v <= last}
  <2>3. shown = {} \/ EndsWith(shown, last)
    BY <2>1 DEF EndsWith
  <2>4. \A v \in N!Found(w) : \A l \in shown : v <= l => v \in shown
    BY <2>1
  <2>5. shown \subseteq N!Found(w) /\ run' = [run EXCEPT ![w].stage = "commit", ![w].page = shown]
    BY <2>2
  <2> HIDE DEF shown
  <2>6. changes' = changes /\ N!Current' = N!Current
    BY <1>4 DEF N!Fetch, N!Current
  <2>7. /\ run'[w].page = shown /\ run'[w].text = run[w].text /\ run'[w].mark = run[w].mark
        /\ \A v \in Runners \ {w} : run'[v] = run[v]
    BY <2>5
  <2>8. /\ shown = {} \/ \E l \in shown : EndsWith(shown, l)
        /\ \A v \in shown : run[w].mark <= v
        /\ \A v \in N!Current : \A l \in shown :
             changes[v] \in Matches[run[w].text] /\ run[w].mark <= v /\ v <= l => v \in shown
    BY <2>1, <2>3, <2>4, <2>5 DEF N!Found, EndsWith
  <2> QED
    BY <2>6, <2>7, <2>8 DEF PagesEnd
<1>5. ASSUME ~(\E r \in Records : N!Change(r)), ~(\E w \in Runners : N!Fetch(w)), N!Next PROVE PagesEnd'
  <2>1. changes' = changes
    BY <1>5 DEF N!Next, N!BeginUpdate, N!Update, N!BeginPublish, N!Publish, N!Claim, N!GiveUp, N!Check,
       N!Commit,
                N!Disable, N!ComeDue, N!LeaseExpires
  <2>2. run' = run \/ \E w \in Runners : N!Claim(w) \/ N!GiveUp(w) \/ N!Check(w) \/ N!Commit(w)
    BY <1>5 DEF N!Next, N!BeginUpdate, N!Update, N!BeginPublish, N!Publish, N!Disable, N!ComeDue,
       N!LeaseExpires
  <2>3. \A w \in Runners : run'[w].stage = "commit" => run'[w] = run[w]
    <3>1. CASE run' = run
      BY <3>1
    <3>2. ASSUME NEW w \in Runners, N!Claim(w) \/ N!GiveUp(w) \/ N!Check(w) \/ N!Commit(w)
          PROVE  run'[w].stage # "commit" /\ \A v \in Runners \ {w} : run'[v] = run[v]
      BY <3>2 DEF N!Claim, N!GiveUp, N!Check, N!Commit, N!End, N!NoRun
    <3> QED
      BY <2>2, <3>1, <3>2
  <2> QED
    BY <1>1, <2>1, <2>3
<1> QED
  BY <1>2, <1>3, <1>4, <1>5

(* What was matched up to the watermark stays queued.                      *)
LEMMA NothingSkippedStep == QueryInv /\ [N!Next]_(N!vars) => N!NothingSkipped'
<1> SUFFICES ASSUME QueryInv, [N!Next]_(N!vars) PROVE N!NothingSkipped'
  OBVIOUS
<1> USE QueryAssumption DEF QueryInv, QueryTypes
<1>1. ASSUME changes' = changes, query'.hash = query.hash, query'.mark = query.mark,
             from' = from, queue' = queue, raced => raced'
      PROVE  N!NothingSkipped'
  <2>1. N!Current' = N!Current
    BY <1>1 DEF N!Current
  <2> QED
    BY <1>1, <2>1 DEF N!NothingSkipped
<1>2. CASE UNCHANGED N!vars
  BY <1>1, <1>2 DEF N!vars
<1>3. ASSUME NEW r \in Records, N!Change(r) PROVE N!NothingSkipped'
  <2>1. UNCHANGED <<query, queue, from, raced>>
    BY <1>3 DEF N!Change
  <2>2. \A v \in N!Current' : (v \in N!Current /\ changes'[v] = changes[v]) \/ v = N!Now
    BY <1>3, CurrentShrinks DEF N!Current
  <2>3. N!Now \in Nat /\ query.mark \in Nat /\ query.mark <= N!Now
    BY DEF N!Now, QueryRow
  <2> QED
    BY <2>1, <2>2, <2>3 DEF N!NothingSkipped
<1>4. ASSUME NEW u \in Users, N!Publish(u), query.status # "published" PROVE N!NothingSkipped'
  <2>1. changes' = changes /\ queue' = queue /\ N!Current' = N!Current
    BY <1>4 DEF N!Publish, N!Current
  <2>2. CASE N!KeepsWatermark(user[u].text)
    <3>1. query'.mark = query.mark /\ from' = from /\ query'.hash = user[u].text /\ (raced => raced')
      BY <1>4, <2>2, Publishes
    <3>2. query'.hash = query.hash
      BY <2>2, <3>1 DEF N!KeepsWatermark
    <3> QED
      BY <1>1, <2>1, <3>1, <3>2
  <2>3. CASE ~N!KeepsWatermark(user[u].text)
    <3>1. from' \in 1 .. N!Now /\ query'.mark = from'
      BY <1>4, <2>3, Publishes
    <3>2. \A v \in N!Current' : v \in Nat /\ from' \in Nat
      BY <2>1, <3>1 DEF N!Current, N!Now
    <3> QED
      BY <3>1, <3>2 DEF N!NothingSkipped
  <2> QED
    BY <2>2, <2>3
<1>5. ASSUME NEW w \in Runners, N!Commit(w), N!Commits(w) PROVE N!NothingSkipped'
  <2>1. /\ query'.mark = Top(w) /\ queue' = queue \cup run[w].page /\ query'.hash = query.hash
        /\ UNCHANGED <<changes, from, raced>> /\ run[w].stage = "commit"
    BY <1>5, QueryStores DEF N!Commit
  <2>2. run[w].mark = query.mark /\ (~raced => run[w].text = query.hash)
    BY <1>5 DEF N!Commits, QueryLease
  <2>3. N!Current' = N!Current /\ N!Current \subseteq Nat /\ query.mark \in Nat
    BY <2>1 DEF N!Current, QueryRow
  <2>4. SUFFICES ASSUME ~raced, query.hash # N!NoText, NEW v \in N!Current,
                        changes[v] \in Matches[query.hash],
                        from <= v, v < Top(w), v \notin queue
                 PROVE  v \in run[w].page
    BY <2>1, <2>3 DEF N!NothingSkipped
  <2>5. query.mark <= v
    BY <2>3, <2>4 DEF N!NothingSkipped
  <2>6. EndsWith(run[w].page, Top(w)) /\ Top(w) \in Nat
    <3>1. DOMAIN changes \subseteq Nat
      OBVIOUS
    <3> QED
      BY <2>1, <2>2, <2>3, <2>4, <2>5, <3>1, TopIs
  <2>7. Top(w) \in run[w].page /\ v <= Top(w)
    BY <2>3, <2>4, <2>6 DEF EndsWith
  <2> QED
    BY <2>1, <2>2, <2>4, <2>5, <2>7 DEF PagesEnd
<1>6. ASSUME N!Next, ~(\E r \in Records : N!Change(r)),
             ~(\E u \in Users : N!Publish(u) /\ query.status # "published"),
             ~(\E w \in Runners : N!Commit(w) /\ N!Commits(w))
      PROVE  N!NothingSkipped'
  <2>1. changes' = changes
    BY <1>6 DEF N!Next, N!BeginUpdate, N!Update, N!BeginPublish, N!Publish, N!Claim, N!GiveUp, N!Check,
       N!Fetch, N!Commit,
                N!Disable, N!ComeDue, N!LeaseExpires
  <2>2. from' = from /\ queue' = queue
    BY <1>6 DEF N!Next, N!BeginUpdate, N!Update, N!BeginPublish, N!Publish, N!Claim, N!GiveUp, N!Check,
       N!Fetch, N!Commit,
                N!Disable, N!ComeDue, N!LeaseExpires
  <2>3. raced => raced'
    BY <1>6, Zenon DEF N!Next, N!BeginUpdate, N!Update, N!BeginPublish, N!Publish, N!Claim, N!GiveUp,
       N!Check, N!Fetch, N!Commit,
                N!Disable, N!ComeDue, N!LeaseExpires
  <2>4. query'.hash = query.hash /\ query'.mark = query.mark
    BY <1>6, ZenonT(30) DEF N!Next, N!BeginUpdate, N!Update, N!BeginPublish, N!Publish, N!Claim, N!GiveUp,
       N!Check, N!Fetch, N!Commit,
                N!Disable, N!ComeDue, N!LeaseExpires, N!Released, QueryRow
  <2> QED
    BY <1>1, <2>1, <2>2, <2>3, <2>4
<1> QED
  BY <1>2, <1>3, <1>4, <1>5, <1>6

(* The invariant of the query holds.                                       *)
THEOREM QueryHolds == N!Spec => []QueryInv
<1>1. QueryInv /\ [N!Next]_(N!vars) => QueryInv'
  BY QueryTypesStep, QueryLeaseStep, PagesStep, NothingSkippedStep DEF QueryInv
<1> QED
  BY <1>1, QueryInit, PTL DEF N!Spec

(* MarkNeverMovesBack.                                                     *)
THEOREM MarkMovesForward == N!Spec => N!MarkNeverMovesBack
<1> DEFINE Step == query'.hash = query.hash => query'.mark >= query.mark
<1>1. QueryInv /\ [N!Next]_(N!vars) => Step
  <2> SUFFICES ASSUME QueryInv, [N!Next]_(N!vars) PROVE Step
    OBVIOUS
  <2>1. query.mark \in Nat /\ query \in QueryRow
    BY DEF QueryInv, QueryTypes, QueryRow
  <2>2. ASSUME query'.mark = query.mark PROVE Step
    BY <2>1, <2>2
  <2>3. ASSUME NEW u \in Users, N!Publish(u), query.status # "published" PROVE Step
    <3>1. CASE N!KeepsWatermark(user[u].text)
      BY <2>2, <2>3, <3>1, Publishes
    <3>2. CASE ~N!KeepsWatermark(user[u].text)
      <4>1. from' \in 1 .. N!Now /\ query'.mark = from' /\ query'.hash = user[u].text /\ N!Now \in Nat
        BY <2>3, <3>2, Publishes DEF QueryInv, QueryTypes, N!Now
      <4>2. query.hash = user[u].text => query.mark = 0
        BY <3>2 DEF N!KeepsWatermark
      <4> QED
        BY <4>1, <4>2
    <3> QED
      BY <3>1, <3>2
  <2>4. ASSUME NEW w \in Runners, N!Commit(w), N!Commits(w) PROVE Step
    <3>1. query'.mark = Top(w) /\ run[w].stage = "commit" /\ run[w].mark = query.mark
      BY <2>4, QueryStores DEF N!Commit, N!Commits, QueryInv, QueryLease
    <3>2. DOMAIN changes \subseteq Nat
      BY DEF QueryInv, QueryTypes
    <3> QED
      BY <2>1, <3>1, <3>2, TopIs
  <2>5. ASSUME N!Next, ~(\E u \in Users : N!Publish(u) /\ query.status # "published"),
               ~(\E w \in Runners : N!Commit(w) /\ N!Commits(w))
        PROVE  Step
    <3>1. query'.mark = query.mark
      BY <2>1, <2>5 DEF N!Next, N!Change, N!BeginUpdate, N!Update, N!BeginPublish, N!Publish, N!Claim,
         N!GiveUp, N!Check, N!Fetch, N!Commit,
                N!Disable, N!ComeDue, N!LeaseExpires, N!Released, QueryRow
    <3> QED
      BY <2>2, <3>1
  <2>6. CASE UNCHANGED N!vars
    BY <2>2, <2>6 DEF N!vars
  <2> QED
    BY <2>3, <2>4, <2>5, <2>6
<1>2. N!MarkNeverMovesBack <=> [][Step]_(N!vars)
  BY DEF N!MarkNeverMovesBack
<1> HIDE DEF Step
<1> QED
  BY <1>1, <1>2, QueryHolds, PTL DEF N!Spec

(* What the invariant says of the properties.                              *)
LEMMA QueryProps == QueryInv => N!TypeOK /\ N!OnlyBoundedReads /\ N!NothingSkipped
<1> SUFFICES ASSUME QueryInv PROVE N!TypeOK /\ N!OnlyBoundedReads /\ N!NothingSkipped
  OBVIOUS
<1>1. N!TypeOK
  BY DEF QueryInv, QueryTypes, N!TypeOK, QueryRow, UserRow, RunRow, QueryLease
<1> QED
  BY <1>1 DEF QueryInv, BoundedRuns, N!OnlyBoundedReads

-----------------------------------------------------------------------------
(* QueryScope: the slice a text names.                                     *)
(*                                                                         *)
(* A tree is a text parsed. Sound says that a tree the validator takes for *)
(* scoped matches records in scope only; leaves are, and the connectives   *)
(* keep it, so both dialects' verdicts are right by induction over how a   *)
(* text is built.                                                          *)

(* A tree is scoped only if all its records are.                           *)
Trees == [size : Nat, scoped : BOOLEAN, fields : SUBSET Fields, matches : SUBSET S!Provider]
Sound(t) == t \in Trees /\ (t.scoped => \A r \in t.matches : S!InScope(r))
ScopeInv == /\ language \in {"jql", "encoded"}
            /\ language = "jql" => jql \in [{1, 2} -> Trees] /\ Sound(jql[1]) /\ Sound(jql[2])
            /\ language = "encoded" => terms \in Seq(S!Term) /\ terms # << >>


(* Leaves, negations, conjunctions and disjunctions of sound trees are.    *)
LEMMA LeafIsSound == \A leaf \in S!Leaves : Sound(leaf)
<1> SUFFICES ASSUME NEW f \in Fields, NEW positive \in BOOLEAN PROVE Sound(S!Leaf(f, positive))
  BY DEF S!Leaves
<1> DEFINE m == {r \in S!Provider : (f \in r.equal) = positive}
<1>1. S!Leaf(f, positive) = [size |-> 1, scoped |-> f.scope /\ positive, fields |-> {f}, matches |-> m]
  BY DEF S!Leaf
<1>2. m \in SUBSET S!Provider /\ (positive => \A r \in m : f \in r.equal)
  OBVIOUS
<1>3. (f.scope /\ positive) \in BOOLEAN
  OBVIOUS
<1> HIDE DEF m
<1>4. S!Leaf(f, positive) \in Trees
  BY <1>1, <1>2, <1>3 DEF Trees
<1>5. f.scope /\ positive => \A r \in m : S!InScope(r)
  BY <1>2 DEF S!InScope
<1>6. S!Leaf(f, positive).scoped = (f.scope /\ positive) /\ S!Leaf(f, positive).matches = m
  BY <1>1
<1> QED
  BY <1>4, <1>5, <1>6 DEF Sound

(* A negated tree vouches for nothing.                                     *)
LEMMA NotIsSound == ASSUME NEW t, Sound(t) PROVE Sound(S!Not(t))
BY DEF Sound, Trees, S!Not

(* A conjunction is scoped by either of its sides.                         *)
LEMMA AndIsSound == ASSUME NEW t, NEW s, Sound(t), Sound(s) PROVE Sound(S!And(t, s))
<1>1. S!And(t, s) \in Trees
  BY DEF Sound, Trees, S!And
<1>2. S!And(t, s).scoped = (t.scoped \/ s.scoped) /\ S!And(t, s).matches = t.matches \cap s.matches
  BY DEF S!And
<1> QED
  BY <1>1, <1>2 DEF Sound

(* A disjunction is scoped only by both.                                   *)
LEMMA OrIsSound == ASSUME NEW t, NEW s, Sound(t), Sound(s) PROVE Sound(S!Or(t, s))
<1>1. S!Or(t, s) \in Trees
  BY DEF Sound, Trees, S!Or
<1>2. S!Or(t, s).scoped = (t.scoped /\ s.scoped) /\ S!Or(t, s).matches = t.matches \cup s.matches
  BY DEF S!Or
<1> QED
  BY <1>1, <1>2 DEF Sound

(* No tree is built yet, or one of a single leaf.                          *)
LEMMA ScopeInit == S!Init => ScopeInv
<1> SUFFICES ASSUME S!Init PROVE ScopeInv
  OBVIOUS
<1>1. ASSUME language = "jql" PROVE jql \in [{1, 2} -> Trees] /\ Sound(jql[1]) /\ Sound(jql[2])
  BY <1>1, LeafIsSound DEF S!Init, Sound
<1>2. ASSUME language = "encoded" PROVE terms \in Seq(S!Term) /\ terms # << >>
  <2>1. [join : {"and"}, field : Fields, positive : BOOLEAN] \subseteq S!Term
    BY DEF S!Term, S!Joins
  <2>2. terms \in [{1} -> S!Term]
    BY <1>2, <2>1 DEF S!Init
  <2>3. 1 .. 1 = {1}
    OBVIOUS
  <2>4. terms \in [1 .. 1 -> S!Term]
    BY <2>2, <2>3
  <2>5. terms = [i \in 1 .. 1 |-> terms[1]] /\ terms[1] \in S!Term
    BY <2>3, <2>4
  <2>6. [i \in 1 .. 1 |-> terms[1]] \in Seq(S!Term) /\ Len([i \in 1 .. 1 |-> terms[1]]) = 1
    BY <2>5
  <2>7. terms \in Seq(S!Term) /\ Len(terms) = 1
    BY <2>5, <2>6
  <2> QED
    BY <2>7
<1> QED
  BY <1>1, <1>2 DEF S!Init, ScopeInv

(* What is built from sound trees is sound.                                *)
LEMMA ScopeStep == ScopeInv /\ [S!Next]_(S!vars) => ScopeInv'
<1> SUFFICES ASSUME ScopeInv, [S!Next]_(S!vars) PROVE ScopeInv'
  OBVIOUS
<1>1. CASE UNCHANGED S!vars
  BY <1>1 DEF ScopeInv, S!vars, Sound, S!InScope, Trees, S!Provider, S!Term
<1>2. ASSUME NEW i \in {1, 2}, S!Extend(i) PROVE ScopeInv'
  <2>1. language = "jql" /\ language' = language
    BY <1>2 DEF S!Extend, S!Write
  <2>2. Sound(jql[i]) /\ jql \in [{1, 2} -> Trees]
    BY <2>1 DEF ScopeInv
  <2>3. PICK tree : Sound(tree) /\ jql' = [jql EXCEPT ![i] = tree]
    BY <1>2, <2>2, LeafIsSound, NotIsSound, AndIsSound, OrIsSound DEF S!Extend, S!Write
  <2>4. tree \in Trees
    BY <2>3 DEF Sound
  <2>5. jql' \in [{1, 2} -> Trees] /\ \A k \in {1, 2} : jql'[k] = tree \/ jql'[k] = jql[k]
    BY <2>2, <2>3, <2>4
  <2>6. Sound(jql[1]) /\ Sound(jql[2])
    BY <2>1 DEF ScopeInv
  <2> QED
    BY <2>1, <2>3, <2>5, <2>6 DEF ScopeInv
<1>3. CASE S!AppendTerm
  BY <1>3 DEF S!AppendTerm, ScopeInv
<1> QED
  BY <1>1, <1>2, <1>3 DEF S!Next

(* Whatever a query is built of, each of its trees is scoped only if every *)
(* record it matches is in scope.                                          *)
THEOREM ScopeHolds == S!Spec => []ScopeInv
BY ScopeInit, ScopeStep, PTL DEF S!Spec

(* A JQL text that passes validation reads only records in scope, its      *)
(* lookups included (native-query-validator.ts:13).                        *)
LEMMA JqlScope == ScopeInv => S!JqlStaysInScope
<1> SUFFICES ASSUME ScopeInv, language = "jql",
                    NEW tree \in {jql[1], S!And(jql[1], jql[2]), S!Or(jql[1], jql[2])}, S!ValidJql(tree)
             PROVE  /\ \A r \in S!JqlReads(tree) : S!InScope(r)
                    /\ \A f \in tree.fields : S!Vouched(f)
  BY DEF S!JqlStaysInScope
<1>1. Sound(tree)
  BY AndIsSound, OrIsSound DEF ScopeInv
<1>2. tree.scoped /\ \A f \in tree.fields : S!JiraLookup(f) = "indexed"
  BY DEF S!ValidJql
<1>3. \A r \in S!JqlReads(tree) : S!InScope(r)
  BY <1>1, <1>2 DEF Sound, S!JqlReads
<1>4. \A f \in tree.fields : S!Vouched(f)
  BY <1>2 DEF S!JiraLookup, S!Vouched
<1> QED
  BY <1>3, <1>4

(* Every condition is in the part of the last start before it.             *)
LEMMA EveryTermIsInAPart ==
  ASSUME NEW q \in Seq(S!Term), NEW i \in DOMAIN q, q[i].join # "empty"
  PROVE  \E s \in S!Starts(q) : i \in S!PartFrom(q, s)
<1>0. DOMAIN q = 1 .. Len(q) /\ Len(q) \in Nat
  OBVIOUS
<1>1. S!Starts(q) \subseteq Nat /\ 1 \in S!Starts(q) /\ i \in Nat /\ 1 <= i
  BY <1>0 DEF S!Starts
<1> DEFINE W == {i - s : s \in {k \in S!Starts(q) : k <= i}}
<1>2. W \in SUBSET Nat /\ i - 1 \in W
  BY <1>1
<1>3. PICK n \in W : \A k \in W : n <= k
  BY <1>2, LeastNumber
<1>4. PICK s \in S!Starts(q) : s <= i /\ n = i - s
  BY <1>3
<1>5. \A k \in S!Starts(q) : k <= i => i - s <= i - k
  BY <1>3, <1>4
<1>6. \A k \in S!Starts(q) : ~(s < k /\ k <= i)
  BY <1>1, <1>5
<1> QED
  BY <1>1, <1>4, <1>6 DEF S!PartFrom

(* A part without conditions begins with an empty '^NQ'.                   *)
LEMMA EmptyPart ==
  ASSUME NEW q \in Seq(S!Term), q # << >>, NEW i \in S!Starts(q), S!PartFrom(q, i) = {}
  PROVE  \E k \in DOMAIN q : q[k].join = "empty"
<1>0. DOMAIN q = 1 .. Len(q) /\ Len(q) \in Nat /\ Len(q) # 0
  OBVIOUS
<1>1. i \in DOMAIN q
  BY <1>0 DEF S!Starts
<1>2. i \in Nat /\ S!Starts(q) \subseteq Nat
  BY <1>0, <1>1 DEF S!Starts
<1>3. i \in S!PartFrom(q, i) \/ q[i].join = "empty"
  BY <1>1, <1>2 DEF S!PartFrom
<1> QED
  BY <1>1, <1>3

(* An encoded query that passes validation reads only records in scope,    *)
(* each of its alternatives by a condition of its own (native-query-       *)
(* validator.ts:79).                                                       *)
LEMMA EncodedScope == ScopeInv => S!EncodedStaysInScope
<1> SUFFICES ASSUME ScopeInv, language = "encoded", S!ValidEncoded(terms) PROVE S!EncodedStaysInScope
  BY DEF S!EncodedStaysInScope
<1>1. terms \in Seq(S!Term) /\ terms # << >>
  BY DEF ScopeInv
<1>2. \A i \in S!Starts(terms) : S!PartFrom(terms, i) = {} \/ S!Scoped(terms, S!PartFrom(terms, i))
  BY DEF S!ValidEncoded
<1>3. \A i \in S!Starts(terms) : \A k \in S!PartFrom(terms, i) : S!ServiceNowLookup(terms[k].field) = "indexed"
  BY DEF S!ValidEncoded
<1>4. ASSUME NEW r \in S!EncodedReads(terms)
      PROVE  r.recent /\ (S!InScope(r) \/ \E i \in DOMAIN terms : terms[i].join = "empty")
  <2>1. PICK i \in S!Starts(terms) :
          /\ \A clause \in S!Clauses(terms, S!PartFrom(terms, i)) : \E j \in clause : S!HoldsFor(terms[j], r)
          /\ r.recent
    BY <1>4 DEF S!EncodedReads, S!BoundedPart
  <2>2. CASE S!PartFrom(terms, i) = {}
    BY <1>1, <2>1, <2>2, EmptyPart
  <2>3. CASE S!Scoped(terms, S!PartFrom(terms, i))
    <3>1. PICK clause \in S!Clauses(terms, S!PartFrom(terms, i)) : \A k \in clause : S!Selective(terms[k])
      BY <2>3 DEF S!Scoped
    <3>2. PICK j \in clause : S!HoldsFor(terms[j], r)
      BY <2>1
    <3>3. terms[j].field.scope /\ terms[j].positive
      BY <3>1 DEF S!Selective
    <3>4. terms[j].field \in r.equal
      BY <3>2, <3>3 DEF S!HoldsFor
    <3> QED
      BY <2>1, <3>3, <3>4 DEF S!InScope
  <2> QED
    BY <1>2, <2>2, <2>3
<1>5. ASSUME NEW i \in DOMAIN terms, terms[i].join # "empty"
      PROVE  S!Vouched(terms[i].field) /\ (terms[i].field.dotted => terms[i].field.declared)
  <2>1. S!ServiceNowLookup(terms[i].field) = "indexed"
    BY <1>1, <1>3, <1>5, EveryTermIsInAPart
  <2> QED
    BY <2>1 DEF S!ServiceNowLookup, S!Vouched
<1> QED
  BY <1>4, <1>5 DEF S!EncodedStaysInScope

-----------------------------------------------------------------------------
(* A behaviour of Transport is one of each machine.                        *)

(* Admission is a RateGovernor.                                            *)
LEMMA Governs == TransportSpec => G!Spec
<1>1. TransportInit => G!Init
  BY DEF TransportInit
<1>2. [TransportNext]_transportVars => [G!Next]_(G!vars)
  <2> SUFFICES ASSUME [TransportNext]_transportVars PROVE [G!Next]_(G!vars)
    OBVIOUS
  <2>1. CASE Governor
    BY <2>1 DEF Governor
  <2>2. CASE UNCHANGED governorVars
    BY <2>2 DEF governorVars, G!vars
  <2>3. CASE Relay \/ Backfill \/ Query \/ Scope \/ Webhook \/ Connector
    BY <2>2, <2>3 DEF Relay, Backfill, Query, Scope, Webhook, Connector, calling, reading
  <2>4. CASE UNCHANGED transportVars
    BY <2>2, <2>4 DEF transportVars, calling, reading
  <2> QED
    BY <2>1, <2>3, <2>4 DEF TransportNext
<1> QED
  BY <1>1, <1>2, PTL DEF TransportSpec, G!Spec

(* The relay is a ConnectorRelay.                                          *)
LEMMA Relays == TransportSpec => Spec
<1>1. TransportInit => Init
  BY DEF TransportInit
<1>2. [TransportNext]_transportVars => [Next]_(vars)
  <2> SUFFICES ASSUME [TransportNext]_transportVars PROVE [Next]_(vars)
    OBVIOUS
  <2>1. CASE Relay
    BY <2>1 DEF Relay
  <2>2. CASE UNCHANGED relayVars
    BY <2>2 DEF relayVars, vars
  <2>3. CASE Governor \/ Backfill \/ Query \/ Scope \/ Webhook \/ Connector
    BY <2>2, <2>3 DEF Governor, Backfill, Query, Scope, Webhook, Connector, calling, reading
  <2>4. CASE UNCHANGED transportVars
    BY <2>2, <2>4 DEF transportVars, calling, reading
  <2> QED
    BY <2>1, <2>3, <2>4 DEF TransportNext
<1> QED
  BY <1>1, <1>2, PTL DEF TransportSpec, Spec

(* Backfills are those of Backfill.                                        *)
LEMMA Backfills == TransportSpec => B!Spec
<1>1. TransportInit => B!Init
  BY DEF TransportInit
<1>2. [TransportNext]_transportVars => [B!Next]_(B!vars)
  <2> SUFFICES ASSUME [TransportNext]_transportVars PROVE [B!Next]_(B!vars)
    OBVIOUS
  <2>1. CASE Backfill
    BY <2>1 DEF Backfill
  <2>2. CASE UNCHANGED backfillVars
    BY <2>2 DEF backfillVars, B!vars
  <2>3. CASE Governor \/ Relay \/ Query \/ Scope \/ Webhook \/ Connector
    BY <2>2, <2>3 DEF Governor, Relay, Query, Scope, Webhook, Connector, calling, reading
  <2>4. CASE UNCHANGED transportVars
    BY <2>2, <2>4 DEF transportVars, calling, reading
  <2> QED
    BY <2>1, <2>3, <2>4 DEF TransportNext
<1> QED
  BY <1>1, <1>2, PTL DEF TransportSpec, B!Spec

(* Scheduled queries are those of NativeQuery.                             *)
LEMMA Queries == TransportSpec => N!Spec
<1>1. TransportInit => N!Init
  BY DEF TransportInit
<1>2. [TransportNext]_transportVars => [N!Next]_(N!vars)
  <2> SUFFICES ASSUME [TransportNext]_transportVars PROVE [N!Next]_(N!vars)
    OBVIOUS
  <2>1. CASE Query
    BY <2>1 DEF Query
  <2>2. CASE UNCHANGED queryVars
    BY <2>2 DEF queryVars, N!vars
  <2>3. CASE Governor \/ Relay \/ Backfill \/ Scope \/ Webhook \/ Connector
    BY <2>2, <2>3 DEF Governor, Relay, Backfill, Scope, Webhook, Connector, calling, reading
  <2>4. CASE UNCHANGED transportVars
    BY <2>2, <2>4 DEF transportVars, calling, reading
  <2> QED
    BY <2>1, <2>3, <2>4 DEF TransportNext
<1> QED
  BY <1>1, <1>2, PTL DEF TransportSpec, N!Spec

(* Their texts are those of QueryScope.                                    *)
LEMMA Scopes == TransportSpec => S!Spec
<1>1. TransportInit => S!Init
  BY DEF TransportInit
<1>2. [TransportNext]_transportVars => [S!Next]_(S!vars)
  <2> SUFFICES ASSUME [TransportNext]_transportVars PROVE [S!Next]_(S!vars)
    OBVIOUS
  <2>1. CASE Scope
    BY <2>1 DEF Scope
  <2>2. CASE UNCHANGED scopeVars
    BY <2>2 DEF scopeVars, S!vars
  <2>3. CASE Governor \/ Relay \/ Backfill \/ Query \/ Webhook \/ Connector
    BY <2>2, <2>3 DEF Governor, Relay, Backfill, Query, Webhook, Connector, calling, reading
  <2>4. CASE UNCHANGED transportVars
    BY <2>2, <2>4 DEF transportVars, calling, reading
  <2> QED
    BY <2>1, <2>3, <2>4 DEF TransportNext
<1> QED
  BY <1>1, <1>2, PTL DEF TransportSpec, S!Spec

(* Webhooks are those of InboundWebhook.                                   *)
LEMMA Receives == TransportSpec => I!Spec
<1>1. TransportInit => I!Init
  BY DEF TransportInit
<1>2. [TransportNext]_transportVars => [I!Next]_(I!vars)
  <2> SUFFICES ASSUME [TransportNext]_transportVars PROVE [I!Next]_(I!vars)
    OBVIOUS
  <2>1. CASE Webhook
    BY <2>1 DEF Webhook
  <2>2. CASE UNCHANGED webhookVars
    BY <2>2 DEF webhookVars, I!vars, I!stored, I!effects
  <2>3. CASE Governor \/ Relay \/ Backfill \/ Query \/ Scope \/ Connector
    BY <2>2, <2>3 DEF Governor, Relay, Backfill, Query, Scope, Connector, calling, reading
  <2>4. CASE UNCHANGED transportVars
    BY <2>2, <2>4 DEF transportVars, calling, reading
  <2> QED
    BY <2>1, <2>3, <2>4 DEF TransportNext
<1> QED
  BY <1>1, <1>2, PTL DEF TransportSpec, I!Spec

(* Connectors are those of ConnectorLifecycle.                             *)
LEMMA Connects == TransportSpec => C!Spec
<1>1. TransportInit => C!Init
  BY DEF TransportInit
<1>2. [TransportNext]_transportVars => [C!Next]_(C!vars)
  <2> SUFFICES ASSUME [TransportNext]_transportVars PROVE [C!Next]_(C!vars)
    OBVIOUS
  <2>1. CASE Connector
    BY <2>1 DEF Connector
  <2>2. CASE UNCHANGED connectorVars
    BY <2>2 DEF connectorVars, C!vars
  <2>3. CASE Governor \/ Relay \/ Backfill \/ Query \/ Scope \/ Webhook
    BY <2>2, <2>3 DEF Governor, Relay, Backfill, Query, Scope, Webhook, calling, reading
  <2>4. CASE UNCHANGED transportVars
    BY <2>2, <2>4 DEF transportVars, calling, reading
  <2> QED
    BY <2>1, <2>3, <2>4 DEF TransportNext
<1> QED
  BY <1>1, <1>2, PTL DEF TransportSpec, C!Spec

-----------------------------------------------------------------------------
(* What is checked of Transport.                                           *)

(* The rows and the memory of every machine hold values of their types:    *)
(* no interleaving of workers, callers and crashes stores anything else    *)
(* (rate-governor.ts:221, connector-relay.service.ts:277,                  *)
(* backfill-runner.service.ts:200, native-query.service.ts:297,            *)
(* inbound-webhook-queue.service.ts:215, connector.service.ts:282).        *)
THEOREM EveryRowIsTyped == TransportSpec => []MemoryIsTyped
<1>1. TransportSpec => /\ []GovernorInv /\ []TypeOK /\ []BackfillInv /\ []QueryInv /\ []WebhookInv
                       /\ []ConnectorInv
  BY Governs, GovernorHolds, Relays, TypeCorrect, Backfills, BackfillHolds, Queries, QueryHolds,
     Receives, WebhookHolds, Connects, ConnectorHolds
<1>2. GovernorInv /\ TypeOK /\ BackfillInv /\ QueryInv /\ WebhookInv /\ ConnectorInv => MemoryIsTyped
  BY GovernorProps, BackfillProps, QueryProps, WebhookProps, ConnectorProps DEF MemoryIsTyped
<1> QED
  BY <1>1, <1>2, PTL

(* The gate bounds the open calls of a process (rate-governor.ts:221) and  *)
(* forgets no waiter (231), and one call probes at a time (264).  When     *)
(* nobody registers it (125) and the last registration neither failed nor  *)
(* was overlapped, the budget of a target is not wider than the safest its *)
(* connectors ask for, and is that one unless a call under an older policy *)
(* narrowed it (294).                                                      *)
THEOREM AdmissionIsFair == TransportSpec => []GateIsFair
<1>1. TransportSpec => []GovernorInv /\ []ConnectorInv
  BY Governs, GovernorHolds, Connects, ConnectorHolds
<1>2. GovernorInv /\ ConnectorInv => GateIsFair
  BY GovernorProps, ConnectorProps DEF GateIsFair
<1> QED
  BY <1>1, <1>2, PTL

(* An operation is applied at the provider once, and after those its       *)
(* caller saw before it (connector-relay.service.ts:277).                  *)
THEOREM RelayCallsOnce == TransportSpec => []CalledOnce
  BY Relays, CalledOnceAndInTurn

(* What was asked for is not lost: a completed backfill has queued its     *)
(* range (backfill-runner.service.ts:200), a query every change up to its  *)
(* watermark (native-query.service.ts:324), a webhook is answered, and by  *)
(* what happened (inbound-webhook-queue.service.ts:215), unless a failing  *)
(* query of the registry was swallowed (consumer-registry.service.ts:83)   *)
(* or a stop met an event already settled, and a setting stays as it was   *)
(* last given (connector.service.ts:402).                                  *)
THEOREM WhatIsAskedIsKept == TransportSpec => []NothingIsLost
<1>1. TransportSpec => []BackfillInv /\ []QueryInv /\ []WebhookInv /\ []ConnectorInv
  BY Backfills, BackfillHolds, Queries, QueryHolds, Receives, WebhookHolds, Connects, ConnectorHolds
<1>2. BackfillInv /\ QueryInv /\ WebhookInv /\ ConnectorInv => NothingIsLost
  BY BackfillProps, QueryProps, WebhookProps, ConnectorProps DEF NothingIsLost
<1> QED
  BY <1>1, <1>2, PTL

(* A run reads with a text that passed validation                          *)
(* (native-query.service.ts:297), and such a text reads only records in    *)
(* the scope it names, in both dialects (native-query-validator.ts:13).    *)
THEOREM ReadsStayInScope == TransportSpec => []ReadsAreBounded
<1>1. TransportSpec => []QueryInv /\ []ScopeInv
  BY Queries, QueryHolds, Scopes, ScopeHolds
<1>2. QueryInv /\ ScopeInv => ReadsAreBounded
  BY QueryProps, JqlScope, EncodedScope DEF ReadsAreBounded
<1> QED
  BY <1>1, <1>2, PTL

(* What is settled stays settled: the answer of an operation               *)
(* (connector-relay.service.ts:277), the watermark of an accepted run      *)
(* (native-query.service.ts:331), a pause (connector.service.ts:282), and  *)
(* shedding, which begins after pressure and ends by a fresh probe         *)
(* (rate-governor.ts:376, 332).                                            *)
THEOREM WhatIsSettledStays == TransportSpec => SettledStays
  BY Governs, ShedsFairly, Relays, AnswersStay, Queries, MarkMovesForward, Connects, PausesStay
     DEF SettledStays
=============================================================================
