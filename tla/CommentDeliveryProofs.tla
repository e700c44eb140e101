----------------------- MODULE CommentDeliveryProofs -----------------------
(***************************************************************************)
(* Machine-checked theorems about CommentDelivery, for every finite set of *)
(* records, every way to link them, any syncs, pages, batches and policies *)
(* and every budget of troubles.                                           *)
(*                                                                         *)
(* The argument.  Rows, threads and the tasks of the workers fit together  *)
(* (Structure): an item of a worker is a planned delivery, and a comment   *)
(* that no user wrote is the copy of a delivery to that record, by which   *)
(* a reader tells an echo.  On top of it, for each delivery (CallsOf):     *)
(* until its claim expires the worker at it owns it (Held), so that two    *)
(* workers never push the same delivery; a push comes after a search that  *)
(* found no copy (Unwritten), unless the thread is longer than the page    *)
(* that is searched; so there is one copy at most (Single).  The count of  *)
(* attempts covers every worker that has written or still may: one who     *)
(* gives its attempt back has not written, and leaves one for the others   *)
(* (Spent).                                                                *)
(***************************************************************************)
EXTENDS CommentDelivery, TLAPS, WellFoundedInduction, FiniteSetTheorems

(* What a worker has to do, what it is, and the types of all variables.    *)
Tasks == [at : Nat \ {0}, skip : BOOLEAN]
WorkerType == [stage : Stages, todo : SUBSET Tasks, first : {"idle", "store", "plan", "item"},
               twin : Twins \cup {User}, attempt : Nat]

Types == /\ thread \in [Twins -> Seq(Ids \cup {User})]
         /\ stored \in SUBSET Posts
         /\ delivery \in [Ids -> DeliveryType]
         /\ planned \in Seq(Ids)
         /\ conn \in [Twins -> {"active", "paused"}]
         /\ policy \in [Twins -> Policies \cup {Bidirectional}]
         /\ worker \in [Workers -> WorkerType]
         /\ late \in SUBSET Ids
         /\ budget \in SUBSET Troubles

(* The rows of deliveries are the planned ones, each planned once.         *)
Planning == /\ IsInjective(planned)
            /\ Range(planned) = {id \in Ids : delivery[id].status # "none"}

(* A comment in a thread that no user wrote is the copy of a delivery to   *)
(* that record.                                                            *)
Threads == \A t \in Twins : \A i \in DOMAIN thread[t] :
             thread[t][i] # User => /\ delivery[thread[t][i]].status # "none"
                                    /\ Target(thread[t][i]) = t

(* What is stored is a comment of a user, at that place of the thread.     *)
StoredByUsers == \A r \in stored : r[2] \in DOMAIN thread[r[1]] /\ thread[r[1]][r[2]] = User

(* What a worker has to do exists.                                         *)
Doable(me) ==
  /\ me.stage = "fetch" => me.twin \in Twins
  /\ me.stage \in {"store", "plan"} =>
       /\ me.first \in {"store", "plan"} /\ me.twin \in Twins /\ me.todo # {}
       /\ \A x \in me.todo : x.at <= PageLimit /\ x.at <= Len(thread[me.twin])
  /\ me.stage \in Handling \cup {"item"} =>
       /\ me.first = "item" /\ me.todo # {}
       /\ \A x \in me.todo : x.at <= Len(planned)

Todo == \A w \in Workers : Doable(worker[w])

(* The part that says where everything is.                                 *)
Structure == Types /\ Planning /\ Threads /\ StoredByUsers /\ Todo

(* Until its claim expires, the worker of a delivery owns it.              *)
Held(id) == \A w \in Workers :
  Busy(w, id) /\ id \notin late => /\ delivery[id].owner = w
                                   /\ ~delivery[id].expired
                                   /\ delivery[id].status \in {"processing", "skipped"}

(* Then, where the search looked at all comments, a push is the first.     *)
Unwritten(id) == \A w \in Workers :
  Busy(w, id) /\ worker[w].stage = "push" => \/ id \in late
                                             \/ Len(thread[Target(id)]) > PageLimit
                                             \/ ~HasCopy(id)

(* Who is about to record a delivery as executed has seen or written its   *)
(* copy.                                                                   *)
Written(id) == \A w \in Workers : Busy(w, id) /\ worker[w].stage = "record" => HasCopy(id)

(* An attempt that is given back had not written, and is not the only one  *)
(* when another has written or may.                                        *)
MayWrite(w, id) == Busy(w, id) /\ worker[w].stage \in {"search", "push"}
MayGiveBack(w, id) == Busy(w, id) /\ worker[w].stage \in {"search", "push", "defer"}
Spent(id) == \A w \in Workers :
  /\ MayWrite(w, id) => delivery[id].attempts >= 1
  /\ /\ MayGiveBack(w, id)
     /\ delivery[id].owner = w
     /\ HasCopy(id) \/ \E v \in Workers \ {w} : MayWrite(v, id)
     => delivery[id].attempts >= 2

(* So there is one copy at most, and the row tells of it.                  *)
Single(id) == \/ id \in late
              \/ Len(thread[Target(id)]) > PageLimit
              \/ \A i, j \in Copies(id) : i = j

Honest(id) == /\ delivery[id].status = "executed" => HasCopy(id)
              /\ HasCopy(id) => delivery[id].attempts >= 1

CallsOf(id) == Held(id) /\ Unwritten(id) /\ Written(id) /\ Spent(id) /\ Single(id) /\ Honest(id)
DeliveryInv == Structure /\ \A id \in Ids : CallsOf(id)

-----------------------------------------------------------------------------
(* A non-empty set of naturals has a least element.                        *)
LEMMA Least ==
  ASSUME NEW S \in SUBSET Nat, S # {}
  PROVE  \E n \in S : \A k \in S : n <= k
<1>1. IsWellFoundedOn(OpToRel(<, Nat), Nat)
  BY NatLessThanWellFounded
<1>2. PICK n \in S : \A k \in S : ~(<<k, n>> \in OpToRel(<, Nat))
  BY <1>1, WFMin
<1>3. \A k \in S : ~(k < n)
  BY <1>2 DEF OpToRel
<1> QED
  BY <1>3

(* Who has something to do is at one of its items.                         *)
LEMMA CurrentIsTask ==
  ASSUME NEW w, worker[w].todo \in SUBSET Tasks, worker[w].todo # {}
  PROVE  Current(w) \in worker[w].todo /\ Current(w).at \in Nat \ {0}
<1> DEFINE todo == worker[w].todo
           places == {x.at : x \in todo}
<1>1. places \in SUBSET Nat /\ places # {}
  BY DEF Tasks
<1>2. PICK n \in places : \A k \in places : n <= k
  BY <1>1, Least
<1>3. \E x \in todo : \A y \in todo : x.at <= y.at
  BY <1>2
<1>4. Current(w) = CHOOSE x \in todo : \A y \in todo : x.at <= y.at
  BY DEF Current
<1> HIDE DEF todo
<1>5. Current(w) \in todo
  BY <1>3, <1>4
<1> QED
  BY <1>5 DEF todo, Tasks

(* A finite set in some order: each element once.                          *)
LEMMA SomeOrder ==
  ASSUME NEW S, IsFiniteSet(S)
  PROVE  /\ SetToSeq(S) \in Seq(S)
         /\ IsInjective(SetToSeq(S))
         /\ Range(SetToSeq(S)) = S
<1> DEFINE n == Cardinality(S)
<1>1. n \in Nat /\ ExistsBijection(1 .. n, S)
  BY FS_CardinalityType
<1>2. PICK f \in [1 .. n -> S] : IsInjective(f)
  BY <1>1 DEF ExistsBijection, Bijection, Injection
<1>3. SetToSeq(S) \in [1 .. n -> S] /\ IsInjective(SetToSeq(S))
  BY <1>2 DEF SetToSeq
<1>4. IsFiniteSet(1 .. n) /\ Cardinality(1 .. n) = n
  BY <1>1, FS_Interval
<1>5. SetToSeq(S) \in Injection(1 .. n, S)
  BY <1>3 DEF Injection
<1>6. SetToSeq(S) \in Surjection(1 .. n, S)
  BY <1>4, <1>5, FS_Injection
<1>7. Range(SetToSeq(S)) = S
  BY <1>6 DEF Surjection, Range
<1> HIDE DEF n
<1>8. SetToSeq(S) \in Seq(S)
  BY <1>1, <1>3
<1> QED
  BY <1>3, <1>7, <1>8

(* Finitely many records and comments a sync can see: finitely many ids.   *)
LEMMA IdsAreFinite == IsFiniteSet(Ids)
<1>1. IsFiniteSet(1 .. PageLimit)
  BY LimitAssumption, FS_Interval
<1>2. IsFiniteSet(Posts)
  BY <1>1, TwinAssumption, FS_Product DEF Posts
<1>3. IsFiniteSet(Posts \X Twins)
  BY <1>2, TwinAssumption, FS_Product
<1> QED
  BY <1>3, FS_Subset DEF Ids

(* What an identity of a delivery is made of; a comment of a user is none. *)
LEMMA Identities ==
  /\ \A id \in Ids : id[1] \in Posts /\ Source(id) \in Twins /\ Target(id) \in Twins
  /\ User \notin Ids
  /\ \A r \in Posts : r[1] \in Twins /\ r[2] \in 1 .. PageLimit
  /\ \A r \in Posts : \A u \in Counterparts[r[1]] : <<r, u>> \in Ids
<1>1. \A id \in Ids : id[1] \in Posts /\ Source(id) \in Twins /\ Target(id) \in Twins
  BY DEF Ids, Posts, Source, Target
<1>2. User \notin Ids
  BY DEF User, Ids
<1>3. \A r \in Posts : r[1] \in Twins /\ r[2] \in 1 .. PageLimit
  BY DEF Posts
<1>4. \A r \in Posts : \A u \in Counterparts[r[1]] : <<r, u>> \in Ids
  BY <1>3, TwinAssumption DEF Ids
<1> QED
  BY <1>1, <1>2, <1>3, <1>4

(* A page holds what fits, all of a short thread.                          *)
LEMMA Pages ==
  ASSUME NEW t, Len(thread[t]) \in Nat
  PROVE  Page(t) = {i \in 1 .. Len(thread[t]) : i <= PageLimit}
<1>1. PageLimit \in Nat
  BY LimitAssumption
<1> DEFINE n == Len(thread[t])
<1> HIDE DEF n
<1>2. Min({PageLimit, n}) = IF PageLimit <= n THEN PageLimit ELSE n
  <2> DEFINE S == {PageLimit, n}
  <2>1. \E x \in S : \A y \in S : x =< y
    BY <1>1 DEF n
  <2>2. Min(S) \in S /\ \A y \in S : Min(S) =< y
    BY <2>1 DEF Min
  <2> QED
    BY <1>1, <2>2 DEF n
<1> QED
  BY <1>1, <1>2 DEF Page, n

(* What appending does to a sequence.                                      *)
LEMMA Appending ==
  ASSUME NEW S, NEW s \in Seq(S), NEW e \in S
  PROVE  /\ Append(s, e) \in Seq(S)
         /\ Len(s) \in Nat /\ Len(Append(s, e)) = Len(s) + 1
         /\ DOMAIN s = 1 .. Len(s) /\ DOMAIN Append(s, e) = 1 .. Len(s) + 1
         /\ \A i \in 1 .. Len(s) : Append(s, e)[i] = s[i]
         /\ Append(s, e)[Len(s) + 1] = e
  OBVIOUS
-----------------------------------------------------------------------------
(* Where the workers are.                                                  *)
LEMMA PostFacts ==
  ASSUME Structure, NEW w \in Workers, worker[w].stage \in {"store", "plan"}
  PROVE  /\ worker[w].twin \in Twins /\ Post(w) \in Posts
         /\ Post(w)[1] = worker[w].twin /\ Post(w)[2] \in DOMAIN thread[worker[w].twin]
         /\ worker[w].first \in {"store", "plan"}
<1>1. /\ worker[w].twin \in Twins /\ worker[w].todo # {} /\ worker[w].first \in {"store", "plan"}
      /\ \A x \in worker[w].todo : x.at <= PageLimit /\ x.at <= Len(thread[worker[w].twin])
  BY DEF Structure, Todo, Doable
<1>2. Current(w) \in worker[w].todo /\ Current(w).at \in Nat \ {0}
  BY <1>1, CurrentIsTask DEF Structure, Types, WorkerType
<1>3. Current(w).at \in 1 .. PageLimit
  BY <1>1, <1>2, LimitAssumption
<1>4. thread[worker[w].twin] \in Seq(Ids \cup {User})
  BY <1>1 DEF Structure, Types
<1>5. Current(w).at \in DOMAIN thread[worker[w].twin]
  BY <1>1, <1>2, <1>4
<1> QED
  BY <1>1, <1>3, <1>5 DEF Post, Posts

(* A worker at a delivery is at one that is planned.                       *)
LEMMA ItemFacts ==
  ASSUME Structure, NEW w \in Workers, worker[w].stage \in Handling \cup {"item"}
  PROVE  /\ Item(w) \in Ids /\ delivery[Item(w)].status # "none"
         /\ worker[w].first = "item" /\ Current(w).at \in 1 .. Len(planned)
<1>1. /\ worker[w].todo # {} /\ worker[w].first = "item"
      /\ \A x \in worker[w].todo : x.at <= Len(planned)
  BY DEF Structure, Todo, Doable
<1>2. Current(w) \in worker[w].todo /\ Current(w).at \in Nat \ {0}
  BY <1>1, CurrentIsTask DEF Structure, Types, WorkerType
<1>3. planned \in Seq(Ids)
  BY DEF Structure, Types
<1>4. Current(w).at \in 1 .. Len(planned)
  BY <1>1, <1>2, <1>3
<1>5. Item(w) \in Range(planned)
  BY <1>3, <1>4 DEF Item, Range
<1> QED
  BY <1>1, <1>4, <1>5 DEF Structure, Planning

(* A worker that stays where it is is still at the same delivery, although *)
(* others are planned.                                                     *)
LEMMA SameItem ==
  ASSUME Structure, NEW w \in Workers, worker'[w].todo = worker[w].todo,
         worker[w].stage \in Handling \cup {"item"},
         \A k \in 1 .. Len(planned) : planned'[k] = planned[k]
  PROVE  Item(w)' = Item(w)
<1>1. Current(w)' = Current(w)
  BY DEF Current
<1>2. Current(w).at \in 1 .. Len(planned)
  BY ItemFacts
<1> QED
  BY <1>1, <1>2 DEF Item

(* Who has not moved is at the same delivery as before.                    *)
LEMMA SameBusy ==
  ASSUME Structure, NEW w \in Workers, worker'[w] = worker[w],
         \A k \in 1 .. Len(planned) : planned'[k] = planned[k]
  PROVE  \A id : Busy(w, id)' <=> Busy(w, id)
<1>1. CASE worker[w].stage \in Handling
  BY <1>1, SameItem DEF Busy
<1>2. CASE worker[w].stage \notin Handling
  BY <1>2 DEF Busy
<1> QED
  BY <1>1, <1>2

(* A resting worker is one.                                                *)
LEMMA RestingType == Resting \in WorkerType
  BY DEF Resting, WorkerType, Stages

(* A change of the stage changes nothing else.                             *)
LEMMA GotoFacts ==
  ASSUME Types, NEW w \in Workers, NEW s \in Stages, worker' = [worker EXCEPT ![w].stage = s]
  PROVE  /\ worker' \in [Workers -> WorkerType]
         /\ \A v \in Workers \ {w} : worker'[v] = worker[v]
         /\ worker'[w].stage = s /\ worker'[w].todo = worker[w].todo
         /\ worker'[w].first = worker[w].first /\ worker'[w].twin = worker[w].twin
  BY DEF Types, WorkerType

(* An item is done: the next one, or what comes after the last.            *)
LEMMA NextItemFacts ==
  ASSUME Structure, NEW w \in Workers, NextItem(w),
         worker[w].stage \in {"store", "plan", "item"} \cup Handling
  PROVE  /\ worker' \in [Workers -> WorkerType]
         /\ \A v \in Workers \ {w} : worker'[v] = worker[v]
         /\ worker'[w].stage \notin Handling
         /\ Doable(worker'[w])
<1> DEFINE me == worker[w]
           rest == me.todo \ {Current(w)}
<1>1. me \in WorkerType /\ Resting \in WorkerType
  BY RestingType DEF Structure, Types
<1>2. Doable(me)
  BY DEF Structure, Todo
<1>3. rest \in SUBSET me.todo /\ rest \in SUBSET Tasks
  BY <1>1 DEF WorkerType
<1>4. /\ Resting.stage = "idle" /\ Resting.todo = {}
  BY DEF Resting
<1>5. me.first \in {"store", "plan", "item"}
  BY <1>2 DEF Doable
<1>6. {"store", "plan", "item", "fetch", "select", "idle"} \subseteq Stages \ Handling
  BY DEF Stages, Handling
<1>7. worker' = [worker EXCEPT
    ![w] = IF rest # {} THEN [me EXCEPT !.stage = me.first, !.todo = rest]
           ELSE IF me.first = "plan" THEN [Resting EXCEPT !.stage = "fetch", !.twin = me.twin]
           ELSE IF me.first = "item" THEN [Resting EXCEPT !.stage = "select"]
           ELSE Resting]
  BY DEF NextItem
<1> HIDE DEF rest
<1>8. CASE rest # {}
  <2> DEFINE next == [me EXCEPT !.stage = me.first, !.todo = rest]
  <2>1. /\ next \in WorkerType /\ next.stage = me.first /\ next.todo = rest
        /\ next.first = me.first /\ next.twin = me.twin
    BY <1>1, <1>3, <1>5, <1>6 DEF WorkerType
  <2>2. worker' = [worker EXCEPT ![w] = next]
    BY <1>7, <1>8
  <2> HIDE DEF next
  <2>3. worker'[w] = next /\ worker' \in [Workers -> WorkerType]
        /\ \A v \in Workers \ {w} : worker'[v] = worker[v]
    BY <2>1, <2>2 DEF Structure, Types
  <2>4. Doable(next)
    BY <1>2, <1>3, <1>5, <1>6, <1>8, <2>1 DEF Doable, Handling
  <2> QED
    BY <1>5, <1>6, <2>1, <2>3, <2>4
<1>9. CASE rest = {}
  <2> DEFINE next == IF me.first = "plan" THEN [Resting EXCEPT !.stage = "fetch", !.twin = me.twin]
                     ELSE IF me.first = "item" THEN [Resting EXCEPT !.stage = "select"]
                     ELSE Resting
  <2>1. /\ next \in WorkerType /\ next.stage \in {"fetch", "select", "idle"}
        /\ next.stage = "fetch" => next.twin \in Twins
    BY <1>1, <1>2, <1>4, <1>6 DEF WorkerType, Doable, Handling
  <2>2. worker' = [worker EXCEPT ![w] = next]
    BY <1>7, <1>9
  <2> HIDE DEF next
  <2>3. worker'[w] = next /\ worker' \in [Workers -> WorkerType]
        /\ \A v \in Workers \ {w} : worker'[v] = worker[v]
    BY <2>1, <2>2 DEF Structure, Types
  <2>4. Doable(next)
    BY <1>6, <2>1 DEF Doable, Handling
  <2> QED
    BY <1>6, <2>1, <2>3, <2>4
<1> QED
  BY <1>8, <1>9
-----------------------------------------------------------------------------
(* What steps keep.  Steps that neither write nor plan keep the structure  *)
(* as long as the items of the worker that moved exist.                    *)
LEMMA SteadyStep ==
  ASSUME Structure, Types', UNCHANGED <<thread, stored, planned>>,
         \A id \in Ids : delivery'[id].status = "none" <=> delivery[id].status = "none",
         \A v \in Workers : worker'[v] = worker[v] \/ Doable(worker'[v])
  PROVE  Structure'
<1>1. Planning'
  BY DEF Structure, Planning
<1>2. Threads'
  <2>1. \A t \in Twins : thread[t] \in Seq(Ids \cup {User})
    BY DEF Structure, Types
  <2>2. ASSUME NEW t \in Twins, NEW i \in DOMAIN thread[t], thread[t][i] # User
        PROVE  delivery'[thread[t][i]].status # "none" /\ Target(thread[t][i]) = t
    <3>1. thread[t][i] \in Ids
      BY <2>1, <2>2
    <3> QED
      BY <2>2, <3>1 DEF Structure, Threads
  <2> QED
    BY <2>2 DEF Threads
<1>3. StoredByUsers'
  BY DEF Structure, StoredByUsers
<1>4. Todo'
  <2> SUFFICES ASSUME NEW v \in Workers PROVE Doable(worker[v])'
    BY DEF Todo
  <2>1. Doable(worker'[v])
    BY DEF Structure, Todo
  <2> QED
    BY <2>1 DEF Doable
<1> QED
  BY <1>1, <1>2, <1>3, <1>4 DEF Structure

(* How a worker at a delivery may go on without a change of its row or of  *)
(* the thread.                                                             *)
MayGo(s, w, id) ==
  \/ s = worker[w].stage
  \/ s \in {"retry", "give up"}
  \/ s = "defer" /\ worker[w].stage \in {"search", "push"}
  \/ s = "record" /\ HasCopy(id)
  \/ /\ s = "push" /\ worker[w].stage = "search"
     /\ Len(thread[Target(id)]) <= PageLimit => ~HasCopy(id)

(* What is known of a delivery and its calls stays known where neither its *)
(* row nor its copies change.                                              *)
LEMMA CallsKept ==
  ASSUME Types, NEW id \in Ids, CallsOf(id), delivery'[id] = delivery[id],
         id \in late => id \in late',
         Len(thread[Target(id)]) > PageLimit => Len(thread'[Target(id)]) > PageLimit,
         HasCopy(id)' <=> HasCopy(id), Copies(id)' = Copies(id),
         \A v \in Workers : Busy(v, id)' => Busy(v, id) /\ MayGo(worker'[v].stage, v, id)
  PROVE  CallsOf(id)'
<1>0. /\ delivery[id].attempts \in Nat /\ Target(id) \in Twins
      /\ Len(thread[Target(id)]) \in Nat /\ PageLimit \in Nat
  BY Identities, LimitAssumption DEF Types, DeliveryType
<1>1. Held(id)'
  BY DEF CallsOf, Held
<1>2. Unwritten(id)'
  <2> SUFFICES ASSUME NEW v \in Workers, Busy(v, id)', worker'[v].stage = "push"
               PROVE  \/ id \in late' \/ Len(thread'[Target(id)]) > PageLimit
                      \/ ~HasCopy(id)'
    BY DEF Unwritten
  <2>1. \/ worker[v].stage = "push"
        \/ Len(thread[Target(id)]) <= PageLimit => ~HasCopy(id)
    BY DEF MayGo
  <2>2. \/ id \in late \/ Len(thread[Target(id)]) > PageLimit \/ ~HasCopy(id)
    BY <1>0, <2>1 DEF CallsOf, Unwritten
  <2> QED
    BY <2>2
<1>3. Written(id)'
  BY DEF CallsOf, Written, MayGo
<1>4. Spent(id)'
  <2>1. \A v \in Workers : /\ MayWrite(v, id)' => MayWrite(v, id)
                           /\ MayGiveBack(v, id)' => MayGiveBack(v, id)
    BY DEF MayWrite, MayGiveBack, MayGo
  <2> QED
    BY <2>1 DEF CallsOf, Spent
<1>5. Single(id)' /\ Honest(id)'
  BY DEF CallsOf, Single, Honest
<1> QED
  BY <1>1, <1>2, <1>3, <1>4, <1>5 DEF CallsOf

(* Unchanged threads have the same copies.                                 *)
LEMMA SameThreads ==
  ASSUME thread' = thread, NEW id
  PROVE  /\ HasCopy(id)' <=> HasCopy(id)
         /\ Copies(id)' = Copies(id)
         /\ Len(thread[Target(id)]) > PageLimit => Len(thread'[Target(id)]) > PageLimit
  BY DEF HasCopy, Copies

(* A step of one worker that changes neither rows nor threads.             *)
LEMMA MoveStep ==
  ASSUME DeliveryInv, UNCHANGED <<thread, stored, delivery, planned, late>>,
         NEW w \in Workers, worker' \in [Workers -> WorkerType],
         \A v \in Workers \ {w} : worker'[v] = worker[v],
         Doable(worker'[w]),
         UNCHANGED config, budget' \in SUBSET Troubles,
         worker'[w].stage \in Handling =>
           /\ worker[w].stage \in Handling /\ worker'[w].todo = worker[w].todo
           /\ MayGo(worker'[w].stage, w, Item(w))
  PROVE  DeliveryInv'
<1>0. Structure /\ Types
  BY DEF DeliveryInv, Structure
<1>1. Types'
  BY <1>0 DEF Types, config
<1>2. Structure'
  BY <1>0, <1>1, SteadyStep
<1>3. ASSUME NEW id \in Ids PROVE CallsOf(id)'
  <2>1. ASSUME NEW v \in Workers, Busy(v, id)'
        PROVE  Busy(v, id) /\ MayGo(worker'[v].stage, v, id)
    <3>1. CASE v # w
      BY <1>0, <2>1, <3>1, SameBusy DEF MayGo
    <3>2. CASE v = w
      <4>1. worker'[w].stage \in Handling /\ Item(w)' = id
        BY <2>1, <3>2 DEF Busy
      <4>2. Item(w)' = Item(w)
        BY <1>0, <4>1, SameItem
      <4> QED
        BY <3>2, <4>1, <4>2 DEF Busy
    <3> QED
      BY <3>1, <3>2
  <2>2. CallsOf(id)
    BY DEF DeliveryInv
  <2> QED
    BY <1>0, <2>1, <2>2, SameThreads, CallsKept
<1> QED
  BY <1>2, <1>3 DEF DeliveryInv

(* A thread grows by a comment.                                            *)
LEMMA Growth ==
  ASSUME Types, NEW t \in Twins, NEW e \in Ids \cup {User},
         thread' = [thread EXCEPT ![t] = Append(@, e)]
  PROVE  /\ thread' \in [Twins -> Seq(Ids \cup {User})]
         /\ \A u \in Twins : /\ Len(thread[u]) \in Nat /\ Len(thread'[u]) \in Nat
                             /\ Len(thread[u]) <= Len(thread'[u])
                             /\ \A i \in 1 .. Len(thread[u]) : thread'[u][i] = thread[u][i]
                             /\ \A i \in 1 .. Len(thread'[u]) :
                                  i \in 1 .. Len(thread[u]) \/ (u = t /\ thread'[u][i] = e)
         /\ \A id \in Ids : id # e => (HasCopy(id)' <=> HasCopy(id)) /\ Copies(id)' = Copies(id)
         /\ e \in Ids /\ Target(e) = t => /\ HasCopy(e)'
                                          /\ ~HasCopy(e) => Copies(e)' = {Len(thread[t]) + 1}
<1> DEFINE s == thread[t]
           k == Append(s, e)
           X == Ids \cup {User}
<1>1. s \in Seq(X)
  BY DEF Types
<1>2. /\ k \in Seq(X)
      /\ Len(s) \in Nat /\ Len(k) = Len(s) + 1
      /\ DOMAIN s = 1 .. Len(s) /\ DOMAIN k = 1 .. Len(s) + 1
      /\ \A i \in 1 .. Len(s) : k[i] = s[i]
      /\ k[Len(s) + 1] = e
  BY <1>1, Appending
<1>3. thread'[t] = k /\ \A u \in Twins \ {t} : thread'[u] = thread[u]
  BY DEF Types
<1>4. \A u \in Twins : thread[u] \in Seq(X) /\ Len(thread[u]) \in Nat
                       /\ DOMAIN thread[u] = 1 .. Len(thread[u])
  BY DEF Types
<1>5. thread' \in [Twins -> Seq(X)]
  <2>1. k \in Seq(X)
    BY <1>2
  <2> HIDE DEF k, X
  <2> QED
    BY <2>1 DEF Types, k, X
<1> HIDE DEF s, k
<1>6. ASSUME NEW u \in Twins
      PROVE  /\ Len(thread[u]) \in Nat /\ Len(thread'[u]) \in Nat
             /\ Len(thread[u]) <= Len(thread'[u])
             /\ \A i \in 1 .. Len(thread[u]) : thread'[u][i] = thread[u][i]
             /\ \A i \in 1 .. Len(thread'[u]) :
                  i \in 1 .. Len(thread[u]) \/ (u = t /\ thread'[u][i] = e)
  <2>1. CASE u = t
    BY <1>2, <1>3, <2>1 DEF s
  <2>2. CASE u # t
    BY <1>3, <1>4, <2>2
  <2> QED
    BY <2>1, <2>2
<1>7. ASSUME NEW id \in Ids, id # e
      PROVE  (HasCopy(id)' <=> HasCopy(id)) /\ Copies(id)' = Copies(id)
  <2>1. Target(id) \in Twins
    BY Identities
  <2>2. CASE Target(id) = t
    <3>1. \A i \in 1 .. Len(s) + 1 : i \in 1 .. Len(s) \/ i = Len(s) + 1
      BY <1>2
    <3>2. \A i \in DOMAIN k : k[i] = id <=> i \in DOMAIN s /\ s[i] = id
      BY <1>2, <1>7, <3>1
    <3>3. \A i \in DOMAIN s : i \in DOMAIN k
      BY <1>2
    <3> QED
      BY <1>3, <2>2, <3>2, <3>3 DEF HasCopy, Copies, s
  <2>3. CASE Target(id) # t
    BY <1>3, <2>1, <2>3 DEF HasCopy, Copies
  <2> QED
    BY <2>2, <2>3
<1>8. ASSUME e \in Ids, Target(e) = t
      PROVE  HasCopy(e)' /\ (~HasCopy(e) => Copies(e)' = {Len(thread[t]) + 1})
  <2>1. Len(s) + 1 \in DOMAIN k
    BY <1>2
  <2>2. HasCopy(e)'
    BY <1>2, <1>3, <1>8, <2>1 DEF HasCopy
  <2>3. ASSUME ~HasCopy(e) PROVE Copies(e)' = {Len(s) + 1}
    <3>1. \A i \in 1 .. Len(s) : s[i] # e
      BY <1>2, <1>8, <2>3 DEF HasCopy, s
    <3>2. \A i \in 1 .. Len(s) + 1 : i \in 1 .. Len(s) \/ i = Len(s) + 1
      BY <1>2
    <3>3. \A i \in DOMAIN k : k[i] = e <=> i = Len(s) + 1
      BY <1>2, <3>1, <3>2
    <3> QED
      BY <1>3, <1>8, <2>1, <3>3 DEF Copies
  <2> QED
    BY <2>2, <2>3 DEF s
<1> QED
  BY <1>5, <1>6, <1>7, <1>8

(* Steps that touch no row, no thread and no worker.                       *)
LEMMA IdleStep ==
  ASSUME DeliveryInv, Types', UNCHANGED <<thread, stored, delivery, planned, worker, late>>
  PROVE  DeliveryInv'
<1>1. Structure'
  BY SteadyStep DEF DeliveryInv
<1>2. ASSUME NEW id \in Ids PROVE CallsOf(id)'
  <2>1. \A v \in Workers : Busy(v, id)' => Busy(v, id) /\ MayGo(worker'[v].stage, v, id)
    BY SameBusy DEF DeliveryInv, MayGo
  <2> QED
    BY <2>1, SameThreads, CallsKept DEF DeliveryInv, Structure
<1> QED
  BY <1>1, <1>2 DEF DeliveryInv

(* Steps that write one comment.                                           *)
LEMMA GrowStep ==
  ASSUME Structure, Types', NEW t \in Twins, NEW e \in Ids \cup {User},
         e # User => delivery[e].status # "none" /\ Target(e) = t,
         thread' = [thread EXCEPT ![t] = Append(@, e)],
         UNCHANGED <<stored, planned, delivery>>,
         \A v \in Workers : worker'[v] = worker[v] \/ Doable(worker'[v])
  PROVE  Structure'
<1>1. \A u \in Twins : /\ Len(thread[u]) \in Nat /\ Len(thread'[u]) \in Nat
                       /\ Len(thread[u]) <= Len(thread'[u])
                       /\ \A i \in 1 .. Len(thread[u]) : thread'[u][i] = thread[u][i]
                       /\ \A i \in 1 .. Len(thread'[u]) :
                            i \in 1 .. Len(thread[u]) \/ (u = t /\ thread'[u][i] = e)
  BY Growth DEF Structure
<1>2. \A u \in Twins : DOMAIN thread[u] = 1 .. Len(thread[u])
                      /\ DOMAIN thread'[u] = 1 .. Len(thread'[u])
  BY DEF Structure, Types
<1>3. Planning'
  BY DEF Structure, Planning
<1>4. Threads'
  <2> SUFFICES ASSUME NEW u \in Twins, NEW i \in DOMAIN thread'[u], thread'[u][i] # User
               PROVE  delivery[thread'[u][i]].status # "none" /\ Target(thread'[u][i]) = u
    BY DEF Threads
  <2>1. CASE i \in 1 .. Len(thread[u])
    BY <1>1, <1>2, <2>1 DEF Structure, Threads
  <2>2. CASE u = t /\ thread'[u][i] = e
    BY <2>2
  <2> QED
    BY <1>1, <1>2, <2>1, <2>2
<1>5. StoredByUsers'
  <2> SUFFICES ASSUME NEW r \in stored
               PROVE  r[2] \in DOMAIN thread'[r[1]] /\ thread'[r[1]][r[2]] = User
    BY DEF StoredByUsers
  <2>1. r[1] \in Twins
    BY Identities DEF Structure, Types
  <2>2. r[2] \in 1 .. Len(thread[r[1]]) /\ thread[r[1]][r[2]] = User
    BY <1>2, <2>1 DEF Structure, StoredByUsers
  <2>3. r[2] \in 1 .. Len(thread'[r[1]])
    BY <1>1, <2>1, <2>2
  <2> QED
    BY <1>1, <1>2, <2>1, <2>2, <2>3
<1>6. Todo'
  <2> SUFFICES ASSUME NEW v \in Workers PROVE Doable(worker[v])'
    BY DEF Todo
  <2>1. Doable(worker'[v])
    BY DEF Structure, Todo
  <2>2. worker'[v] \in WorkerType
    BY DEF Types
  <2>3. ASSUME worker'[v].twin \in Twins, NEW x \in worker'[v].todo,
               x.at <= Len(thread[worker'[v].twin])
        PROVE  x.at <= Len(thread'[worker'[v].twin])
    <3>1. x.at \in Nat
      BY <2>2 DEF WorkerType, Tasks
    <3> QED
      BY <1>1, <2>3, <3>1
  <2> QED
    BY <2>1, <2>3 DEF Doable
<1> QED
  BY <1>3, <1>4, <1>5, <1>6 DEF Structure

(* A user comments.                                                        *)
LEMMA CommentKeeps ==
  ASSUME DeliveryInv, NEW t \in Twins, Comment(t)
  PROVE  DeliveryInv'
<1>0. /\ thread' = [thread EXCEPT ![t] = Append(@, User)]
      /\ UNCHANGED <<tables, config, worker, late>> /\ budget' \in SUBSET budget
  BY DEF Comment, Suffer
<1>1. Structure /\ Types
  BY DEF DeliveryInv, Structure
<1>2. Types'
  BY <1>0, <1>1, Growth DEF Types, tables, config
<1>3. Structure'
  BY <1>0, <1>1, <1>2, GrowStep DEF tables
<1>4. ASSUME NEW id \in Ids PROVE CallsOf(id)'
  <2>1. (HasCopy(id)' <=> HasCopy(id)) /\ Copies(id)' = Copies(id)
    <3>1. id # User /\ User \in Ids \cup {User}
      BY Identities
    <3>2. \A i \in Ids : i # User => (HasCopy(i)' <=> HasCopy(i)) /\ Copies(i)' = Copies(i)
      BY <1>0, <1>1, <3>1, Growth, Zenon
    <3> QED
      BY <3>1, <3>2
  <2>2. Len(thread[Target(id)]) > PageLimit => Len(thread'[Target(id)]) > PageLimit
    BY <1>0, <1>1, Growth, Identities, LimitAssumption
  <2>3. \A v \in Workers : Busy(v, id)' => Busy(v, id) /\ MayGo(worker'[v].stage, v, id)
    BY <1>0, <1>1, SameBusy DEF MayGo, tables
  <2> QED
    BY <1>0, <1>1, <2>1, <2>2, <2>3, CallsKept DEF DeliveryInv, tables
<1> QED
  BY <1>3, <1>4 DEF DeliveryInv

(* A copy is written: by a push, whatever becomes of its answer, or by one *)
(* whose process stops.                                                    *)
LEMMA WriteKeeps ==
  ASSUME DeliveryInv, NEW w \in Workers, worker[w].stage = "push", Write(Item(w)),
         UNCHANGED <<stored, delivery, planned, config, late>>, budget' \in SUBSET Troubles,
         worker' \in [Workers -> WorkerType],
         \A v \in Workers \ {w} : worker'[v] = worker[v],
         Doable(worker'[w]),
         worker'[w].stage \in Handling =>
           worker'[w].todo = worker[w].todo /\ worker'[w].stage \in {"retry", "record"}
  PROVE  DeliveryInv'
<1>1. Structure /\ Types
  BY DEF DeliveryInv, Structure
<1>0. PICK x \in Ids : x = Item(w)
  BY <1>1, ItemFacts DEF Handling
<1>2. x \in Ids /\ delivery[x].status # "none" /\ Target(x) \in Twins /\ Busy(w, x)
  BY <1>0, <1>1, ItemFacts, Identities DEF Handling, Busy
<1>3. thread' = [thread EXCEPT ![Target(x)] = Append(@, x)]
  BY <1>0 DEF Write
<1>4. Types'
  BY <1>1, <1>2, <1>3, Growth DEF Types, config
<1>5. Structure'
  BY <1>1, <1>2, <1>3, <1>4, GrowStep
<1>6. ASSUME NEW v \in Workers, NEW id \in Ids, Busy(v, id)'
      PROVE  /\ Busy(v, id)
             /\ v # w => worker'[v].stage = worker[v].stage
             /\ v = w => worker'[w].stage \in {"retry", "record"} /\ id = x
  <2>1. CASE v # w
    BY <1>1, <1>6, <2>1, SameBusy
  <2>2. CASE v = w
    <3>1. worker'[w].stage \in Handling /\ Item(w)' = id
      BY <1>6, <2>2 DEF Busy
    <3>2. Item(w)' = Item(w)
      BY <1>1, <3>1, SameItem DEF Handling
    <3> QED
      BY <1>0, <1>2, <2>2, <3>1, <3>2
  <2> QED
    BY <2>1, <2>2
<1>7. \A u \in Twins : /\ Len(thread[u]) \in Nat /\ Len(thread'[u]) \in Nat
                       /\ Len(thread[u]) <= Len(thread'[u])
  BY <1>1, <1>2, <1>3, Growth
<1>8. ASSUME NEW id \in Ids, id # x PROVE CallsOf(id)'
  <2>1. (HasCopy(id)' <=> HasCopy(id)) /\ Copies(id)' = Copies(id)
    <3>1. x \in Ids \cup {User} /\ Target(x) \in Twins
      BY <1>2
    <3>2. \A i \in Ids : i # x => (HasCopy(i)' <=> HasCopy(i)) /\ Copies(i)' = Copies(i)
      BY <1>1, <1>3, <3>1, Growth, Zenon
    <3> QED
      BY <1>8, <3>2
  <2>2. Len(thread[Target(id)]) > PageLimit => Len(thread'[Target(id)]) > PageLimit
    BY <1>7, Identities, LimitAssumption
  <2>3. \A v \in Workers : Busy(v, id)' => Busy(v, id) /\ MayGo(worker'[v].stage, v, id)
    BY <1>6, <1>8 DEF MayGo
  <2> QED
    BY <1>1, <2>1, <2>2, <2>3, CallsKept DEF DeliveryInv
<1>9. CallsOf(x)'
  <2>1. CallsOf(x) /\ delivery'[x] = delivery[x] /\ (x \in late' <=> x \in late)
    BY <1>2 DEF DeliveryInv
  <2>2. HasCopy(x)' /\ (~HasCopy(x) => Copies(x)' = {Len(thread[Target(x)]) + 1})
    BY <1>1, <1>2, <1>3, Growth
  <2>3. Held(x)'
    BY <1>2, <1>6, <2>1 DEF CallsOf, Held
  <2>4. Unwritten(x)'
    <3> SUFFICES ASSUME NEW v \in Workers, Busy(v, x)', worker'[v].stage = "push", x \notin late
                 PROVE  FALSE
      BY <2>1 DEF Unwritten
    <3>1. v # w /\ Busy(v, x)
      BY <1>2, <1>6
    <3>2. delivery[x].owner = v /\ delivery[x].owner = w
      BY <1>2, <2>1, <3>1 DEF CallsOf, Held
    <3> QED
      BY <3>1, <3>2
  <2>5. Written(x)'
    BY <2>2 DEF Written
  <2>6. delivery[x].attempts \in Nat /\ delivery[x].attempts >= 1
    <3>1. MayWrite(w, x)
      BY <1>2 DEF MayWrite
    <3> QED
      BY <1>1, <1>2, <2>1, <3>1 DEF CallsOf, Spent, Types, DeliveryType
  <2>7. Spent(x)'
    <3>1. \A v \in Workers : /\ MayWrite(v, x)' => MayWrite(v, x)
                             /\ MayGiveBack(v, x)' => MayGiveBack(v, x) /\ v # w
      BY <1>2, <1>6 DEF MayWrite, MayGiveBack
    <3>2. MayWrite(w, x)
      BY <1>2 DEF MayWrite
    <3>3. \A v \in Workers : MayGiveBack(v, x)' /\ delivery[x].owner = v => delivery[x].attempts >= 2
      BY <2>1, <3>1, <3>2 DEF CallsOf, Spent
    <3> QED
      BY <2>1, <2>6, <3>3 DEF Spent
  <2>8. Single(x)'
    <3>1. CASE x \in late \/ Len(thread[Target(x)]) > PageLimit
      BY <1>2, <1>7, <2>1, <3>1, LimitAssumption DEF Single
    <3>2. CASE x \notin late /\ ~(Len(thread[Target(x)]) > PageLimit)
      <4>1. ~HasCopy(x)
        BY <1>2, <2>1, <3>2 DEF CallsOf, Unwritten
      <4> QED
        BY <2>2, <4>1 DEF Single
    <3> QED
      BY <3>1, <3>2
  <2>9. Honest(x)'
    BY <2>1, <2>2, <2>6 DEF Honest
  <2> QED
    BY <2>3, <2>4, <2>5, <2>7, <2>8, <2>9 DEF CallsOf
<1> QED
  BY <1>5, <1>8, <1>9 DEF DeliveryInv
-----------------------------------------------------------------------------
(* Steps that change the row of one delivery: what is to be shown is that  *)
(* it still goes with its thread and with the workers that are at it.      *)
LEMMA RowStep ==
  ASSUME DeliveryInv, UNCHANGED <<thread, stored, planned, config>>,
         NEW x \in Ids, NEW row \in DeliveryType,
         row.status = "none" <=> delivery[x].status = "none",
         delivery' = [delivery EXCEPT ![x] = row],
         late \subseteq late', late' \in SUBSET Ids, budget' \in SUBSET Troubles,
         worker' \in [Workers -> WorkerType],
         \A v \in Workers : worker'[v] = worker[v] \/ Doable(worker'[v]),
         \A v \in Workers : \A id \in Ids \ {x} :
            Busy(v, id)' => Busy(v, id) /\ worker'[v].stage = worker[v].stage,
         CallsOf(x)'
  PROVE  DeliveryInv'
<1>1. Structure /\ Types
  BY DEF DeliveryInv, Structure
<1>2. /\ delivery' \in [Ids -> DeliveryType] /\ delivery'[x] = row
      /\ \A id \in Ids \ {x} : delivery'[id] = delivery[id]
  BY <1>1 DEF Types
<1>3. Types'
  BY <1>1, <1>2 DEF Types, config
<1>4. Structure'
  BY <1>1, <1>2, <1>3, SteadyStep
<1>5. ASSUME NEW id \in Ids \ {x} PROVE CallsOf(id)'
  <2>1. \A v \in Workers : Busy(v, id)' => Busy(v, id) /\ MayGo(worker'[v].stage, v, id)
    BY DEF MayGo
  <2> QED
    BY <1>1, <1>2, <2>1, SameThreads, CallsKept DEF DeliveryInv
<1> QED
  BY <1>4, <1>5 DEF DeliveryInv

(* Who is still at which delivery when worker w goes on to its next item.  *)
LEMMA OthersStay ==
  ASSUME Structure, planned' = planned, NEW w \in Workers, worker'[w].stage \notin Handling,
         \A v \in Workers \ {w} : worker'[v] = worker[v]
  PROVE  \A v \in Workers : \A id \in Ids :
           Busy(v, id)' => v # w /\ Busy(v, id) /\ worker'[v].stage = worker[v].stage
<1> SUFFICES ASSUME NEW v \in Workers, NEW id \in Ids, Busy(v, id)'
             PROVE  v # w /\ Busy(v, id) /\ worker'[v].stage = worker[v].stage
  OBVIOUS
<1>1. v # w
  BY DEF Busy
<1> QED
  BY <1>1, SameBusy

(* A worker concludes what it did, unless it has lost its claim.           *)
LEMMA ConcludeKeeps ==
  ASSUME DeliveryInv, NEW w \in Workers,
         worker[w].stage \in {"record", "retry", "give up", "defer"},
         NEW row \in DeliveryType, Conclude(w, row),
         row.owner = Nobody, row.status # "none",
         row.status = "executed" => worker[w].stage = "record",
         \/ row.attempts = delivery[Item(w)].attempts
         \/ /\ worker[w].stage = "defer"
            /\ row.attempts = delivery[Item(w)].attempts - 1
         \/ row.attempts = 0 /\ delivery[Item(w)].attempts = 0
  PROVE  DeliveryInv'
<1>1. Structure /\ Types
  BY DEF DeliveryInv, Structure
<1>2. PICK x \in Ids : x = Item(w)
  BY <1>1, ItemFacts DEF Handling
<1>3. delivery[x].status # "none" /\ Busy(w, x)
  BY <1>1, <1>2, ItemFacts DEF Handling, Busy
<1>4. NextItem(w) /\ UNCHANGED <<thread, stored, planned, config, late, budget>>
  BY DEF Conclude
<1>5. /\ worker' \in [Workers -> WorkerType]
      /\ \A v \in Workers \ {w} : worker'[v] = worker[v]
      /\ worker'[w].stage \notin Handling
      /\ Doable(worker'[w])
  BY <1>1, <1>4, NextItemFacts DEF Handling
<1>6. CASE ~Mine(w)
  <2>1. delivery' = delivery
    BY <1>6 DEF Conclude
  <2>2. budget' \in SUBSET Troubles
    BY <1>1, <1>4 DEF Types
  <2> QED
    BY <1>4, <1>5, <2>1, <2>2, MoveStep
<1>7. CASE Mine(w)
  <2>1. delivery' = [delivery EXCEPT ![x] = row] /\ delivery'[x] = row
    BY <1>1, <1>2, <1>7 DEF Conclude, Types
  <2>2. delivery[x].owner = w
    BY <1>2, <1>7 DEF Mine
  <2>3. CallsOf(x)
    BY DEF DeliveryInv
  <2>4. \A v \in Workers : \A id \in Ids :
          Busy(v, id)' => v # w /\ Busy(v, id) /\ worker'[v].stage = worker[v].stage
    BY <1>1, <1>4, <1>5, OthersStay
  <2>5. (HasCopy(x)' <=> HasCopy(x)) /\ Copies(x)' = Copies(x)
    BY <1>4, SameThreads
  <2>6. delivery[x].attempts \in Nat /\ row.attempts \in Nat
    BY <1>1 DEF Types, DeliveryType
  <2>7. Held(x)'
    BY <1>3, <1>4, <2>2, <2>3, <2>4 DEF CallsOf, Held
  <2>8. Unwritten(x)' /\ Written(x)' /\ Single(x)'
    BY <1>4, <2>3, <2>4, <2>5 DEF CallsOf, Unwritten, Written, Single
  <2>9. \A v \in Workers : MayWrite(v, x)' => MayWrite(v, x) /\ v # w
    BY <2>4 DEF MayWrite
  <2>10. /\ HasCopy(x) => row.attempts >= 1
         /\ \A v \in Workers \ {w} : MayWrite(v, x) => row.attempts >= 1
    <3>1. CASE row.attempts = delivery[x].attempts
      BY <2>3, <3>1 DEF CallsOf, Spent, Honest
    <3>2. CASE worker[w].stage = "defer" /\ row.attempts = delivery[x].attempts - 1
      <4>1. MayGiveBack(w, x)
        BY <1>3, <3>2 DEF MayGiveBack
      <4>2. HasCopy(x) \/ (\E v \in Workers \ {w} : MayWrite(v, x)) => delivery[x].attempts >= 2
        BY <2>2, <2>3, <4>1 DEF CallsOf, Spent
      <4> QED
        BY <2>6, <3>2, <4>2
    <3>3. CASE row.attempts = 0 /\ delivery[x].attempts = 0
      BY <2>3, <3>3 DEF CallsOf, Spent, Honest
    <3> QED
      BY <1>2, <3>1, <3>2, <3>3
  <2>11. Spent(x)'
    <3>1. \A v \in Workers : row.owner # v
      BY WorkerAssumption
    <3> QED
      BY <2>1, <2>9, <2>10, <3>1 DEF Spent
  <2>12. Honest(x)'
    <3>1. row.status = "executed" => HasCopy(x)
      BY <1>3, <2>3 DEF CallsOf, Written
    <3> QED
      BY <2>1, <2>5, <2>10, <3>1 DEF Honest
  <2>13. CallsOf(x)'
    BY <2>7, <2>8, <2>11, <2>12 DEF CallsOf
  <2>14. late' \in SUBSET Ids /\ budget' \in SUBSET Troubles
    BY <1>1, <1>4 DEF Types
  <2> QED
    BY <1>3, <1>4, <1>5, <2>1, <2>4, <2>13, <2>14, RowStep
<1> QED
  BY <1>6, <1>7

(* The three ways to conclude: done, failed, deferred.                     *)
LEMMA RecordKeeps ==
  ASSUME DeliveryInv, NEW w \in Workers, Record(w) \/ Fail(w) \/ Defer(w)
  PROVE  DeliveryInv'
<1> DEFINE old == delivery[Item(w)]
<1>1. worker[w].stage \in {"record", "retry", "give up", "defer"}
  BY DEF Record, Fail, Defer
<1>2. old \in DeliveryType
  BY <1>1, ItemFacts DEF DeliveryInv, Structure, Types, Handling
<1>3. /\ Released(w) \in DeliveryType /\ Released(w).owner = Nobody
      /\ Released(w).attempts = old.attempts /\ old.attempts \in Nat
  BY <1>2 DEF Released, DeliveryType
<1> HIDE DEF old
<1>4. CASE Record(w)
  <2> DEFINE row == [Released(w) EXCEPT !.status = "executed", !.wait = FALSE]
  <2>1. /\ row \in DeliveryType /\ row.owner = Nobody /\ row.status = "executed"
        /\ row.attempts = old.attempts
    BY <1>3 DEF DeliveryType
  <2>2. Conclude(w, row) /\ worker[w].stage = "record"
    BY <1>4 DEF Record
  <2> HIDE DEF row
  <2> QED
    BY <1>1, <2>1, <2>2, ConcludeKeeps DEF old
<1>5. CASE Fail(w)
  <2> DEFINE again == worker[w].stage = "retry" /\ worker[w].attempt < MaxAttempts
             row == [Released(w) EXCEPT !.status = IF again THEN "failed" ELSE "dead",
                                        !.wait = again]
  <2>1. again \in BOOLEAN
    OBVIOUS
  <2>2. Conclude(w, row)
    BY <1>5 DEF Fail
  <2> HIDE DEF again
  <2>3. /\ row \in DeliveryType /\ row.owner = Nobody /\ row.status \in {"failed", "dead"}
        /\ row.attempts = old.attempts
    BY <1>3, <2>1 DEF DeliveryType
  <2> HIDE DEF row
  <2> QED
    BY <1>1, <2>2, <2>3, ConcludeKeeps DEF old
<1>6. CASE Defer(w)
  <2> DEFINE left == IF old.attempts > 0 THEN old.attempts - 1 ELSE 0
             row == [Released(w) EXCEPT !.status = "pending", !.wait = TRUE, !.attempts = left]
  <2>1. left \in Nat /\ (left = old.attempts - 1 \/ (left = 0 /\ old.attempts = 0))
    BY <1>3
  <2>2. Conclude(w, row) /\ worker[w].stage = "defer"
    BY <1>3, <1>6 DEF Defer
  <2> HIDE DEF left
  <2>3. /\ row \in DeliveryType /\ row.owner = Nobody /\ row.status = "pending"
        /\ row.attempts = left
    BY <1>3, <2>1 DEF DeliveryType
  <2> HIDE DEF row
  <2> QED
    BY <1>1, <2>1, <2>2, <2>3, ConcludeKeeps DEF old
<1> QED
  BY <1>4, <1>5, <1>6

(* A change of a row that concerns neither its attempts nor its owner.     *)
LEMMA SameAccount ==
  ASSUME NEW x \in Ids, CallsOf(x), thread' = thread, x \in late => x \in late',
         delivery'[x].attempts = delivery[x].attempts,
         delivery'[x].owner = delivery[x].owner,
         delivery'[x].status = "executed" => delivery[x].status = "executed",
         \A v \in Workers : Busy(v, x)' => Busy(v, x) /\ worker'[v].stage = worker[v].stage,
         Held(x)'
  PROVE  CallsOf(x)'
<1>1. (HasCopy(x)' <=> HasCopy(x)) /\ Copies(x)' = Copies(x)
  BY SameThreads
<1>2. Unwritten(x)' /\ Written(x)' /\ Single(x)' /\ Honest(x)'
  BY <1>1 DEF CallsOf, Unwritten, Written, Single, Honest
<1>3. \A v \in Workers : /\ MayWrite(v, x)' => MayWrite(v, x)
                         /\ MayGiveBack(v, x)' => MayGiveBack(v, x)
  BY DEF MayWrite, MayGiveBack
<1>4. Spent(x)'
  BY <1>1, <1>3 DEF CallsOf, Spent
<1> QED
  BY <1>2, <1>4 DEF CallsOf

(* A skip changes the status alone, even under a claim of another worker.  *)
LEMMA SkipKeeps ==
  ASSUME DeliveryInv, NEW w \in Workers, Skip(w)
  PROVE  DeliveryInv'
<1>1. Structure /\ Types
  BY DEF DeliveryInv, Structure
<1>2. PICK x \in Ids : x = Item(w)
  BY <1>1, ItemFacts DEF Skip
<1>3. delivery[x].status # "none"
  BY <1>1, <1>2, ItemFacts DEF Skip
<1>4. /\ NextItem(w) /\ worker[w].stage = "item"
      /\ UNCHANGED <<thread, stored, planned, config, late, budget>>
  BY DEF Skip
<1>5. /\ worker' \in [Workers -> WorkerType]
      /\ \A v \in Workers \ {w} : worker'[v] = worker[v]
      /\ worker'[w].stage \notin Handling
      /\ Doable(worker'[w])
  BY <1>1, <1>4, NextItemFacts
<1>6. \A v \in Workers : \A id \in Ids :
        Busy(v, id)' => v # w /\ Busy(v, id) /\ worker'[v].stage = worker[v].stage
  BY <1>1, <1>4, <1>5, OthersStay
<1> DEFINE row == [delivery[x] EXCEPT !.status = "skipped"]
<1>7. /\ row \in DeliveryType /\ row.status = "skipped" /\ row.attempts = delivery[x].attempts
      /\ row.owner = delivery[x].owner /\ row.expired = delivery[x].expired
  <2>1. delivery[x] \in DeliveryType
    BY <1>1 DEF Types
  <2> QED
    BY <2>1 DEF DeliveryType
<1>8. delivery' = [delivery EXCEPT ![x] = row] /\ delivery'[x] = row
  BY <1>1, <1>2 DEF Skip, Types
<1> HIDE DEF row
<1>9. CallsOf(x)'
  <2>1. CallsOf(x)
    BY DEF DeliveryInv
  <2>2. Held(x)'
    BY <1>4, <1>6, <1>7, <1>8, <2>1 DEF CallsOf, Held
  <2> QED
    BY <1>4, <1>6, <1>7, <1>8, <2>1, <2>2, SameAccount
<1>10. late' \in SUBSET Ids /\ budget' \in SUBSET Troubles
  BY <1>1, <1>4 DEF Types
<1> QED
  BY <1>3, <1>4, <1>5, <1>6, <1>7, <1>8, <1>9, <1>10, RowStep

(* The end of a wait.                                                      *)
LEMMA BackoffKeeps ==
  ASSUME DeliveryInv, NEW x \in Ids, BackoffEnds(x)
  PROVE  DeliveryInv'
<1>1. Structure /\ Types
  BY DEF DeliveryInv, Structure
<1>2. UNCHANGED <<thread, stored, planned, config, worker, late, budget>>
  BY DEF BackoffEnds
<1>3. \A v \in Workers : \A id \in Ids : Busy(v, id)' => Busy(v, id)
  BY <1>1, <1>2, SameBusy
<1> DEFINE row == [delivery[x] EXCEPT !.wait = FALSE]
<1>4. /\ row \in DeliveryType /\ row.status = delivery[x].status
      /\ row.attempts = delivery[x].attempts
      /\ row.owner = delivery[x].owner /\ row.expired = delivery[x].expired
  <2>1. delivery[x] \in DeliveryType
    BY <1>1 DEF Types
  <2> QED
    BY <2>1 DEF DeliveryType
<1>5. delivery' = [delivery EXCEPT ![x] = row] /\ delivery'[x] = row
  BY <1>1 DEF BackoffEnds, Types
<1> HIDE DEF row
<1>6. CallsOf(x)'
  <2>1. CallsOf(x)
    BY DEF DeliveryInv
  <2>2. Held(x)'
    BY <1>2, <1>3, <1>4, <1>5, <2>1 DEF CallsOf, Held
  <2> QED
    BY <1>2, <1>3, <1>4, <1>5, <2>1, <2>2, SameAccount
<1>7. worker' \in [Workers -> WorkerType] /\ late' \in SUBSET Ids /\ budget' \in SUBSET Troubles
  BY <1>1, <1>2 DEF Types
<1> QED
  BY <1>2, <1>3, <1>4, <1>5, <1>6, <1>7, RowStep

(* A claim that expires under a live worker is late from then on.          *)
LEMMA ExpiryKeeps ==
  ASSUME DeliveryInv, NEW x \in Ids, ClaimExpires(x)
  PROVE  DeliveryInv'
<1>1. Structure /\ Types
  BY DEF DeliveryInv, Structure
<1>2. /\ UNCHANGED <<thread, stored, planned, config, worker>>
      /\ \/ late' = late \cup {x}
         \/ late' = late /\ ~Working(x)
      /\ budget' \in SUBSET budget
  BY DEF ClaimExpires, Suffer
<1>3. \A v \in Workers : \A id \in Ids : Busy(v, id)' => Busy(v, id)
  BY <1>1, <1>2, SameBusy
<1> DEFINE row == [delivery[x] EXCEPT !.expired = TRUE]
<1>4. /\ row \in DeliveryType /\ row.status = delivery[x].status
      /\ row.attempts = delivery[x].attempts /\ row.owner = delivery[x].owner
  <2>1. delivery[x] \in DeliveryType
    BY <1>1 DEF Types
  <2> QED
    BY <2>1 DEF DeliveryType
<1>5. delivery' = [delivery EXCEPT ![x] = row] /\ delivery'[x] = row
  BY <1>1 DEF ClaimExpires, Types
<1> HIDE DEF row
<1>6. CallsOf(x)'
  <2>1. CallsOf(x)
    BY DEF DeliveryInv
  <2>2. Held(x)'
    <3> SUFFICES ASSUME NEW v \in Workers, Busy(v, x), x \notin late' PROVE FALSE
      BY <1>3 DEF Held
    <3>1. delivery[x].owner = v /\ ~Working(x)
      BY <1>2, <2>1 DEF CallsOf, Held
    <3> QED
      BY <3>1 DEF Working
  <2> QED
    BY <1>2, <1>3, <1>4, <1>5, <2>1, <2>2, SameAccount
<1>7. /\ worker' \in [Workers -> WorkerType] /\ late' \in SUBSET Ids /\ late \subseteq late'
      /\ budget' \in SUBSET Troubles
  BY <1>1, <1>2 DEF Types
<1> QED
  BY <1>2, <1>3, <1>4, <1>5, <1>6, <1>7, RowStep

(* A claim succeeds on a delivery nobody is at, unless it is late.         *)
LEMMA ClaimKeeps ==
  ASSUME DeliveryInv, NEW w \in Workers, Claim(w)
  PROVE  DeliveryInv'
<1>1. Structure /\ Types
  BY DEF DeliveryInv, Structure
<1>2. PICK x \in Ids : x = Item(w)
  BY <1>1, ItemFacts DEF Claim
<1>3. /\ delivery[x] \in DeliveryType /\ delivery[x].status # "none"
      /\ delivery[x].attempts \in Nat /\ w \in Workers \cup {Nobody}
  BY <1>1, <1>2, ItemFacts DEF Claim, Types, DeliveryType
<1>4. worker[w].stage = "item" /\ UNCHANGED <<thread, stored, planned, config, late, budget>>
  BY DEF Claim
<1>5. late' \in SUBSET Ids /\ budget' \in SUBSET Troubles
  BY <1>1, <1>4 DEF Types
<1>6. CASE ~Claimable(Item(w))
  <2>1. NextItem(w) /\ UNCHANGED delivery
    BY <1>6 DEF Claim
  <2>2. /\ worker' \in [Workers -> WorkerType]
        /\ \A v \in Workers \ {w} : worker'[v] = worker[v]
        /\ worker'[w].stage \notin Handling
        /\ Doable(worker'[w])
    BY <1>1, <1>4, <2>1, NextItemFacts
  <2> QED
    BY <1>4, <1>5, <2>1, <2>2, MoveStep
<1>7. CASE Claimable(x)
  <2> DEFINE n == delivery[x].attempts + 1
             row == [delivery[x] EXCEPT !.status = "processing", !.attempts = n, !.owner = w,
                                        !.expired = FALSE]
             me == [worker[w] EXCEPT !.stage = "search", !.attempt = n]
  <2>3. /\ delivery' = [delivery EXCEPT ![x] = row]
        /\ worker' = [worker EXCEPT ![w].stage = "search", ![w].attempt = n]
    BY <1>2, <1>7 DEF Claim
  <2>0. n \in Nat
    BY <1>3
  <2> HIDE DEF n
  <2>1. /\ row \in DeliveryType /\ row.status = "processing" /\ row.owner = w /\ ~row.expired
        /\ row.attempts = n
    BY <1>3, <2>0 DEF DeliveryType
  <2>2. /\ me \in WorkerType /\ me.stage = "search" /\ me.todo = worker[w].todo
        /\ me.first = worker[w].first
    <3>1. worker[w] \in WorkerType /\ "search" \in Stages
      BY <1>1 DEF Types, Stages, Handling
    <3> QED
      BY <2>0, <3>1 DEF WorkerType
  <2>4. /\ worker' \in [Workers -> WorkerType] /\ worker'[w] = me
        /\ \A v \in Workers \ {w} : worker'[v] = worker[v]
    <3>1. worker' = [worker EXCEPT ![w] = me]
      BY <1>1, <2>3 DEF Types, WorkerType
    <3> HIDE DEF me
    <3> QED
      BY <1>1, <2>2, <3>1 DEF Types
  <2> HIDE DEF row, me
  <2>5. Doable(worker'[w])
    BY <1>1, <1>4, <2>2, <2>4 DEF Structure, Todo, Doable, Handling
  <2>6. ASSUME NEW v \in Workers, NEW id \in Ids, Busy(v, id)'
        PROVE  \/ v = w /\ id = x /\ worker'[v].stage = "search"
               \/ v # w /\ Busy(v, id) /\ worker'[v].stage = worker[v].stage
    <3>1. CASE v = w
      <4>1. Item(w)' = Item(w)
        BY <1>1, <1>4, <2>2, <2>4, SameItem
      <4> QED
        BY <1>2, <2>2, <2>4, <2>6, <3>1, <4>1 DEF Busy
    <3>2. CASE v # w
      BY <1>1, <1>4, <2>4, <2>6, <3>2, SameBusy
    <3> QED
      BY <3>1, <3>2
  <2>7. CallsOf(x)'
    <3>1. CallsOf(x) /\ late' = late
      BY <1>4 DEF DeliveryInv
    <3>0. delivery'[x] = row /\ row.attempts = delivery[x].attempts + 1
      BY <1>1, <2>1, <2>3 DEF Types, n
    <3>2. (HasCopy(x)' <=> HasCopy(x)) /\ Copies(x)' = Copies(x)
      BY <1>4, SameThreads
    <3>3. x \notin late => \A v \in Workers : ~Busy(v, x)
      BY <1>7, <3>1 DEF CallsOf, Held, Claimable
    <3>4. Held(x)'
      BY <2>1, <3>0, <2>6, <3>1, <3>3 DEF Held
    <3>5. Unwritten(x)' /\ Written(x)' /\ Single(x)'
      BY <1>4, <2>6, <3>1, <3>2 DEF CallsOf, Unwritten, Written, Single
    <3>6. \A v \in Workers : MayWrite(v, x)' => v = w \/ MayWrite(v, x)
      BY <2>6 DEF MayWrite
    <3>7. (HasCopy(x) => delivery[x].attempts >= 1)
          /\ \A v \in Workers : MayWrite(v, x) => delivery[x].attempts >= 1
      BY <3>1 DEF CallsOf, Honest, Spent
    <3>8. Spent(x)'
      <4>1. \A v \in Workers : MayWrite(v, x)' => row.attempts >= 1
        BY <1>3, <3>0
      <4>2. (HasCopy(x)' \/ \E v \in Workers \ {w} : MayWrite(v, x)') => row.attempts >= 2
        BY <1>3, <3>0, <3>2, <3>6, <3>7
      <4> QED
        BY <2>1, <3>0, <4>1, <4>2 DEF Spent
    <3>9. Honest(x)'
      BY <1>3, <2>1, <3>0 DEF Honest
    <3> QED
      BY <3>4, <3>5, <3>8, <3>9 DEF CallsOf
  <2> QED
    BY <1>3, <1>4, <1>5, <2>1, <2>3, <2>4, <2>5, <2>6, <2>7, RowStep
<1> QED
  BY <1>2, <1>6, <1>7
-----------------------------------------------------------------------------
(* A reader stores a comment only if a user wrote it.                      *)
LEMMA StoreKeeps ==
  ASSUME DeliveryInv, NEW w \in Workers, StoreComment(w)
  PROVE  DeliveryInv'
<1> DEFINE r == Post(w)
<1>1. Structure /\ Types
  BY DEF DeliveryInv, Structure
<1>2. worker[w].stage = "store" /\ UNCHANGED <<thread, delivery, planned, config, late, budget>>
  BY DEF StoreComment
<1>3. budget' \in SUBSET Troubles /\ late' \in SUBSET Ids
  BY <1>1, <1>2 DEF Types
<1>4. CASE ~policy[r[1]].permit \/ IsEcho(r[1], r[2])
  <2>1. NextItem(w) /\ UNCHANGED stored
    BY <1>4 DEF StoreComment
  <2>2. /\ worker' \in [Workers -> WorkerType]
        /\ \A v \in Workers \ {w} : worker'[v] = worker[v]
        /\ worker'[w].stage \notin Handling
        /\ Doable(worker'[w])
    BY <1>1, <1>2, <2>1, NextItemFacts
  <2> QED
    BY <1>2, <1>3, <2>1, <2>2, MoveStep
<1>5. CASE ~(~policy[r[1]].permit \/ IsEcho(r[1], r[2]))
  <2>1. stored' = stored \cup {r} /\ worker' = [worker EXCEPT ![w].stage = "plan"]
    BY <1>5 DEF StoreComment
  <2>2. /\ worker[w].twin \in Twins /\ r \in Posts /\ r[1] = worker[w].twin
        /\ r[2] \in DOMAIN thread[worker[w].twin]
    BY <1>1, <1>2, PostFacts
  <2>3. thread[r[1]][r[2]] = User
    <3>1. ~IsEcho(r[1], r[2])
      BY <1>5
    <3> HIDE DEF r
    <3> QED
      BY <1>1, <2>2, <3>1 DEF IsEcho, Structure, Threads
  <2>4. "plan" \in Stages /\ "plan" \notin Handling
    BY DEF Stages, Handling
  <2>5. /\ worker' \in [Workers -> WorkerType]
        /\ \A v \in Workers \ {w} : worker'[v] = worker[v]
        /\ worker'[w].stage = "plan" /\ worker'[w].todo = worker[w].todo
        /\ worker'[w].first = worker[w].first /\ worker'[w].twin = worker[w].twin
    BY <1>1, <2>1, <2>4, GotoFacts
  <2>6. Types'
    BY <1>1, <1>2, <2>1, <2>2, <2>5 DEF Types, config
  <2> HIDE DEF r
  <2>7. StoredByUsers'
    BY <1>1, <1>2, <2>1, <2>2, <2>3 DEF Structure, StoredByUsers
  <2>8. Planning' /\ Threads'
    BY <1>1, <1>2 DEF Structure, Planning, Threads
  <2>9. Todo'
    <3> SUFFICES ASSUME NEW v \in Workers PROVE Doable(worker[v])'
      BY DEF Todo
    <3>1. Doable(worker[v])
      BY <1>1 DEF Structure, Todo
    <3>2. CASE v = w
      BY <1>2, <2>5, <3>1, <3>2, <2>4 DEF Doable
    <3>3. CASE v # w
      BY <1>2, <2>5, <3>1, <3>3 DEF Doable
    <3> QED
      BY <3>2, <3>3
  <2>10. ASSUME NEW id \in Ids PROVE CallsOf(id)'
    <3>1. \A v \in Workers : Busy(v, id)' => Busy(v, id) /\ MayGo(worker'[v].stage, v, id)
      BY <1>1, <1>2, <2>4, <2>5, OthersStay DEF MayGo
    <3>2. CallsOf(id)
      BY DEF DeliveryInv
    <3> QED
      BY <1>1, <1>2, <3>1, <3>2, SameThreads, CallsKept
  <2> QED
    BY <2>6, <2>7, <2>8, <2>9, <2>10 DEF DeliveryInv, Structure
<1> QED
  BY <1>4, <1>5

(* Two sequences without repetition, and without a common element, one     *)
(* after the other.                                                        *)
LEMMA Concatenation ==
  ASSUME NEW S, NEW p \in Seq(S), NEW q \in Seq(S),
         IsInjective(p), IsInjective(q), Range(p) \cap Range(q) = {}
  PROVE  /\ p \o q \in Seq(S) /\ IsInjective(p \o q)
         /\ Range(p \o q) = Range(p) \cup Range(q)
         /\ Len(p) \in Nat /\ Len(p \o q) \in Nat /\ Len(p) <= Len(p \o q)
         /\ \A k \in 1 .. Len(p) : (p \o q)[k] = p[k]
<1> DEFINE s == p \o q
<1>1. /\ s \in Seq(S) /\ Len(p) \in Nat /\ Len(q) \in Nat /\ Len(s) = Len(p) + Len(q)
      /\ DOMAIN p = 1 .. Len(p) /\ DOMAIN q = 1 .. Len(q) /\ DOMAIN s = 1 .. Len(s)
      /\ \A k \in 1 .. Len(p) : s[k] = p[k]
      /\ \A k \in 1 .. Len(q) : s[Len(p) + k] = q[k]
  OBVIOUS
<1> HIDE DEF s
<1>2. \A k \in 1 .. Len(s) : k \in 1 .. Len(p) \/ (k - Len(p) \in 1 .. Len(q) /\ s[k] = q[k - Len(p)])
  <2> SUFFICES ASSUME NEW k \in 1 .. Len(s), k \notin 1 .. Len(p)
               PROVE  k - Len(p) \in 1 .. Len(q) /\ s[k] = q[k - Len(p)]
    OBVIOUS
  <2>1. k - Len(p) \in 1 .. Len(q) /\ Len(p) + (k - Len(p)) = k
    BY <1>1
  <2> QED
    BY <1>1, <2>1
<1>3. \A k \in 1 .. Len(p) : k \in DOMAIN s
  BY <1>1
<1>4. \A k \in 1 .. Len(q) : Len(p) + k \in DOMAIN s
  BY <1>1
<1>5. Range(s) = Range(p) \cup Range(q)
  <2>1. Range(s) \subseteq Range(p) \cup Range(q)
    BY <1>1, <1>2 DEF Range
  <2>2. Range(p) \subseteq Range(s)
    BY <1>1, <1>3 DEF Range
  <2>3. Range(q) \subseteq Range(s)
    <3> SUFFICES ASSUME NEW k \in DOMAIN q PROVE q[k] \in Range(s)
      BY DEF Range
    <3>1. s[Len(p) + k] = q[k] /\ Len(p) + k \in DOMAIN s
      BY <1>1, <1>4
    <3> QED
      BY <3>1 DEF Range
  <2> QED
    BY <2>1, <2>2, <2>3
<1>6. IsInjective(s)
  <2>1. \A i \in DOMAIN p, j \in DOMAIN q : p[i] # q[j]
    BY DEF Range
  <2> SUFFICES ASSUME NEW i \in 1 .. Len(s), NEW j \in 1 .. Len(s), s[i] = s[j] PROVE i = j
    BY <1>1 DEF IsInjective
  <2>2. CASE i \in 1 .. Len(p) /\ j \in 1 .. Len(p)
    BY <1>1, <2>2 DEF IsInjective
  <2>3. CASE i \in 1 .. Len(p) /\ j \notin 1 .. Len(p)
    <3>1. i \in DOMAIN p /\ s[i] = p[i]
      BY <1>1, <2>3
    <3>2. j - Len(p) \in DOMAIN q /\ s[j] = q[j - Len(p)]
      BY <1>1, <1>2, <2>3
    <3> QED
      BY <2>1, <3>1, <3>2
  <2>4. CASE i \notin 1 .. Len(p) /\ j \in 1 .. Len(p)
    <3>1. j \in DOMAIN p /\ s[j] = p[j]
      BY <1>1, <2>4
    <3>2. i - Len(p) \in DOMAIN q /\ s[i] = q[i - Len(p)]
      BY <1>1, <1>2, <2>4
    <3> QED
      BY <2>1, <3>1, <3>2
  <2>5. CASE i \notin 1 .. Len(p) /\ j \notin 1 .. Len(p)
    <3>1. i - Len(p) \in DOMAIN q /\ j - Len(p) \in DOMAIN q /\ q[i - Len(p)] = q[j - Len(p)]
      BY <1>1, <1>2, <2>5
    <3>2. i - Len(p) = j - Len(p)
      BY <3>1 DEF IsInjective
    <3> QED
      BY <1>1, <3>2
  <2> QED
    BY <2>2, <2>3, <2>4, <2>5
<1> QED
  BY <1>1, <1>5, <1>6 DEF s

(* Planning adds a row for each counterpart that has none: nobody is at    *)
(* it, and no thread has its copy.                                         *)
LEMMA PlanKeeps ==
  ASSUME DeliveryInv, NEW w \in Workers, Plan(w)
  PROVE  DeliveryInv'
<1> DEFINE r == Post(w)
           new == {<<r, u>> : u \in {t \in Counterparts[r[1]] : policy[t].write}} \ Range(planned)
           row == [Unplanned EXCEPT !.status = "pending"]
<1>1. Structure /\ Types
  BY DEF DeliveryInv, Structure
<1>2. /\ worker[w].stage = "plan" /\ UNCHANGED <<thread, stored, config, late, budget>>
      /\ delivery' = [id \in Ids |-> IF id \in new THEN row ELSE delivery[id]]
      /\ planned' = planned \o SetToSeq(new)
      /\ NextItem(w)
  BY DEF Plan
<1>3. new \subseteq Ids /\ Range(planned) \cap new = {}
  BY <1>1, <1>2, PostFacts, Identities
<1>4. row \in DeliveryType /\ row.status = "pending" /\ row.attempts = 0
  BY DEF Unplanned, DeliveryType
<1> HIDE DEF new, row
<1>5. /\ SetToSeq(new) \in Seq(Ids) /\ IsInjective(SetToSeq(new)) /\ Range(SetToSeq(new)) = new
  <2>1. IsFiniteSet(new)
    BY <1>3, IdsAreFinite, FS_Subset
  <2>2. SetToSeq(new) \in Seq(new) /\ IsInjective(SetToSeq(new)) /\ Range(SetToSeq(new)) = new
    BY <2>1, SomeOrder
  <2> QED
    BY <1>3, <2>2
<1>6. /\ planned' \in Seq(Ids) /\ IsInjective(planned')
      /\ Range(planned') = Range(planned) \cup new
      /\ Len(planned) \in Nat /\ Len(planned') \in Nat /\ Len(planned) <= Len(planned')
      /\ \A k \in 1 .. Len(planned) : planned'[k] = planned[k]
  <2>1. planned \in Seq(Ids) /\ IsInjective(planned)
    BY <1>1 DEF Types, Structure, Planning
  <2> QED
    BY <1>2, <1>3, <1>5, <2>1, Concatenation
<1>7. \A id \in Ids : delivery'[id] = IF id \in new THEN row ELSE delivery[id]
  BY <1>2
<1>8. delivery' \in [Ids -> DeliveryType]
  BY <1>1, <1>2, <1>4 DEF Types
<1>9. /\ worker' \in [Workers -> WorkerType]
      /\ \A v \in Workers \ {w} : worker'[v] = worker[v]
      /\ worker'[w].stage \notin Handling
      /\ Doable(worker'[w])
  BY <1>1, <1>2, NextItemFacts
<1>10. Types'
  BY <1>1, <1>2, <1>6, <1>8, <1>9 DEF Types, config
<1>11. Range(planned) = {id \in Ids : delivery[id].status # "none"}
  BY <1>1 DEF Structure, Planning
<1>12. Planning'
  BY <1>3, <1>4, <1>6, <1>7, <1>11 DEF Planning
<1>13. Threads'
  <2> SUFFICES ASSUME NEW t \in Twins, NEW i \in DOMAIN thread[t], thread[t][i] # User
               PROVE  delivery'[thread[t][i]].status # "none" /\ Target(thread[t][i]) = t
    BY <1>2 DEF Threads
  <2>1. thread[t][i] \in Ids
    BY <1>1 DEF Types
  <2>2. delivery[thread[t][i]].status # "none" /\ Target(thread[t][i]) = t
    BY <1>1 DEF Structure, Threads
  <2> QED
    BY <1>4, <1>7, <2>1, <2>2
<1>14. StoredByUsers'
  BY <1>1, <1>2 DEF Structure, StoredByUsers
<1>15. Todo'
  <2> SUFFICES ASSUME NEW v \in Workers PROVE Doable(worker[v])'
    BY DEF Todo
  <2>1. Doable(worker'[v])
    BY <1>1, <1>9 DEF Structure, Todo
  <2>2. ASSUME NEW x \in worker'[v].todo, x.at <= Len(planned) PROVE x.at <= Len(planned')
    <3>1. x.at \in Nat
      BY <1>10 DEF Types, WorkerType, Tasks
    <3> QED
      BY <1>6, <2>2, <3>1
  <2> QED
    BY <1>2, <2>1, <2>2 DEF Doable
<1>16. ASSUME NEW v \in Workers, NEW id \in Ids, Busy(v, id)'
       PROVE  v # w /\ Busy(v, id) /\ worker'[v].stage = worker[v].stage
  <2>1. v # w
    BY <1>9, <1>16 DEF Busy
  <2> QED
    BY <1>1, <1>6, <1>9, <1>16, <2>1, SameBusy
<1>17. ASSUME NEW id \in Ids \ new PROVE CallsOf(id)'
  <2>1. \A v \in Workers : Busy(v, id)' => Busy(v, id) /\ MayGo(worker'[v].stage, v, id)
    BY <1>16 DEF MayGo
  <2>2. CallsOf(id) /\ delivery'[id] = delivery[id]
    BY <1>7 DEF DeliveryInv
  <2> QED
    BY <1>1, <1>2, <2>1, <2>2, SameThreads, CallsKept
<1>18. ASSUME NEW id \in new PROVE CallsOf(id)'
  <2>1. id \in Ids /\ delivery[id].status = "none" /\ delivery'[id] = row
    BY <1>3, <1>7, <1>11
  <2>2. \A v \in Workers : ~Busy(v, id)
    BY <1>1, <2>1, ItemFacts DEF Busy
  <2>3. \A v \in Workers : ~Busy(v, id)'
    BY <1>16, <2>1, <2>2
  <2>4. \A i \in DOMAIN thread[Target(id)] : thread[Target(id)][i] # id
    BY <1>1, <2>1, Identities DEF Structure, Threads
  <2>5. ~HasCopy(id)' /\ Copies(id)' = {}
    BY <1>2, <2>4 DEF HasCopy, Copies
  <2>6. Held(id)' /\ Unwritten(id)' /\ Written(id)' /\ Spent(id)'
    BY <2>3 DEF Held, Unwritten, Written, Spent, MayWrite, MayGiveBack
  <2>7. Single(id)' /\ Honest(id)'
    BY <1>4, <2>1, <2>5 DEF Single, Honest
  <2> QED
    BY <2>6, <2>7 DEF CallsOf
<1> QED
  BY <1>10, <1>12, <1>13, <1>14, <1>15, <1>17, <1>18 DEF DeliveryInv, Structure
-----------------------------------------------------------------------------
(* A worker begins something, or rests.                                    *)
LEMMA BeginKeeps ==
  ASSUME DeliveryInv, NEW w \in Workers, NEW me \in WorkerType,
         worker' = [worker EXCEPT ![w] = me], me.stage \notin Handling, Doable(me),
         UNCHANGED <<thread, tables, config, late>>, budget' \in SUBSET Troubles
  PROVE  DeliveryInv'
<1>1. Types /\ UNCHANGED <<stored, delivery, planned>>
  BY DEF DeliveryInv, Structure, tables
<1>2. /\ worker' \in [Workers -> WorkerType] /\ worker'[w] = me
      /\ \A v \in Workers \ {w} : worker'[v] = worker[v]
  BY <1>1 DEF Types
<1> QED
  BY <1>1, <1>2, MoveStep

(* A sync begins with the comments it has stored.                          *)
LEMMA CatchUpKeeps ==
  ASSUME DeliveryInv, NEW w \in Workers, NEW t \in Twins, CatchUp(w, t)
  PROVE  DeliveryInv'
<1> DEFINE known == {Task(r[2], FALSE) : r \in {s \in stored : s[1] = t}}
           stage == IF known = {} THEN "fetch" ELSE "plan"
           me == [Resting EXCEPT !.stage = stage, !.first = "plan", !.twin = t, !.todo = known]
<1>1. Structure /\ Types
  BY DEF DeliveryInv, Structure
<1>2. /\ worker' = [worker EXCEPT ![w] = me]
      /\ UNCHANGED <<thread, tables, config, late, budget>>
  BY DEF CatchUp
<1>3. \A t2 \in Twins : DOMAIN thread[t2] = 1 .. Len(thread[t2]) /\ Len(thread[t2]) \in Nat
  BY <1>1 DEF Types
<1>4. ASSUME NEW x \in known
      PROVE  x \in Tasks /\ x.at <= PageLimit /\ x.at <= Len(thread[t])
  <2>1. PICK r \in stored : r[1] = t /\ x = Task(r[2], FALSE)
    OBVIOUS
  <2>2. r[2] \in 1 .. PageLimit /\ r[2] \in 1 .. Len(thread[t])
    BY <1>1, <1>3, <2>1, Identities DEF Types, Structure, StoredByUsers
  <2> QED
    BY <1>3, <2>1, <2>2, LimitAssumption DEF Task, Tasks
<1>5. known \in SUBSET Tasks
  BY <1>4
<1>6. stage \in {"fetch", "plan"} /\ (stage = "plan" => known # {})
  OBVIOUS
<1> HIDE DEF known, stage
<1>7. /\ me \in WorkerType /\ me.stage = stage /\ me.first = "plan" /\ me.twin = t
      /\ me.todo = known
  BY <1>5, <1>6, RestingType DEF WorkerType, Stages
<1> HIDE DEF me
<1>8. me.stage \notin Handling /\ Doable(me)
  BY <1>4, <1>6, <1>7 DEF Doable, Handling
<1>9. budget' \in SUBSET Troubles
  BY <1>1, <1>2 DEF Types
<1> QED
  BY <1>2, <1>7, <1>8, <1>9, BeginKeeps

(* A worker rests.                                                         *)
LEMMA RestKeeps ==
  ASSUME DeliveryInv, NEW w \in Workers, worker' = [worker EXCEPT ![w] = Resting],
         UNCHANGED <<thread, tables, config, late>>, budget' \in SUBSET Troubles
  PROVE  DeliveryInv'
<1>1. Resting.stage \notin Handling /\ Doable(Resting)
  BY DEF Resting, Doable, Handling
<1> QED
  BY <1>1, RestingType, BeginKeeps

(* A sync reads a page of comments.                                        *)
LEMMA ReadKeeps ==
  ASSUME DeliveryInv, NEW w \in Workers, ReadComments(w)
  PROVE  DeliveryInv'
<1> DEFINE t == worker[w].twin
           page == {Task(i, FALSE) : i \in Page(t)}
           me == [Resting EXCEPT !.stage = "store", !.first = "store", !.twin = t, !.todo = page]
<1>1. Structure /\ Types
  BY DEF DeliveryInv, Structure
<1>2. /\ worker' = [worker EXCEPT ![w] = IF thread[t] = << >> \/ ~policy[t].read THEN Resting ELSE me]
      /\ UNCHANGED <<thread, tables, config, late, budget>> /\ worker[w].stage = "fetch"
  BY DEF ReadComments
<1>3. budget' \in SUBSET Troubles /\ t \in Twins
  BY <1>1, <1>2 DEF Types, Structure, Todo, Doable
<1>4. CASE thread[t] = << >> \/ ~policy[t].read
  BY <1>2, <1>3, <1>4, RestKeeps
<1>5. CASE ~(thread[t] = << >> \/ ~policy[t].read)
  <2>1. Len(thread[t]) \in Nat /\ Len(thread[t]) # 0
    <3>1. thread[t] \in Seq(Ids \cup {User}) /\ thread[t] # << >>
      BY <1>1, <1>3, <1>5 DEF Types
    <3> HIDE DEF t
    <3> QED
      BY <3>1
  <2>2. Page(t) = {i \in 1 .. Len(thread[t]) : i <= PageLimit}
    BY <2>1, Pages
  <2>3. 1 \in Page(t) /\ \A i \in Page(t) : i \in Nat \ {0} /\ i <= PageLimit /\ i <= Len(thread[t])
    BY <2>1, <2>2, LimitAssumption
  <2>4. page \in SUBSET Tasks /\ page # {}
    <3>1. \A i \in Page(t) : Task(i, FALSE) \in Tasks
      BY <2>3 DEF Task, Tasks
    <3> QED
      BY <2>3, <3>1, Zenon
  <2>5. \A x \in page : x.at <= PageLimit /\ x.at <= Len(thread[t])
    BY <2>3 DEF Task
  <2> HIDE DEF page
  <2>6. /\ me \in WorkerType /\ me.stage = "store" /\ me.first = "store" /\ me.twin = t
        /\ me.todo = page
    BY <1>3, <2>4, RestingType DEF WorkerType, Stages
  <2>7. worker' = [worker EXCEPT ![w] = me]
    BY <1>2, <1>5
  <2> HIDE DEF me
  <2>8. me.stage \notin Handling /\ Doable(me)
    BY <1>3, <2>4, <2>5, <2>6 DEF Doable, Handling
  <2> QED
    BY <1>2, <1>3, <2>6, <2>7, <2>8, BeginKeeps
<1> QED
  BY <1>4, <1>5

(* A drain reads a batch.                                                  *)
LEMMA SelectKeeps ==
  ASSUME DeliveryInv, NEW w \in Workers, SelectDue(w)
  PROVE  DeliveryInv'
<1> DEFINE go == {k \in DueBatch : ~OnHold(planned[k])}
           items == {Task(k, Forbidden(planned[k])) : k \in go}
           me == [Resting EXCEPT !.stage = "item", !.first = "item", !.todo = items]
<1>1. Structure /\ Types
  BY DEF DeliveryInv, Structure
<1>2. /\ worker' = [worker EXCEPT ![w] = IF go = {} THEN Resting ELSE me]
      /\ UNCHANGED <<thread, tables, config, late, budget>>
  BY DEF SelectDue
<1>3. budget' \in SUBSET Troubles
  BY <1>1, <1>2 DEF Types
<1>4. CASE go = {}
  BY <1>2, <1>3, <1>4, RestKeeps
<1>5. CASE go # {}
  <2>1. \A k \in go : k \in Nat \ {0} /\ k <= Len(planned)
    <3>1. DOMAIN planned = 1 .. Len(planned) /\ Len(planned) \in Nat
      BY <1>1 DEF Types
    <3>2. go \subseteq DOMAIN planned
      BY DEF DueBatch
    <3> QED
      BY <3>1, <3>2
  <2>2. \A id : Forbidden(id) \in BOOLEAN
    BY DEF Forbidden
  <2> HIDE DEF go
  <2>3. items \in SUBSET Tasks /\ items # {}
    <3>1. \A k \in go : Task(k, Forbidden(planned[k])) \in Tasks
      BY <2>1, <2>2 DEF Task, Tasks
    <3> QED
      BY <1>5, <3>1, Zenon
  <2>4. \A x \in items : x.at <= Len(planned)
    BY <2>1 DEF Task
  <2> HIDE DEF items
  <2>5. me \in WorkerType /\ me.stage = "item" /\ me.first = "item" /\ me.todo = items
    BY <2>3, RestingType DEF WorkerType, Stages
  <2>6. worker' = [worker EXCEPT ![w] = me]
    BY <1>2, <1>5
  <2> HIDE DEF me
  <2>7. me.stage \notin Handling /\ Doable(me)
    BY <2>3, <2>4, <2>5 DEF Doable, Handling
  <2> QED
    BY <1>2, <1>3, <2>5, <2>6, <2>7, BeginKeeps
<1> QED
  BY <1>4, <1>5

(* A drain starts.                                                         *)
LEMMA StartKeeps ==
  ASSUME DeliveryInv, NEW w \in Workers, StartDrain(w)
  PROVE  DeliveryInv'
<1>1. Structure /\ Types
  BY DEF DeliveryInv, Structure
<1>2. /\ worker' = [worker EXCEPT ![w].stage = "select"]
      /\ UNCHANGED <<thread, tables, config, late, budget>>
  BY DEF StartDrain
<1>3. "select" \in Stages /\ "select" \notin Handling
  BY DEF Stages, Handling
<1>4. /\ worker' \in [Workers -> WorkerType]
      /\ \A v \in Workers \ {w} : worker'[v] = worker[v]
      /\ worker'[w].stage = "select"
  BY <1>1, <1>2, <1>3, GotoFacts
<1>5. Doable(worker'[w])
  BY <1>4 DEF Doable, Handling
<1> QED
  BY <1>1, <1>2, <1>3, <1>4, <1>5, MoveStep DEF tables, Types

(* The handling of a delivery goes on.                                     *)
LEMMA GotoKeeps ==
  ASSUME DeliveryInv, NEW w \in Workers, worker[w].stage \in Handling,
         NEW s \in Handling, Goto(w, s), MayGo(s, w, Item(w)),
         UNCHANGED <<thread, tables, config, late>>, budget' \in SUBSET Troubles
  PROVE  DeliveryInv'
<1>1. Structure /\ Types
  BY DEF DeliveryInv, Structure
<1>2. /\ worker' \in [Workers -> WorkerType]
      /\ \A v \in Workers \ {w} : worker'[v] = worker[v]
      /\ worker'[w].stage = s /\ worker'[w].todo = worker[w].todo
      /\ worker'[w].first = worker[w].first /\ worker'[w].twin = worker[w].twin
  BY <1>1, GotoFacts DEF Goto, Stages
<1>3. Doable(worker'[w])
  BY <1>1, <1>2 DEF Structure, Todo, Doable, Handling
<1> QED
  BY <1>2, <1>3, MoveStep DEF tables

(* A call fails before it does anything.                                   *)
LEMMA FailingCallKeeps ==
  ASSUME DeliveryInv, NEW w \in Workers, worker[w].stage \in {"search", "push"}, CallFails(w),
         UNCHANGED <<tables, config, late>>
  PROVE  DeliveryInv'
<1>1. UNCHANGED thread /\ budget' \in SUBSET Troubles
  BY DEF CallFails, Suffer, DeliveryInv, Structure, Types
<1>2. PICK s \in {"retry", "give up", "defer"} : Goto(w, s)
  BY DEF CallFails
<1>3. MayGo(s, w, Item(w)) /\ s \in Handling /\ worker[w].stage \in Handling
  BY DEF MayGo, Handling
<1> QED
  BY <1>1, <1>2, <1>3, GotoKeeps

(* A search finds the copy, or, where the page holds all comments, there   *)
(* is none.                                                                *)
LEMMA SearchKeeps ==
  ASSUME DeliveryInv, NEW w \in Workers, Search(w)
  PROVE  DeliveryInv'
<1>1. Structure /\ Types
  BY DEF DeliveryInv, Structure
<1>2. worker[w].stage = "search" /\ UNCHANGED <<tables, config, late>>
  BY DEF Search
<1>3. CASE CallFails(w)
  BY <1>2, <1>3, FailingCallKeeps
<1>4. CASE ~CallFails(w)
  <2>1. PICK x \in Ids : x = Item(w)
    BY <1>1, <1>2, ItemFacts DEF Handling
  <2> DEFINE found == \E i \in Page(Target(x)) : thread[Target(x)][i] = x
  <2>2. Goto(w, IF found THEN "record" ELSE "push") /\ UNCHANGED <<thread, budget>>
    BY <1>4, <2>1 DEF Search
  <2>3. /\ Target(x) \in Twins /\ Len(thread[Target(x)]) \in Nat
        /\ DOMAIN thread[Target(x)] = 1 .. Len(thread[Target(x)])
    BY <1>1, Identities DEF Types
  <2>4. Page(Target(x)) = {i \in 1 .. Len(thread[Target(x)]) : i <= PageLimit}
    BY <2>3, Pages
  <2>5. budget' \in SUBSET Troubles
    BY <1>1, <2>2 DEF Types
  <2>6. {"search", "push", "record"} \subseteq Handling
    BY DEF Handling
  <2>7. CASE found
    <3>1. HasCopy(x)
      BY <2>3, <2>4, <2>7 DEF HasCopy
    <3> QED
      BY <1>2, <2>1, <2>2, <2>5, <2>6, <2>7, <3>1, GotoKeeps DEF MayGo
  <2>8. CASE ~found
    <3>1. Len(thread[Target(x)]) <= PageLimit => ~HasCopy(x)
      <4> SUFFICES ASSUME Len(thread[Target(x)]) <= PageLimit, HasCopy(x) PROVE FALSE
        OBVIOUS
      <4>1. PICK i \in 1 .. Len(thread[Target(x)]) : thread[Target(x)][i] = x
        BY <2>3 DEF HasCopy
      <4>2. i <= PageLimit
        BY <2>3, LimitAssumption
      <4> QED
        BY <2>4, <2>8, <4>1, <4>2
    <3>2. MayGo("push", w, x)
      BY <1>2, <3>1 DEF MayGo
    <3> QED
      BY <1>2, <2>1, <2>2, <2>5, <2>6, <2>8, <3>2, GotoKeeps
  <2> QED
    BY <2>7, <2>8
<1> QED
  BY <1>3, <1>4

(* A push fails, writes, or writes and loses its answer.                   *)
LEMMA PushKeeps ==
  ASSUME DeliveryInv, NEW w \in Workers, Push(w)
  PROVE  DeliveryInv'
<1>1. Structure /\ Types
  BY DEF DeliveryInv, Structure
<1>2. worker[w].stage = "push" /\ UNCHANGED <<tables, config, late>>
  BY DEF Push
<1>3. CASE CallFails(w)
  BY <1>2, <1>3, FailingCallKeeps
<1>4. CASE ~CallFails(w)
  <2>1. /\ Write(Item(w)) /\ budget' \in SUBSET budget
        /\ \E s \in {"retry", "record"} : Goto(w, s)
    BY <1>4 DEF Push, Suffer
  <2>2. PICK s \in {"retry", "record"} : Goto(w, s)
    BY <2>1
  <2>3. /\ worker' \in [Workers -> WorkerType]
        /\ \A v \in Workers \ {w} : worker'[v] = worker[v]
        /\ worker'[w].stage = s /\ worker'[w].todo = worker[w].todo
        /\ worker'[w].first = worker[w].first /\ worker'[w].twin = worker[w].twin
    BY <1>1, <2>2, GotoFacts DEF Goto, Stages, Handling
  <2>4. Doable(worker'[w])
    BY <1>1, <1>2, <2>2, <2>3 DEF Structure, Todo, Doable, Handling
  <2>5. budget' \in SUBSET Troubles
    BY <1>1, <2>1 DEF Types
  <2> QED
    BY <1>2, <2>1, <2>3, <2>4, <2>5, WriteKeeps DEF tables
<1> QED
  BY <1>3, <1>4

(* A process stops.                                                        *)
LEMMA CrashKeeps ==
  ASSUME DeliveryInv, NEW w \in Workers, Crash(w)
  PROVE  DeliveryInv'
<1>1. Structure /\ Types
  BY DEF DeliveryInv, Structure
<1>2. /\ worker' = [worker EXCEPT ![w] = Resting] /\ UNCHANGED <<tables, config, late>>
      /\ budget' \in SUBSET Troubles
  BY <1>1 DEF Crash, Suffer, Types
<1>3. CASE UNCHANGED thread
  BY <1>2, <1>3, RestKeeps
<1>4. CASE worker[w].stage = "push" /\ Write(Item(w))
  <2>1. /\ worker' \in [Workers -> WorkerType] /\ worker'[w] = Resting
        /\ \A v \in Workers \ {w} : worker'[v] = worker[v]
    BY <1>1, <1>2, RestingType DEF Types
  <2>2. Resting.stage \notin Handling /\ Doable(Resting)
    BY DEF Resting, Doable, Handling
  <2> QED
    BY <1>2, <1>4, <2>1, <2>2, WriteKeeps DEF tables
<1> QED
  BY <1>3, <1>4 DEF Crash

(* A query fails.                                                          *)
LEMMA QueryFailsKeeps ==
  ASSUME DeliveryInv, NEW w \in Workers, QueryFails(w)
  PROVE  DeliveryInv'
<1>1. UNCHANGED <<thread, tables, config, late>> /\ budget' \in SUBSET Troubles
  BY DEF QueryFails, Suffer, DeliveryInv, Structure, Types
<1>2. CASE worker[w].stage = "record"
  <2>1. /\ Goto(w, "give up") /\ "give up" \in Handling /\ "record" \in Handling
        /\ MayGo("give up", w, Item(w))
    BY <1>2 DEF QueryFails, Handling, MayGo
  <2> QED
    BY <1>1, <1>2, <2>1, GotoKeeps
<1>3. CASE worker[w].stage # "record"
  BY <1>1, <1>3, RestKeeps DEF QueryFails
<1> QED
  BY <1>2, <1>3
-----------------------------------------------------------------------------
(* Every step keeps the invariant.                                         *)
LEMMA DeliveryInvInit == Init => DeliveryInv
<1> SUFFICES ASSUME Init PROVE DeliveryInv
  OBVIOUS
<1>1. Unplanned \in DeliveryType
  BY DEF Unplanned, DeliveryType
<1>2. Bidirectional \in Policies \cup {Bidirectional} /\ "active" \in {"active", "paused"}
  OBVIOUS
<1>3. Types
  <2>1. thread \in [Twins -> Seq(Ids \cup {User})] /\ stored \in SUBSET Posts /\ late \in SUBSET Ids
    BY DEF Init
  <2>2. delivery \in [Ids -> DeliveryType] /\ planned \in Seq(Ids)
    BY <1>1 DEF Init
  <2>3. /\ conn \in [Twins -> {"active", "paused"}]
        /\ policy \in [Twins -> Policies \cup {Bidirectional}]
    BY <1>2 DEF Init
  <2>4. worker \in [Workers -> WorkerType]
    BY RestingType DEF Init
  <2>5. budget \in SUBSET Troubles
    BY BudgetAssumption DEF Init
  <2> QED
    BY <2>1, <2>2, <2>3, <2>4, <2>5 DEF Types
<1>4. \A id \in Ids : delivery[id].status = "none" /\ delivery[id].attempts = 0
  BY DEF Init, Unplanned
<1>5. Planning
  BY <1>4 DEF Init, Planning, IsInjective, Range
<1>6. Threads /\ StoredByUsers
  BY DEF Init, Threads, StoredByUsers
<1>7. \A w \in Workers : worker[w].stage = "idle"
  BY DEF Init, Resting
<1>8. Todo
  BY <1>7 DEF Todo, Doable, Handling
<1>9. ASSUME NEW id \in Ids PROVE CallsOf(id)
  <2>1. \A w \in Workers : ~Busy(w, id)
    BY <1>7 DEF Busy, Handling
  <2>2. ~HasCopy(id) /\ Copies(id) = {}
    BY Identities DEF Init, HasCopy, Copies
  <2> QED
    BY <1>4, <2>1, <2>2 DEF CallsOf, Held, Unwritten, Written, Spent, Single, Honest,
                            MayWrite, MayGiveBack
<1> QED
  BY <1>3, <1>5, <1>6, <1>8, <1>9 DEF DeliveryInv, Structure

(* Users and administrators.                                               *)
LEMMA PeopleKeep ==
  ASSUME DeliveryInv, NEW t \in Twins,
         \/ Comment(t) \/ Pause(t) \/ Resume(t)
         \/ \E p \in Policies : ConfigureCommentSync(t, p)
  PROVE  DeliveryInv'
<1>1. Types
  BY DEF DeliveryInv, Structure
<1>2. CASE Comment(t)
  BY <1>2, CommentKeeps
<1>3. CASE Pause(t) \/ Resume(t)
  <2>1. Types'
    BY <1>1, <1>3 DEF Pause, Resume, Types, tables, Suffer
  <2> QED
    BY <1>3, <2>1, IdleStep DEF Pause, Resume, tables
<1>4. CASE \E p \in Policies : ConfigureCommentSync(t, p)
  <2>1. Types'
    BY <1>1, <1>4 DEF ConfigureCommentSync, Types, tables, Suffer
  <2> QED
    BY <1>4, <2>1, IdleStep DEF ConfigureCommentSync, tables
<1> QED
  BY <1>2, <1>3, <1>4

LEMMA DeliveryInvStep == DeliveryInv /\ [Next]_vars => DeliveryInv'
<1> SUFFICES ASSUME DeliveryInv, [Next]_vars PROVE DeliveryInv'
  OBVIOUS
<1>1. ASSUME NEW t \in Twins,
             \/ Comment(t) \/ Pause(t) \/ Resume(t)
             \/ \E p \in Policies : ConfigureCommentSync(t, p)
      PROVE  DeliveryInv'
  BY <1>1, PeopleKeep
<1>2. ASSUME NEW w \in Workers, WorkerStep(w) \/ Crash(w) \/ QueryFails(w)
      PROVE  DeliveryInv'
  <2>1. CASE ReadComments(w) \/ StoreComment(w) \/ Plan(w)
    BY <2>1, ReadKeeps, StoreKeeps, PlanKeeps
  <2>2. CASE SelectDue(w) \/ Skip(w) \/ Claim(w)
    BY <2>2, SelectKeeps, SkipKeeps, ClaimKeeps
  <2>3. CASE Search(w) \/ Push(w)
    BY <2>3, SearchKeeps, PushKeeps
  <2>4. CASE Record(w) \/ Fail(w) \/ Defer(w)
    BY <2>4, RecordKeeps
  <2>5. CASE Crash(w) \/ QueryFails(w)
    BY <2>5, CrashKeeps, QueryFailsKeeps
  <2> QED
    BY <1>2, <2>1, <2>2, <2>3, <2>4, <2>5 DEF WorkerStep
<1>3. ASSUME NEW w \in Readers, NEW t \in Twins, CatchUp(w, t) PROVE DeliveryInv'
  BY <1>3, CatchUpKeeps DEF Workers
<1>4. ASSUME NEW w \in Drainers, StartDrain(w) PROVE DeliveryInv'
  BY <1>4, StartKeeps DEF Workers
<1>5. ASSUME NEW id \in Ids, BackoffEnds(id) \/ ClaimExpires(id) PROVE DeliveryInv'
  BY <1>5, BackoffKeeps, ExpiryKeeps
<1>6. CASE UNCHANGED vars
  <2>1. Types'
    BY <1>6 DEF vars, DeliveryInv, Structure, Types
  <2> QED
    BY <1>6, <2>1, IdleStep DEF vars
<1> QED
  BY <1>1, <1>2, <1>3, <1>4, <1>5, <1>6 DEF Next

LEMMA DeliveryInvariant == Spec => []DeliveryInv
  BY DeliveryInvInit, DeliveryInvStep, PTL DEF Spec

-----------------------------------------------------------------------------
(* Rows hold values of the schema, whatever the workers and the providers  *)
(* do, and the planned deliveries are the rows, each planned once.         *)
THEOREM TypeCorrect == Spec => []TypeOK
<1>1. DeliveryInv => TypeOK
  <2> SUFFICES ASSUME Types, Planning PROVE TypeOK
    BY DEF DeliveryInv, Structure
  <2>1. \A t \in Twins : Range(thread[t]) \subseteq Ids \cup {User}
    <3>1. \A t \in Twins : thread[t] \in Seq(Ids \cup {User})
      BY DEF Types
    <3>2. ASSUME NEW s \in Seq(Ids \cup {User}) PROVE Range(s) \subseteq Ids \cup {User}
      BY DEF Range
    <3> QED
      BY <3>1, <3>2
  <2>2. \A w \in Workers : worker[w].stage \in Stages
    BY DEF Types, WorkerType
  <2> QED
    BY <2>1, <2>2 DEF TypeOK, Types, Planning
<1> QED
  BY <1>1, DeliveryInvariant, PTL

(* A retry is "a completion, not a duplicate comment"                      *)
(* (connector.service.ts:1360-1361): every record gets at most one copy of *)
(* a comment, unless a claim expired under its worker or the thread is     *)
(* longer than a page; and no copy comes back as a comment of a user.      *)
THEOREM OneCopyEach == Spec => []OneCopy
<1>1. DeliveryInv => OneCopy
  <2> SUFFICES ASSUME DeliveryInv PROVE OneCopy
    OBVIOUS
  <2>1. stored \subseteq UserComments
    <3> SUFFICES ASSUME NEW r \in stored PROVE r \in UserComments
      OBVIOUS
    <3>1. r \in Posts /\ r[1] \in Twins
      BY Identities DEF DeliveryInv, Structure, Types
    <3>2. r[2] \in {i \in DOMAIN thread[r[1]] : thread[r[1]][i] = User}
      BY DEF DeliveryInv, Structure, StoredByUsers
    <3>3. r = <<r[1], r[2]>>
      BY <3>1 DEF Posts
    <3>4. r \in {r[1]} \X {i \in DOMAIN thread[r[1]] : thread[r[1]][i] = User}
      BY <3>2, <3>3
    <3> QED
      BY <3>1, <3>4 DEF UserComments
  <2>2. ASSUME NEW id \in Ids, id \notin late, ~(Len(thread[Target(id)]) > PageLimit)
        PROVE  Cardinality(Copies(id)) <= 1
    <3>1. \A i, j \in Copies(id) : i = j
      BY <2>2 DEF DeliveryInv, CallsOf, Single
    <3>2. CASE Copies(id) = {}
      BY <3>2, FS_EmptySet
    <3>3. CASE Copies(id) # {}
      <4>1. PICK i \in Copies(id) : TRUE
        BY <3>3
      <4>2. Copies(id) = {i}
        BY <3>1, <4>1
      <4> QED
        BY <4>2, FS_Singleton
    <3> QED
      BY <3>2, <3>3
  <2> QED
    BY <2>1, <2>2 DEF OneCopy
<1> QED
  BY <1>1, DeliveryInvariant, PTL

(* The status of a delivery tells what happened: executed means there is a *)
(* copy, and a delivery whose attempts were all given back has none.       *)
THEOREM StatusHonest == Spec => []StatusIsHonest
<1>1. DeliveryInv => StatusIsHonest
  BY DEF DeliveryInv, CallsOf, Honest, StatusIsHonest
<1> QED
  BY <1>1, DeliveryInvariant, PTL
=============================================================================
