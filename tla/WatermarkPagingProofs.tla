------------------------ MODULE WatermarkPagingProofs ------------------------
(***************************************************************************)
(* A machine-checked theorem about WatermarkPaging: a window of the past   *)
(* is read in full, for every finite table, page size and window and every *)
(* number of edits between the requests.                                   *)
(*                                                                         *)
(* The argument.  A request answers the rows of some ranks in the order of *)
(* time and id, and a row is of every rank below the number of rows        *)
(* (Ranks), so a page that is not full is the last one, and a full one     *)
(* ends at the rank before the next offset (Requests).  Between two        *)
(* requests every row before the time the token names is known, and so is  *)
(* every row of a rank below its offset, which is also behind the reader   *)
(* (Reading).  A row edited ahead of the reader moves no row to a rank     *)
(* below the offset but, possibly, itself, as a new version (Edits).       *)
(***************************************************************************)
EXTENDS WatermarkPaging, TLAPS, FiniteSetTheorems

(* The order of rows whose times are u, and their ranks in a set of rows.  *)
Ahead(u, q, r) == u[q] < u[r] \/ (u[q] = u[r] /\ q < r)
Rank(u, S, r) == Cardinality({q \in S : Ahead(u, q, r)})
Below(u, S, k) == {r \in S : Rank(u, S, r) < k}
Window(u, t) == {r \in Records : u[r] # 0 /\ u[r] >= t /\ u[r] < To}

CallType == [kind : {"none", "poll", "backfill"}, since : Nat, skip : Nat, pages : Nat,
             read : SUBSET (Records \X Nat), ended : BOOLEAN, resumed : BOOLEAN]

Types == /\ updated \in [Records -> Nat] /\ clock \in Nat /\ cursor \in Nat
         /\ call \in CallType /\ IsFiniteSet(call.read)
         /\ shifted \in BOOLEAN

Known(r) == <<r, updated[r]>> \in call.read \cup touched

(* Between two requests of a window.                                       *)
Reading ==
  call.kind = "backfill" /\ ~call.ended /\ ~shifted =>
    LET rows == Window(updated, call.since) IN
    /\ call.skip <= Cardinality(rows)
    /\ \A r \in Window(updated, From) : updated[r] < call.since => Known(r)
    /\ \A r \in Below(updated, rows, call.skip) : Known(r) /\ Behind(r)

AllRead ==
  call.kind = "backfill" /\ call.ended /\ ~shifted => \A r \in Window(updated, From) : Known(r)

PagingInv == Types /\ Reading /\ AllRead

-----------------------------------------------------------------------------
(* The order is total, and every rank below the number of rows is taken    *)
(* once.                                                                   *)
LEMMA Ranks ==
  ASSUME NEW S \in SUBSET Nat, IsFiniteSet(S), NEW u, \A r \in S : u[r] \in Nat
  PROVE  /\ Cardinality(S) \in Nat
         /\ \A r \in S : Rank(u, S, r) \in Nat /\ Rank(u, S, r) < Cardinality(S)
         /\ \A q, r \in S : q = r \/ Ahead(u, q, r) \/ Ahead(u, r, q)
         /\ \A q, r \in S : Ahead(u, q, r) <=> Rank(u, S, q) < Rank(u, S, r)
         /\ \A k \in Nat : k < Cardinality(S) => \E r \in S : Rank(u, S, r) = k
<1> DEFINE n == Cardinality(S)
           R(r) == {q \in S : Ahead(u, q, r)}
<1>1. n \in Nat
  BY FS_CardinalityType
<1>2. \A q, r \in S : q = r \/ Ahead(u, q, r) \/ Ahead(u, r, q)
  BY DEF Ahead
<1>3. \A p, q, r \in S : Ahead(u, p, q) /\ Ahead(u, q, r) => Ahead(u, p, r)
  BY DEF Ahead
<1>4. \A r \in S : ~Ahead(u, r, r)
  BY DEF Ahead
<1>5. ASSUME NEW r \in S
      PROVE  IsFiniteSet(R(r)) /\ Rank(u, S, r) \in Nat /\ Rank(u, S, r) < n
  <2>1. R(r) \in SUBSET S /\ R(r) # S
    BY <1>4
  <2>2. IsFiniteSet(R(r)) /\ Cardinality(R(r)) <= n /\ Cardinality(R(r)) # n
    BY <2>1, FS_Subset
  <2>3. Cardinality(R(r)) \in Nat
    BY <2>2, FS_CardinalityType
  <2> QED
    BY <1>1, <2>2, <2>3 DEF Rank
<1>6. ASSUME NEW q \in S, NEW r \in S, Ahead(u, q, r)
      PROVE  Rank(u, S, q) < Rank(u, S, r)
  <2>1. R(q) \in SUBSET R(r)
    BY <1>3, <1>6
  <2>2. R(q) # R(r)
    BY <1>4, <1>6
  <2>3. Cardinality(R(q)) <= Cardinality(R(r)) /\ Cardinality(R(q)) # Cardinality(R(r))
    BY <1>5, <2>1, <2>2, FS_Subset
  <2> QED
    BY <1>5, <2>3 DEF Rank
<1>7. ASSUME NEW q \in S, NEW r \in S, Rank(u, S, q) < Rank(u, S, r)
      PROVE  Ahead(u, q, r)
  <2>1. Rank(u, S, q) \in Nat /\ Rank(u, S, r) \in Nat
    BY <1>5
  <2>2. CASE q = r
    BY <1>7, <2>1, <2>2
  <2>3. CASE Ahead(u, r, q)
    <3>1. Rank(u, S, r) < Rank(u, S, q)
      BY <1>6, <2>3
    <3> QED
      BY <1>7, <2>1, <3>1
  <2> QED
    BY <1>2, <2>2, <2>3
<1>8. \A k \in Nat : k < n => \E r \in S : Rank(u, S, r) = k
  <2> DEFINE f == [r \in S |-> Rank(u, S, r)]
             T == 0 .. n - 1
  <2>1. IsFiniteSet(T) /\ Cardinality(T) = n
    BY <1>1, FS_Interval, SMTT(30)
  <2>2. ASSUME NEW r \in S PROVE Rank(u, S, r) \in T
    <3>1. Rank(u, S, r) \in Nat /\ Rank(u, S, r) < n
      BY <1>5
    <3> HIDE DEF n
    <3> QED
      BY <1>1, <3>1
  <2>3. f \in [S -> T]
    BY <2>2
  <2>4. ASSUME NEW q \in S, NEW r \in S, f[q] = f[r] PROVE q = r
    <3>1. Rank(u, S, q) \in Nat /\ Rank(u, S, r) \in Nat /\ Rank(u, S, q) = Rank(u, S, r)
      BY <1>5, <2>4
    <3>2. ~Ahead(u, q, r) /\ ~Ahead(u, r, q)
      BY <1>6, <3>1
    <3> QED
      BY <1>2, <3>2
  <2>5. f \in Injection(S, T)
    BY <2>3, <2>4 DEF Injection, IsInjective
  <2>6. f \in Surjection(S, T)
    BY <2>1, <2>5, FS_Injection
  <2>7. \A k \in T : \E r \in S : f[r] = k
    BY <2>6 DEF Surjection
  <2>8. \A k \in Nat : k < n => k \in T
    BY <1>1
  <2> QED
    BY <2>7, <2>8
<1> QED
  BY <1>1, <1>2, <1>5, <1>6, <1>7, <1>8

(* So many ranks, so many rows.                                            *)
LEMMA Slices ==
  ASSUME NEW S \in SUBSET Nat, IsFiniteSet(S), NEW u, \A r \in S : u[r] \in Nat,
         NEW a \in Nat, NEW b \in Nat, a <= b, b <= Cardinality(S)
  PROVE  Cardinality({r \in S : a <= Rank(u, S, r) /\ Rank(u, S, r) < b}) = b - a
<1> DEFINE T == {r \in S : a <= Rank(u, S, r) /\ Rank(u, S, r) < b}
           I == a .. b - 1
           f == [r \in T |-> Rank(u, S, r)]
<1>0. T \in SUBSET S /\ a \in Int /\ b - 1 \in Int
  OBVIOUS
<1>1. IsFiniteSet(T) /\ IsFiniteSet(I) /\ Cardinality(I) = b - a
  <2>1. IsFiniteSet(T)
    BY <1>0, FS_Subset
  <2>2. IsFiniteSet(I) /\ Cardinality(I) = IF a > b - 1 THEN 0 ELSE b - 1 - a + 1
    BY <1>0, FS_Interval
  <2> QED
    BY <2>1, <2>2
<1>2. \A r \in T : Rank(u, S, r) \in I
  BY Ranks
<1>3. \A q, r \in T : Rank(u, S, q) = Rank(u, S, r) => q = r
  BY Ranks
<1>4. \A k \in I : \E r \in T : Rank(u, S, r) = k
  <2> SUFFICES ASSUME NEW k \in I PROVE \E r \in T : Rank(u, S, r) = k
    OBVIOUS
  <2>1. k \in Nat /\ k < Cardinality(S) /\ a <= k /\ k < b
    BY Ranks
  <2>2. PICK r \in S : Rank(u, S, r) = k
    BY <2>1, Ranks
  <2> QED
    BY <2>1, <2>2
<1> HIDE DEF T, I
<1>5. f \in [T -> I]
  BY <1>2
<1>6. f \in Injection(T, I)
  BY <1>3, <1>5 DEF Injection, IsInjective
<1>7. f \in Surjection(T, I)
  BY <1>4, <1>5 DEF Surjection
<1>8. Cardinality(T) = Cardinality(I)
  BY <1>1, <1>6, <1>7, FS_Injection
<1> QED
  BY <1>1, <1>8 DEF T

(* A page that is not full ends the table; the last row of a full one is   *)
(* the one before the next offset.                                         *)
LEMMA Requests ==
  ASSUME NEW S \in SUBSET Nat, IsFiniteSet(S), NEW u, \A r \in S : u[r] \in Nat,
         NEW k \in Nat, k <= Cardinality(S),
         NEW page, page = {r \in S : k <= Rank(u, S, r) /\ Rank(u, S, r) < k + PageSize}
  PROVE  /\ Cardinality(page) < PageSize => \A r \in S : Rank(u, S, r) < k + PageSize
         /\ ~(Cardinality(page) < PageSize) =>
              /\ Cardinality(page) = PageSize /\ k + PageSize <= Cardinality(S)
              /\ \E f \in page : \A r \in S :
                   Rank(u, S, r) < k + PageSize => r = f \/ Ahead(u, r, f)
<1> DEFINE n == Cardinality(S)
<1>1. n \in Nat /\ PageSize \in Nat \ {0} /\ k + PageSize \in Nat
  BY Ranks, PageAssumption
<1>2. \A r \in S : Rank(u, S, r) \in Nat /\ Rank(u, S, r) < n
  BY Ranks
<1>3. CASE k + PageSize <= n
  <2>1. Cardinality(page) = PageSize
    <3>1. Cardinality(page) = k + PageSize - k
      BY <1>1, <1>3, Slices
    <3> QED
      BY <1>1, <3>1
  <2>2. \E f \in page : \A r \in S : Rank(u, S, r) < k + PageSize => r = f \/ Ahead(u, r, f)
    <3> DEFINE m == k + PageSize - 1
    <3>1. m \in Nat /\ m < n /\ k <= m /\ m < k + PageSize
      BY <1>1, <1>3
    <3>2. PICK f \in S : Rank(u, S, f) = m
      BY <3>1, Ranks
    <3>3. f \in page
      BY <3>1, <3>2
    <3>4. ASSUME NEW r \in S, Rank(u, S, r) < k + PageSize
          PROVE  r = f \/ Ahead(u, r, f)
      <4>1. ~(Rank(u, S, f) < Rank(u, S, r))
        BY <1>1, <1>2, <3>2, <3>4
      <4>2. ~Ahead(u, f, r)
        BY <4>1, Ranks
      <4> QED
        BY <4>2, Ranks
    <3> QED
      BY <3>3, <3>4
  <2> QED
    BY <1>1, <1>3, <2>1, <2>2
<1>4. CASE ~(k + PageSize <= n)
  <2>1. page = {r \in S : k <= Rank(u, S, r) /\ Rank(u, S, r) < n}
    <3>1. ASSUME NEW r \in S PROVE Rank(u, S, r) < k + PageSize <=> Rank(u, S, r) < n
      <4>1. Rank(u, S, r) \in Nat /\ Rank(u, S, r) < n
        BY <1>2
      <4> HIDE DEF n
      <4> QED
        BY <1>1, <1>4, <4>1
    <3> QED
      BY <3>1, Zenon
  <2>2. Cardinality(page) = n - k
    BY <1>1, <2>1, Slices
  <2>3. \A r \in S : Rank(u, S, r) < k + PageSize
    BY <1>1, <1>2, <1>4
  <2> QED
    BY <1>1, <1>4, <2>2, <2>3
<1> QED
  BY <1>3, <1>4

(* A row ahead of the reader is edited.  No other row gets to a rank below *)
(* the offset, and the edited one only in front of one that was there.     *)
LEMMA Edits ==
  ASSUME NEW u \in [Records -> Nat], NEW v \in [Records -> Nat], NEW q \in Records, NEW t,
         \A r \in Records \ {q} : v[r] = u[r],
         NEW S, S = Window(u, t), NEW N, N = Window(v, t),
         NEW k \in Nat, k <= Cardinality(S), q \notin Below(u, S, k)
  PROVE  /\ k <= Cardinality(N)
         /\ \A r \in Below(v, N, k) :
              \/ r # q /\ r \in Below(u, S, k)
              \/ r = q /\ \E p \in Below(u, S, k) : p # q /\ Ahead(v, q, p)
<1> DEFINE Low == Below(u, S, k)
<1>1. /\ S \in SUBSET Nat /\ IsFiniteSet(S) /\ N \in SUBSET Nat /\ IsFiniteSet(N)
      /\ \A r \in Records : u[r] \in Nat /\ v[r] \in Nat
      /\ S \in SUBSET Records /\ N \in SUBSET Records
  BY RecordAssumption, FS_Subset DEF Window
<1>2. \A r \in Records \ {q} : v[r] = u[r] /\ (r \in S <=> r \in N)
  BY DEF Window
<1>3. /\ Low \in SUBSET (S \ {q}) /\ Low \in SUBSET N
  BY <1>1, <1>2 DEF Below
<1>4. Cardinality(Low) = k
  <2>1. Low = {r \in S : 0 <= Rank(u, S, r) /\ Rank(u, S, r) < k}
    BY <1>1, Ranks DEF Below
  <2>2. Cardinality(Low) = k - 0
    BY <1>1, <2>1, Slices
  <2> QED
    BY <2>2
<1> HIDE DEF Low
<1>5. k <= Cardinality(N)
  BY <1>1, <1>3, <1>4, FS_Subset
<1>6. /\ Cardinality(S) \in Nat
      /\ \A r \in S : Rank(u, S, r) \in Nat
      /\ \A r \in N : Rank(v, N, r) \in Nat
  BY <1>1, Ranks
<1>7. ASSUME NEW r \in N, Rank(v, N, r) < k, r # q
      PROVE  r \in Low
  <2> DEFINE A == {p \in S : Ahead(u, p, r)}
             B == {p \in N : Ahead(v, p, r)}
  <2>1. A \ {q} \in SUBSET B
    BY <1>1, <1>2, <1>7 DEF Ahead
  <2>2. /\ IsFiniteSet(A) /\ IsFiniteSet(B) /\ r \in S
        /\ Cardinality(A) = Rank(u, S, r) /\ Cardinality(B) = Rank(v, N, r)
    BY <1>1, <1>2, <1>7, FS_Subset DEF Rank
  <2>3. /\ Cardinality(A \ {q}) <= Cardinality(B)
        /\ Cardinality(A \ {q}) = IF q \in A THEN Cardinality(A) - 1 ELSE Cardinality(A)
    <3> HIDE DEF A, B
    <3>1. Cardinality(A \ {q}) <= Cardinality(B)
      BY <2>1, <2>2, FS_Subset
    <3>2. Cardinality(A \ {q}) = IF q \in A THEN Cardinality(A) - 1 ELSE Cardinality(A)
      BY <2>2, FS_RemoveElement
    <3> QED
      BY <3>1, <3>2
  <2>4. CASE q \in A
    <3>1. q \in S /\ Ahead(u, q, r)
      BY <2>4
    <3>2. Rank(u, S, q) < Rank(u, S, r)
      BY <1>1, <2>2, <3>1, Ranks
    <3>3. ~(Rank(u, S, q) < k)
      BY <3>1 DEF Below
    <3> HIDE DEF A, B
    <3>4. Rank(u, S, r) - 1 <= Rank(v, N, r)
      BY <2>2, <2>3, <2>4
    <3>5. /\ Rank(u, S, q) \in Nat /\ Rank(u, S, r) \in Nat /\ Rank(v, N, r) \in Nat
      BY <1>6, <1>7, <2>2, <3>1
    <3> QED
      BY <1>7, <3>2, <3>3, <3>4, <3>5
  <2>5. CASE q \notin A
    <3> HIDE DEF A, B
    <3>1. Rank(u, S, r) <= Rank(v, N, r)
      BY <2>2, <2>3, <2>5
    <3>2. Rank(u, S, r) \in Nat /\ Rank(v, N, r) \in Nat
      BY <1>6, <1>7, <2>2
    <3>3. Rank(u, S, r) < k
      BY <1>7, <3>1, <3>2
    <3> QED
      BY <2>2, <3>3 DEF Below, Low
  <2> QED
    BY <2>4, <2>5
<1>8. ASSUME q \in N, Rank(v, N, q) < k
      PROVE  \E p \in Low : p # q /\ Ahead(v, q, p)
  <2> SUFFICES ASSUME \A p \in Low : ~Ahead(v, q, p) PROVE FALSE
    BY <1>3
  <2> DEFINE B == {p \in N : Ahead(v, p, q)}
  <2>1. \A p \in Low : p \in N /\ p # q /\ Ahead(v, p, q)
    BY <1>1, <1>3, <1>8, Ranks
  <2>2. Low \in SUBSET B
    BY <2>1
  <2>3. IsFiniteSet(B) /\ Cardinality(B) = Rank(v, N, q)
    BY <1>1, FS_Subset DEF Rank
  <2> HIDE DEF B
  <2>4. k <= Rank(v, N, q)
    BY <1>4, <2>2, <2>3, FS_Subset
  <2>5. Rank(v, N, q) \in Nat
    BY <1>6, <1>8
  <2> QED
    BY <1>8, <2>4, <2>5
<1> QED
  BY <1>5, <1>7, <1>8 DEF Below, Low

-----------------------------------------------------------------------------
(* The largest of finitely many numbers.                                   *)
LEMMA Largest ==
  ASSUME NEW S \in SUBSET Nat, IsFiniteSet(S), S # {}
  PROVE  Max(S) \in S /\ \A x \in S : x <= Max(S)
<1> DEFINE u == [x \in S |-> 0]
<1>1. \A x \in S : u[x] \in Nat /\ u[x] = 0
  OBVIOUS
<1>2. Cardinality(S) \in Nat /\ Cardinality(S) # 0
  BY FS_CardinalityType, FS_EmptySet
<1> HIDE DEF u
<1>3. PICK m \in S : Rank(u, S, m) = Cardinality(S) - 1
  BY <1>1, <1>2, Ranks
<1>4. ASSUME NEW x \in S PROVE x <= m
  <2>1. Rank(u, S, x) \in Nat /\ Rank(u, S, x) < Cardinality(S)
    BY <1>1, Ranks
  <2>2. ~(Rank(u, S, m) < Rank(u, S, x))
    BY <1>2, <1>3, <2>1
  <2>3. x = m \/ Ahead(u, x, m)
    BY <1>1, <2>2, Ranks
  <2> QED
    BY <1>1, <2>3 DEF Ahead
<1>5. \E x \in S : \A y \in S : x >= y
  BY <1>4
<1>6. Max(S) \in S /\ \A y \in S : Max(S) >= y
  BY <1>5 DEF Max
<1> QED
  BY <1>6

(* The latest of finitely many versions.                                   *)
LEMMA LatestVersion ==
  ASSUME NEW V \in SUBSET (Records \X Nat), IsFiniteSet(V)
  PROVE  /\ Latest(V) \in Nat
         /\ \A x \in V : x[2] <= Latest(V)
         /\ Latest(V) = 0 \/ \E x \in V : x[2] = Latest(V)
<1> DEFINE T == {x[2] : x \in V}
           f == [x \in V |-> x[2]]
<1>1. f \in Surjection(V, T)
  BY DEF Surjection
<1>2. IsFiniteSet(T)
  BY <1>1, FS_Surjection
<1>3. IsFiniteSet(T \cup {0}) /\ T \cup {0} \in SUBSET Nat /\ T \cup {0} # {}
  <2>1. T \in SUBSET Nat
    OBVIOUS
  <2> HIDE DEF T
  <2>2. IsFiniteSet(T \cup {0})
    BY <1>2, FS_AddElement
  <2> QED
    BY <2>1, <2>2
<1>4. Latest(V) = Max(T \cup {0})
  BY DEF Latest
<1>5. Latest(V) \in T \cup {0} /\ \A y \in T \cup {0} : y <= Latest(V)
  BY <1>3, <1>4, Largest
<1> QED
  BY <1>3, <1>5

(* The versions of finitely many rows.                                     *)
LEMMA VersionsOf ==
  ASSUME updated \in [Records -> Nat], NEW rows \in SUBSET Records, IsFiniteSet(rows)
  PROVE  Versions(rows) \in SUBSET (Records \X Nat) /\ IsFiniteSet(Versions(rows))
<1> DEFINE f == [r \in rows |-> <<r, updated[r]>>]
<1>1. f \in Surjection(rows, Versions(rows))
  BY DEF Surjection, Versions
<1>2. IsFiniteSet(Versions(rows))
  BY <1>1, FS_Surjection
<1> QED
  BY <1>2 DEF Versions

-----------------------------------------------------------------------------
(* What a request answers.                                                 *)
LEMMA PageRows ==
  ASSUME Types, NEW rows \in SUBSET Records, NEW k \in Nat
  PROVE  /\ IsFiniteSet(rows) /\ rows \in SUBSET Nat
         /\ Page(rows, k) = {r \in rows : /\ k <= Rank(updated, rows, r)
                                          /\ Rank(updated, rows, r) < k + PageSize}
         /\ Page(rows, k) \in SUBSET rows /\ IsFiniteSet(Page(rows, k))
         /\ Cardinality(Page(rows, k)) \in Nat
         /\ Versions(Page(rows, k)) \in SUBSET (Records \X Nat)
         /\ IsFiniteSet(Versions(Page(rows, k)))
         /\ Latest(Versions(Page(rows, k))) \in Nat
<1>1. IsFiniteSet(rows) /\ rows \in SUBSET Nat
  BY RecordAssumption, FS_Subset
<1>2. Page(rows, k) = {r \in rows : /\ k <= Rank(updated, rows, r)
                                    /\ Rank(updated, rows, r) < k + PageSize}
  BY DEF Page, Before, Rank, Ahead
<1>3. Page(rows, k) \in SUBSET rows
  BY <1>2
<1>4. IsFiniteSet(Page(rows, k)) /\ Cardinality(Page(rows, k)) \in Nat
  BY <1>1, <1>3, FS_Subset, FS_CardinalityType
<1>5. Page(rows, k) \in SUBSET Records
  BY <1>3
<1>6. /\ Versions(Page(rows, k)) \in SUBSET (Records \X Nat)
      /\ IsFiniteSet(Versions(Page(rows, k)))
  BY <1>4, <1>5, VersionsOf DEF Types
<1>7. Latest(Versions(Page(rows, k))) \in Nat
  BY <1>6, LatestVersion
<1> QED
  BY <1>1, <1>2, <1>3, <1>4, <1>6, <1>7

(* Which record a call is.                                                 *)
LEMMA CallFields ==
  ASSUME Types
  PROVE  /\ call.kind \in {"none", "poll", "backfill"} /\ call.since \in Nat
         /\ call.skip \in Nat /\ call.pages \in Nat /\ call.ended \in BOOLEAN
         /\ call.resumed \in BOOLEAN /\ call.read \in SUBSET (Records \X Nat)
  BY DEF Types, CallType

(* No call is under way.                                                   *)
LEMMA IdleCall ==
  /\ Idle \in CallType /\ Idle.kind = "none" /\ IsFiniteSet(Idle.read) /\ Idle.skip = 0
  /\ Idle.ended = FALSE
  BY FS_EmptySet DEF Idle, CallType

(* An empty table.                                                         *)
LEMMA PagingInit == Init => PagingInv
<1> SUFFICES ASSUME Init PROVE PagingInv
  OBVIOUS
<1>1. Types
  BY IdleCall DEF Init, Types
<1>2. Reading /\ AllRead
  BY IdleCall DEF Init, Reading, AllRead
<1> QED
  BY <1>1, <1>2 DEF PagingInv

(* A user creates or changes a row.                                        *)
LEMMA EditKeeps ==
  ASSUME PagingInv, NEW q \in Records, Edit(q)
  PROVE  PagingInv'
<1>1. Types /\ UNCHANGED <<clock, cursor, call>>
  BY DEF PagingInv, Edit
<1>2. /\ updated' = [updated EXCEPT ![q] = clock]
      /\ updated' \in [Records -> Nat] /\ updated'[q] = clock
      /\ \A r \in Records \ {q} : updated'[r] = updated[r]
  BY <1>1 DEF Edit, Types
<1>3. Types'
  <2>1. shifted' \in BOOLEAN
    BY <1>1 DEF Edit, Types, Behind
  <2> QED
    BY <1>1, <1>2, <2>1 DEF Types
<1>4. ASSUME call.kind = "backfill"
      PROVE  /\ <<q, updated'[q]>> \in touched' /\ touched \subseteq touched'
             /\ Known(q)'
             /\ \A r \in Records \ {q} : Known(r) => Known(r)'
  <2>1. touched' = touched \cup {<<q, updated[q]>>, <<q, clock>>}
    BY <1>4 DEF Edit
  <2> QED
    BY <1>1, <1>2, <2>1 DEF Known
<1>5. ASSUME ~shifted' PROVE ~shifted /\ (updated[q] = 0 \/ ~Behind(q))
  BY <1>1, <1>5 DEF Edit, Types
<1>6. \A t : \A r \in Window(updated', t) \ {q} : r \in Window(updated, t)
  BY <1>2 DEF Window
<1>7. AllRead'
  <2> SUFFICES ASSUME call.kind = "backfill", call.ended, ~shifted',
                      NEW r \in Window(updated', From)
               PROVE  Known(r)'
    BY <1>1 DEF AllRead
  <2>1. \A p \in Window(updated, From) : Known(p)
    BY <1>5 DEF PagingInv, AllRead
  <2> QED
    BY <1>4, <1>6, <2>1 DEF Window
<1>8. Reading'
  <2> SUFFICES ASSUME call.kind = "backfill", ~call.ended, ~shifted'
               PROVE  /\ call.skip <= Cardinality(Window(updated', call.since))
                      /\ \A r \in Window(updated', From) : updated'[r] < call.since => Known(r)'
                      /\ \A r \in Below(updated', Window(updated', call.since), call.skip) :
                           Known(r)' /\ Behind(r)'
    BY <1>1 DEF Reading
  <2> DEFINE S == Window(updated, call.since)
             N == Window(updated', call.since)
             k == call.skip
  <2>1. /\ k <= Cardinality(S)
        /\ \A r \in Window(updated, From) : updated[r] < call.since => Known(r)
        /\ \A r \in Below(updated, S, k) : Known(r) /\ Behind(r)
    BY <1>5 DEF PagingInv, Reading
  <2>2. q \notin Below(updated, S, k)
    BY <1>5, <2>1 DEF Below, Window
  <2>3. call.since \in Nat /\ k \in Nat /\ clock \in Nat /\ updated \in [Records -> Nat]
    BY <1>1, CallFields DEF Types
  <2>4. /\ k <= Cardinality(N)
        /\ \A r \in Below(updated', N, k) :
             \/ r # q /\ r \in Below(updated, S, k)
             \/ r = q /\ \E p \in Below(updated, S, k) : p # q /\ Ahead(updated', q, p)
    <3> DEFINE u == updated
               v == updated'
               t == call.since
    <3>1. /\ u \in [Records -> Nat] /\ v \in [Records -> Nat]
          /\ \A r \in Records \ {q} : v[r] = u[r]
          /\ S = Window(u, t) /\ N = Window(v, t) /\ k \in Nat /\ k <= Cardinality(S)
          /\ q \notin Below(u, S, k)
      BY <1>2, <2>1, <2>2, <2>3
    <3> HIDE DEF u, v, t, S, N, k
    <3> SUFFICES /\ k <= Cardinality(N)
                 /\ \A r \in Below(v, N, k) :
                      \/ r # q /\ r \in Below(u, S, k)
                      \/ r = q /\ \E p \in Below(u, S, k) : p # q /\ Ahead(v, q, p)
      BY DEF u, v
    <3> QED
      BY <3>1, Edits
  <2>5. \A r \in Window(updated', From) : updated'[r] < call.since => Known(r)'
    BY <1>2, <1>4, <1>6, <2>1 DEF Window
  <2>6. ASSUME NEW r \in Below(updated', N, k) PROVE Known(r)' /\ Behind(r)'
    <3>1. CASE r # q /\ r \in Below(updated, S, k)
      <4>1. r \in Records
        BY <3>1 DEF Below, Window
      <4>2. Known(r)'
        BY <1>4, <2>1, <3>1, <4>1
      <4>3. Behind(r)'
        BY <1>1, <1>2, <2>1, <3>1, <4>1 DEF Behind
      <4> QED
        BY <4>2, <4>3
    <3>2. CASE r = q /\ \E p \in Below(updated, S, k) : p # q /\ Ahead(updated', q, p)
      <4>1. PICK p \in Below(updated, S, k) : p # q /\ Ahead(updated', q, p)
        BY <3>2
      <4>2. p \in Records /\ Behind(p)
        BY <2>1, <4>1 DEF Below, Window
      <4>3. PICK x \in call.read : updated[p] < x[2] \/ (updated[p] = x[2] /\ p <= x[1])
        BY <4>2 DEF Behind
      <4>4. x[1] \in Nat /\ x[2] \in Nat /\ p \in Nat /\ q \in Nat
        BY <1>1, <4>2, CallFields, RecordAssumption
      <4>5. updated'[q] < x[2] \/ (updated'[q] = x[2] /\ q <= x[1])
        <5>1. updated'[q] \in Nat /\ updated'[p] \in Nat /\ updated'[p] = updated[p]
          BY <1>2, <4>1, <4>2
        <5> QED
          BY <4>1, <4>3, <4>4, <5>1 DEF Ahead
      <4>6. Behind(q)'
        BY <1>1, <4>3, <4>5 DEF Behind
      <4> QED
        BY <1>4, <3>2, <4>6
    <3> QED
      BY <2>4, <3>1, <3>2
  <2> QED
    BY <2>4, <2>5, <2>6
<1> QED
  BY <1>3, <1>7, <1>8 DEF PagingInv

(* A request of a backfill.                                                *)
LEMMA BackfillKeeps ==
  ASSUME PagingInv, BackfillPage
  PROVE  PagingInv'
<1> DEFINE S == InWindow(call.since)
           k == call.skip
           page == Page(S, k)
           last == Latest(Versions(page))
           R(r) == Rank(updated, S, r)
<1>1. Types /\ call.kind = "backfill" /\ ~call.ended /\ UNCHANGED <<table, cursor, history>>
  BY DEF PagingInv, BackfillPage
<1>2. call.since \in Nat /\ k \in Nat /\ call.read \in SUBSET (Records \X Nat)
  BY <1>1, CallFields
<1>3. S = Window(updated, call.since) /\ S \in SUBSET Records
  BY DEF InWindow, Since, Window
<1> HIDE DEF S
<1>4. /\ IsFiniteSet(S) /\ S \in SUBSET Nat
      /\ page = {r \in S : k <= R(r) /\ R(r) < k + PageSize}
      /\ page \in SUBSET S /\ IsFiniteSet(page) /\ Cardinality(page) \in Nat
      /\ Versions(page) \in SUBSET (Records \X Nat) /\ IsFiniteSet(Versions(page))
      /\ last \in Nat
  BY <1>1, <1>2, <1>3, PageRows
<1>5. \A r \in S : updated[r] \in Nat /\ R(r) \in Nat
  BY <1>1, <1>3, <1>4, Ranks DEF Types
<1>6. \A r \in page : <<r, updated[r]>> \in Versions(page)
  BY DEF Versions
<1>7. call' = IF Cardinality(page) < PageSize
                THEN [call EXCEPT !.read = @ \cup Versions(page), !.ended = TRUE]
                ELSE [call EXCEPT !.read = @ \cup Versions(page), !.resumed = TRUE,
                                  !.since = last, !.skip = Consumed(page, last)]
  BY DEF BackfillPage, S
<1> DEFINE same == Cardinality({r \in page : updated[r] = last})
<1>8. /\ same \in Nat /\ Consumed(page, last) \in Nat
      /\ \/ Consumed(page, last) = same
         \/ /\ Consumed(page, last) = same + k
            /\ call.since = last /\ \A r \in page : updated[r] = last
  <2>1. same \in Nat
    BY <1>4, FS_Subset, FS_CardinalityType
  <2>2. \/ Carried(page, last) = 0
        \/ Carried(page, last) = k /\ call.since = last /\ \A r \in page : updated[r] = last
    BY DEF Carried
  <2>3. Consumed(page, last) = same + Carried(page, last)
    BY DEF Consumed
  <2> HIDE DEF same, last, page
  <2> QED
    BY <1>2, <2>1, <2>2, <2>3
<1> HIDE DEF page, last, same
<1>9. /\ call' \in CallType /\ call'.kind = "backfill" /\ call'.read = call.read \cup Versions(page)
      /\ Cardinality(page) < PageSize => call'.ended
      /\ ~(Cardinality(page) < PageSize) =>
           ~call'.ended /\ call'.since = last /\ call'.skip = Consumed(page, last)
  <2>1. call \in CallType
    BY <1>1 DEF Types
  <2>2. call.read \cup Versions(page) \in SUBSET (Records \X Nat)
    BY <1>2, <1>4
  <2>3. CASE Cardinality(page) < PageSize
    BY <1>1, <1>7, <2>1, <2>2, <2>3 DEF CallType
  <2>4. CASE ~(Cardinality(page) < PageSize)
    BY <1>1, <1>4, <1>7, <1>8, <2>1, <2>2, <2>4 DEF CallType
  <2> QED
    BY <2>3, <2>4
<1>10. Types'
  <2>1. IsFiniteSet(call.read \cup Versions(page))
    BY <1>1, <1>4, FS_Union DEF Types
  <2> QED
    BY <1>1, <1>9, <2>1 DEF Types, table, history
<1>11. CASE shifted
  <2>1. shifted'
    BY <1>1, <1>11 DEF history
  <2> QED
    BY <1>10, <2>1 DEF PagingInv, Reading, AllRead
<1>12. CASE ~shifted
  <2>1. /\ k <= Cardinality(S)
        /\ \A r \in Window(updated, From) : updated[r] < call.since => Known(r)
        /\ \A r \in Below(updated, S, k) : Known(r) /\ Behind(r)
    BY <1>1, <1>3, <1>12 DEF PagingInv, Reading
  <2>2. \A r : Known(r) => Known(r)'
    BY <1>1, <1>9 DEF Known, table, history
  <2>3. ASSUME NEW r \in S, R(r) < k + PageSize PROVE Known(r)'
    <3>1. CASE R(r) < k
      BY <2>1, <2>2, <3>1 DEF Below
    <3>2. CASE ~(R(r) < k)
      <4>1. r \in page
        BY <1>2, <1>4, <1>5, <2>3, <3>2
      <4> QED
        BY <1>1, <1>6, <1>9, <4>1 DEF Known, table, history
    <3> QED
      BY <3>1, <3>2
  <2>4. \A r \in Window(updated, From) : r \in S \/ updated[r] < call.since
    BY <1>1, <1>2, <1>3 DEF Window, Types
  <2>5. /\ Cardinality(page) < PageSize => \A r \in S : R(r) < k + PageSize
        /\ ~(Cardinality(page) < PageSize) =>
             /\ Cardinality(page) = PageSize /\ k + PageSize <= Cardinality(S)
             /\ \E f \in page : \A r \in S :
                  R(r) < k + PageSize => r = f \/ Ahead(updated, r, f)
    <3>1. page = {r \in S : k <= R(r) /\ R(r) < k + PageSize}
      BY <1>4
    <3> QED
      BY <1>2, <1>4, <1>5, <2>1, <3>1, Requests
  <2>6. CASE Cardinality(page) < PageSize
    <3>1. \A r \in Window(updated, From) : Known(r)'
      BY <2>1, <2>2, <2>3, <2>4, <2>5, <2>6
    <3>2. AllRead'
      BY <1>1, <3>1 DEF AllRead, table
    <3>3. Reading'
      BY <1>9, <2>6 DEF Reading
    <3> QED
      BY <1>10, <3>2, <3>3 DEF PagingInv
  <2>7. CASE ~(Cardinality(page) < PageSize)
    <3>1. /\ Cardinality(page) = PageSize /\ k + PageSize <= Cardinality(S)
          /\ ~call'.ended /\ call'.since = last /\ call'.skip = Consumed(page, last)
      BY <1>9, <2>5, <2>7
    <3>2. PICK f \in page : \A r \in S : R(r) < k + PageSize => r = f \/ Ahead(updated, r, f)
      BY <2>5, <2>7
    <3>3. f \in S /\ R(f) < k + PageSize /\ updated[f] \in Nat
      BY <1>4, <1>5, <3>2
    <3>4. \A r \in S : R(r) < k + PageSize => updated[r] <= updated[f]
      BY <1>5, <3>2, <3>3 DEF Ahead
    <3>5. last = updated[f]
      <4> DEFINE V == Versions(page)
      <4>1. ASSUME NEW x \in V PROVE x[2] <= updated[f]
        <5>1. PICK r \in page : x = <<r, updated[r]>>
          BY DEF Versions
        <5>2. r \in S /\ R(r) < k + PageSize
          BY <1>4
        <5> QED
          BY <3>4, <5>1, <5>2
      <4>2. <<f, updated[f]>> \in V
        BY <1>6, <3>2
      <4>3. /\ last \in Nat /\ \A x \in V : x[2] <= last
            /\ last = 0 \/ \E x \in V : x[2] = last
        BY <1>4, LatestVersion DEF last
      <4> HIDE DEF V
      <4>4. updated[f] <= last
        BY <4>2, <4>3
      <4>5. last <= updated[f]
        BY <3>3, <4>1, <4>3
      <4> QED
        BY <3>3, <4>3, <4>4, <4>5
    <3> DEFINE N == Window(updated, last)
    <3>6. /\ N \in SUBSET S /\ N = {r \in S : updated[r] >= last} /\ N \in SUBSET Nat
          /\ IsFiniteSet(N)
      <4>1. call.since <= last
        BY <1>3, <3>3, <3>5 DEF Window
      <4>2. N = {r \in S : updated[r] >= last}
        <5> SUFFICES ASSUME NEW r \in Records
                     PROVE  r \in N <=> r \in S /\ updated[r] >= last
          BY <1>3 DEF Window
        <5>1. updated[r] \in Nat
          BY <1>1 DEF Types
        <5>2. r \in S <=> updated[r] # 0 /\ updated[r] >= call.since /\ updated[r] < To
          BY <1>3 DEF Window
        <5> QED
          BY <1>2, <1>4, <4>1, <5>1, <5>2 DEF Window
      <4> QED
        BY <1>4, <4>2, FS_Subset
    <3>7. \A r \in Window(updated, From) : updated[r] < last => Known(r)'
      <4> SUFFICES ASSUME NEW r \in Window(updated, From), updated[r] < last PROVE Known(r)'
        OBVIOUS
      <4>1. CASE updated[r] < call.since
        BY <2>1, <2>2, <4>1
      <4>2. CASE r \in S
        <5>1. Ahead(updated, r, f)
          BY <3>5 DEF Ahead
        <5>2. R(r) < R(f)
          BY <1>4, <1>5, <3>3, <4>2, <5>1, Ranks
        <5>3. R(r) < k + PageSize
          BY <1>2, <1>5, <3>3, <4>2, <5>2, PageAssumption
        <5> QED
          BY <2>3, <4>2, <5>3
      <4> QED
        BY <2>4, <4>1, <4>2
    <3>8. ASSUME NEW r \in S, R(r) < k + PageSize PROVE Known(r)' /\ Behind(r)'
      <4>1. r = f \/ Ahead(updated, r, f)
        BY <3>2, <3>8
      <4>2. <<f, updated[f]>> \in call'.read
        BY <1>6, <1>9, <3>2
      <4>3. updated[r] < updated[f] \/ (updated[r] = updated[f] /\ r <= f)
        BY <1>4, <3>3, <3>8, <4>1 DEF Ahead
      <4>4. Behind(r)'
        BY <1>1, <4>2, <4>3 DEF Behind, table
      <4> QED
        BY <2>3, <3>8, <4>4
    <3>9. /\ Consumed(page, last) <= Cardinality(N)
          /\ \A r \in Below(updated, N, Consumed(page, last)) : r \in S /\ R(r) < k + PageSize
      <4> DEFINE T == {r \in page : updated[r] = last}
      <4>1. CASE Consumed(page, last) = same
        <5>1. T \in SUBSET N /\ Cardinality(T) = same
          BY <1>4, <1>5, <3>6 DEF same
        <5>2. same <= Cardinality(N)
          BY <3>6, <5>1, FS_Subset
        <5>3. ASSUME NEW r \in N, Rank(updated, N, r) < same PROVE R(r) < k + PageSize
          <6> SUFFICES ASSUME ~(R(r) < k + PageSize) PROVE FALSE
            OBVIOUS
          <6> DEFINE B == {q \in N : Ahead(updated, q, r)}
          <6>1. r \in S /\ R(r) \in Nat
            BY <1>5, <3>6
          <6>2. ASSUME NEW q \in T PROVE Ahead(updated, q, r)
            <7>1. q \in S /\ R(q) < k + PageSize /\ R(q) \in Nat
              BY <1>4, <1>5
            <7>2. R(q) < R(r)
              BY <1>2, <6>1, <7>1, PageAssumption
            <7> QED
              BY <1>4, <1>5, <6>1, <7>1, <7>2, Ranks
          <6>3. T \in SUBSET B
            BY <5>1, <6>2
          <6>4. IsFiniteSet(B) /\ Cardinality(B) = Rank(updated, N, r)
            BY <3>6, FS_Subset DEF Rank
          <6>5. Cardinality(B) \in Nat
            BY <6>4, FS_CardinalityType
          <6> HIDE DEF B, T
          <6>6. same <= Cardinality(B)
            BY <5>1, <6>3, <6>4, FS_Subset
          <6> QED
            BY <1>8, <5>3, <6>4, <6>5, <6>6
        <5> QED
          BY <3>6, <4>1, <5>2, <5>3 DEF Below
      <4>2. CASE /\ Consumed(page, last) = same + k
                 /\ call.since = last /\ \A r \in page : updated[r] = last
        <5>1. T = page /\ same = PageSize
          BY <3>1, <4>2 DEF same
        <5>2. N = S
          BY <1>3, <4>2
        <5>3. same + k = k + PageSize
          BY <1>2, <5>1, PageAssumption
        <5> HIDE DEF N
        <5> QED
          BY <3>1, <4>2, <5>2, <5>3 DEF Below
      <4> QED
        BY <1>8, <4>1, <4>2
    <3>10. Reading'
      <4>1. updated' = updated
        BY <1>1 DEF table
      <4>2. \A r \in Below(updated, N, Consumed(page, last)) : Known(r)' /\ Behind(r)'
        BY <3>8, <3>9
      <4> QED
        BY <3>1, <3>7, <3>9, <4>1, <4>2 DEF Reading
    <3>11. AllRead'
      BY <3>1 DEF AllRead
    <3> QED
      BY <1>10, <3>10, <3>11 DEF PagingInv
  <2> QED
    BY <2>6, <2>7
<1> QED
  BY <1>11, <1>12

-----------------------------------------------------------------------------
(* Steps of a poll, of the clock, and those that begin or end a backfill.  *)
LEMMA PollTypes ==
  ASSUME Types, Poll
  PROVE  Types'
<1>1. CASE StartPoll
  <2> DEFINE new == [Idle EXCEPT !.kind = "poll", !.since = cursor]
  <2>1. new \in CallType /\ new.read = Idle.read
    BY IdleCall DEF Types, CallType
  <2>2. call' = new /\ UNCHANGED <<table, cursor, history>>
    BY <1>1 DEF StartPoll
  <2> HIDE DEF new
  <2> QED
    BY <2>1, <2>2, IdleCall DEF Types, table, history
<1>2. CASE PollPage
  <2> DEFINE page == Page(Since(call.since), call.skip)
             read == call.read \cup Versions(page)
             skip == call.skip + Cardinality(page)
             ended == ~(Cardinality(page) = PageSize /\ GoesOn(call.pages + 1, read))
  <2>1. call.skip \in Nat /\ call.pages \in Nat /\ call.read \in SUBSET (Records \X Nat)
    BY CallFields
  <2>2. Since(call.since) \in SUBSET Records
    BY DEF Since
  <2>3. /\ Cardinality(page) \in Nat /\ Versions(page) \in SUBSET (Records \X Nat)
        /\ IsFiniteSet(Versions(page))
    BY <2>1, <2>2, PageRows
  <2>4. read \in SUBSET (Records \X Nat) /\ IsFiniteSet(read) /\ skip \in Nat /\ ended \in BOOLEAN
    <3>1. IsFiniteSet(call.read)
      BY DEF Types
    <3> HIDE DEF page
    <3>2. IsFiniteSet(read)
      BY <2>3, <3>1, FS_Union
    <3>3. ended \in BOOLEAN
      OBVIOUS
    <3> HIDE DEF ended
    <3> QED
      BY <2>1, <2>3, <3>2, <3>3
  <2>5. /\ call' = [call EXCEPT !.read = read, !.skip = skip, !.pages = call.pages + 1,
                                !.ended = ended]
        /\ UNCHANGED <<table, cursor, history>>
    BY <1>2 DEF PollPage
  <2> HIDE DEF read, skip, ended
  <2>6. call' \in CallType /\ call'.read = read
    <3> DEFINE more == call.pages + 1
    <3>1. more \in Nat
      BY <2>1
    <3> HIDE DEF more
    <3>2. call \in CallType /\ call' = [call EXCEPT !.read = read, !.skip = skip, !.pages = more,
                                                    !.ended = ended]
      BY <2>5 DEF Types, more
    <3> QED
      BY <2>4, <3>1, <3>2 DEF CallType
  <2> QED
    BY <2>4, <2>5, <2>6 DEF Types, table, history
<1>3. CASE AcceptPoll
  <2>1. Latest(call.read) \in Nat /\ call.since \in Nat
    BY CallFields, LatestVersion DEF Types
  <2>2. IsFiniteSet({Latest(call.read), call.since})
    <3>1. IsFiniteSet({call.since} \cup {Latest(call.read)})
      BY FS_Singleton, FS_AddElement
    <3>2. {Latest(call.read), call.since} = {call.since} \cup {Latest(call.read)}
      OBVIOUS
    <3> QED
      BY <3>1, <3>2
  <2>3. Max({Latest(call.read), call.since}) \in Nat
    <3> DEFINE T == {Latest(call.read), call.since}
    <3>1. T \in SUBSET Nat /\ T # {}
      BY <2>1
    <3> HIDE DEF T
    <3>2. Max(T) \in Nat
      BY <2>2, <3>1, Largest DEF T
    <3> QED
      BY <3>2 DEF T
  <2>4. /\ cursor' = Max({Latest(call.read), call.since}) /\ call' = Idle /\ shifted' = FALSE
        /\ UNCHANGED table
    BY <1>3 DEF AcceptPoll
  <2> QED
    BY <2>3, <2>4, IdleCall DEF Types, table
<1> QED
  BY <1>1, <1>2, <1>3 DEF Poll

(* A poll is no backfill.                                                  *)
LEMMA PollKeeps ==
  ASSUME PagingInv, Poll
  PROVE  PagingInv'
<1>1. Types'
  BY PollTypes DEF PagingInv
<1>2. call'.kind # "backfill"
  <2>1. call \in CallType
    BY DEF PagingInv, Types
  <2>2. CASE StartPoll
    BY <2>2 DEF StartPoll, Idle
  <2>3. CASE PollPage
    BY <2>1, <2>3 DEF PollPage, CallType
  <2>4. CASE AcceptPoll
    BY <2>4 DEF AcceptPoll, Idle
  <2> QED
    BY <2>2, <2>3, <2>4 DEF Poll
<1> QED
  BY <1>1, <1>2 DEF PagingInv, Reading, AllRead

(* A backfill begins.                                                      *)
LEMMA StartKeeps ==
  ASSUME PagingInv, StartBackfill
  PROVE  PagingInv'
<1> DEFINE new == [Idle EXCEPT !.kind = "backfill", !.since = From]
<1>1. From \in Nat
  BY TimeAssumption
<1>2. /\ new \in CallType /\ new.kind = "backfill" /\ new.since = From /\ new.skip = 0
      /\ new.read = Idle.read /\ ~new.ended
  BY <1>1, IdleCall DEF CallType
<1>3. call' = new /\ UNCHANGED <<table, cursor, history>>
  BY DEF StartBackfill
<1> HIDE DEF new
<1>4. Types'
  BY <1>2, <1>3, IdleCall DEF PagingInv, Types, table, history
<1>5. AllRead'
  BY <1>2, <1>3 DEF AllRead
<1>6. Reading'
  <2> DEFINE S == Window(updated, From)
  <2>1. S \in SUBSET Records /\ S \in SUBSET Nat /\ IsFiniteSet(S)
    BY RecordAssumption, FS_Subset DEF Window
  <2>2. \A r \in S : updated[r] \in Nat /\ ~(updated[r] < From)
    BY <1>1 DEF Window, PagingInv, Types
  <2> HIDE DEF S
  <2>3. Cardinality(S) \in Nat /\ \A r \in S : Rank(updated, S, r) \in Nat
    BY <2>1, <2>2, Ranks
  <2>4. Below(updated, S, 0) = {}
    BY <2>3 DEF Below
  <2> QED
    BY <1>2, <1>3, <2>2, <2>3, <2>4 DEF Reading, S, table
<1> QED
  BY <1>4, <1>5, <1>6 DEF PagingInv

(* A backfill ends.                                                        *)
LEMMA DoneKeeps ==
  ASSUME PagingInv, BackfillDone
  PROVE  PagingInv'
<1>1. call' = Idle /\ shifted' = FALSE /\ UNCHANGED <<table, cursor>>
  BY DEF BackfillDone
<1>2. Types'
  BY <1>1, IdleCall DEF PagingInv, Types, table
<1> QED
  BY <1>1, <1>2, IdleCall DEF PagingInv, Reading, AllRead

(* Time passes, or nothing happens.                                        *)
LEMMA StillKeeps ==
  ASSUME PagingInv, UNCHANGED <<updated, cursor, call, history>>, clock' \in Nat
  PROVE  PagingInv'
<1>1. Types'
  BY DEF PagingInv, Types, history
<1>2. Reading' /\ AllRead'
  BY DEF PagingInv, Reading, AllRead, Known, Behind, history
<1> QED
  BY <1>1, <1>2 DEF PagingInv

(* Every step keeps the invariant.                                         *)
LEMMA PagingStep == PagingInv /\ [Next]_vars => PagingInv'
<1> SUFFICES ASSUME PagingInv, [Next]_vars PROVE PagingInv'
  OBVIOUS
<1>1. clock \in Nat
  BY DEF PagingInv, Types
<1>2. CASE Tick
  BY <1>1, <1>2, StillKeeps DEF Tick
<1>3. CASE \E r \in Records : Edit(r)
  BY <1>3, EditKeeps
<1>4. CASE Poll
  BY <1>4, PollKeeps
<1>5. CASE Backfill
  BY <1>5, StartKeeps, BackfillKeeps, DoneKeeps DEF Backfill
<1>6. CASE UNCHANGED vars
  BY <1>1, <1>6, StillKeeps DEF vars, table
<1> QED
  BY <1>2, <1>3, <1>4, <1>5, <1>6 DEF Next, Provider

(* The window of a backfill is read in full                                *)
(* (servicenow-connector.adapter.ts:247), however many rows share a        *)
(* second, whatever the size of a page, and whatever users add or change   *)
(* ahead of the reader between the requests: every row is read in its      *)
(* version of the end, or was touched by an edit meanwhile.                *)
THEOREM WindowsAreRead == Spec => []WindowIsRead
<1>1. PagingInv => WindowIsRead
  <2> SUFFICES ASSUME PagingInv, call.kind = "backfill", call.ended, ~shifted,
                      NEW r \in InWindow(From)
               PROVE  <<r, updated[r]>> \in call.read \cup touched
    BY DEF WindowIsRead, Versions
  <2>1. r \in Window(updated, From)
    BY DEF InWindow, Since, Window
  <2> QED
    BY <2>1 DEF PagingInv, AllRead, Known
<1> QED
  BY <1>1, PagingInit, PagingStep, PTL DEF Spec
=============================================================================
