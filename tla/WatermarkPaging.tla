--------------------------- MODULE WatermarkPaging ---------------------------
(***************************************************************************)
(* How the ServiceNow adapter reads a table that users keep editing        *)
(* (servicenow-connector.adapter.ts).  A poll asks for everything since    *)
(* the watermark, page by page at growing offsets, under a page budget; a  *)
(* backfill reads a window of the past, page by page from a token.  Every  *)
(* request sorts the table as it is at that moment by time and then id, so *)
(* a row edited between two requests moves.                                *)
(***************************************************************************)
EXTENDS Naturals, FiniteSets, FiniteSetsExt

CONSTANTS Records,   \* rows of the table, by sys_id
          PageSize,  \* PAGE_SIZE
          MaxPages,  \* maxPagesPerPoll
          Now,       \* bound: the last second modelled
          MaxEdits,  \* bound: changes of rows
          From, To   \* the window of the backfill: From <= time < To

ASSUME RecordAssumption == Records \subseteq Nat /\ IsFiniteSet(Records)
ASSUME PageAssumption == PageSize \in Nat \ {0} /\ MaxPages \in Nat \ {0}
ASSUME TimeAssumption == {Now, MaxEdits, From, To} \subseteq Nat

VARIABLES updated,   \* sys_updated_on of each row, 0 while it does not exist
          clock,     \* the provider's time, in seconds
          edits,     \* changes made so far
          cursor,    \* the stored watermark, 0 before the first poll
          accepted,  \* versions <<row, time>> accepted into the intake queue
          call,      \* the poll or backfill under way
          touched,   \* history: versions that an edit ended or began during it
          shifted    \* history: one of those it ended was behind the reader

table == <<updated, clock, edits>>
history == <<touched, shifted>>
vars == <<table, cursor, accepted, call, history>>

Idle == [kind |-> "none", since |-> 0, skip |-> 0, pages |-> 0, read |-> {},
         ended |-> FALSE, resumed |-> FALSE]

(* The rows a query selects, and the part of them one request returns.     *)
Before(q, r) == updated[q] < updated[r] \/ (updated[q] = updated[r] /\ q < r)
Page(rows, offset) ==
  {r \in rows : LET rank == Cardinality({q \in rows : Before(q, r)})
                IN  offset <= rank /\ rank < offset + PageSize}
Since(t) == {r \in Records : updated[r] # 0 /\ updated[r] >= t}
InWindow(t) == {r \in Since(t) : updated[r] < To}
Versions(rows) == {<<r, updated[r]>> : r \in rows}
Latest(versions) == Max({v[2] : v \in versions} \cup {0})
Behind(r) == \E v \in call.read : updated[r] < v[2] \/ (updated[r] = v[2] /\ r <= v[1])

-----------------------------------------------------------------------------
Init == /\ updated = [r \in Records |-> 0]
        /\ clock = 1
        /\ edits = 0
        /\ cursor = 0
        /\ accepted = {}
        /\ call = Idle
        /\ touched = {}
        /\ shifted = FALSE

(* Users of the provider create and change rows; time passes.              *)
Edit(r) == /\ edits < MaxEdits
           /\ updated' = [updated EXCEPT ![r] = clock]
           /\ edits' = edits + 1
           /\ touched' = IF call.kind = "none" THEN {}
                          ELSE touched \cup {<<r, updated[r]>>, <<r, clock>>}
           /\ shifted' = (shifted \/ (updated[r] # 0 /\ Behind(r)))
           /\ UNCHANGED <<clock, cursor, accepted, call>>

Tick == /\ clock < Now
        /\ clock' = clock + 1
        /\ UNCHANGED <<updated, edits, cursor, accepted, call, history>>

(***************************************************************************)
(* A poll: fetchChanges, queryPages and acceptIngestionPage.               *)
(***************************************************************************)
StartPoll == /\ call.kind = "none"
             /\ call' = [Idle EXCEPT !.kind = "poll", !.since = cursor]
             /\ UNCHANGED <<table, cursor, accepted, history>>

(* The page budget applies only after the watermark has moved.             *)
GoesOnMutant(pages, versions) == pages < MaxPages
GoesOn(pages, versions) == pages < MaxPages \/ Latest(versions) <= call.since

PollPage ==
  LET page == Page(Since(call.since), call.skip)
      read == call.read \cup Versions(page)
      full == Cardinality(page) = PageSize
  IN  /\ call.kind = "poll"
      /\ ~call.ended
      /\ call' = [call EXCEPT !.read = read, !.skip = @ + Cardinality(page), !.pages = @ + 1,
                              !.ended = ~(full /\ GoesOn(call.pages + 1, read))]
      /\ UNCHANGED <<table, cursor, accepted, history>>

(* The records and the new watermark are stored in one transaction.        *)
AcceptPoll == /\ call.kind = "poll"
              /\ call.ended
              /\ accepted' = accepted \cup call.read
              /\ cursor' = Max({Latest(call.read), call.since})
              /\ call' = Idle
              /\ touched' = {}
              /\ shifted' = FALSE
              /\ UNCHANGED table

(***************************************************************************)
(* A backfill window: fetchBackfillPage, until it returns no token.  The   *)
(* token is the last time read and how many rows of it were read.          *)
(***************************************************************************)
StartBackfill == /\ call.kind = "none"
                 /\ call' = [Idle EXCEPT !.kind = "backfill", !.since = From]
                 /\ UNCHANGED <<table, cursor, accepted, history>>

CarriedMutant(page, last) == 0
CarriedMutantAlways(page, last) == IF call.resumed THEN call.skip ELSE 0
Carried(page, last) ==
  IF call.resumed /\ call.since = last /\ \A r \in page : updated[r] = last THEN call.skip ELSE 0

Consumed(page, last) == Cardinality({r \in page : updated[r] = last}) + Carried(page, last)

BackfillPage ==
  LET page == Page(InWindow(call.since), call.skip)
      last == Latest(Versions(page))
  IN  /\ call.kind = "backfill"
      /\ ~call.ended
      /\ accepted' = accepted \cup Versions(page)
      /\ call' = IF Cardinality(page) < PageSize
                   THEN [call EXCEPT !.read = @ \cup Versions(page), !.ended = TRUE]
                   ELSE [call EXCEPT !.read = @ \cup Versions(page), !.resumed = TRUE,
                                     !.since = last, !.skip = Consumed(page, last)]
      /\ UNCHANGED <<table, cursor, history>>

BackfillDone == /\ call.kind = "backfill"
                /\ call.ended
                /\ call' = Idle
                /\ touched' = {}
                /\ shifted' = FALSE
                /\ UNCHANGED <<table, cursor, accepted>>

-----------------------------------------------------------------------------
Provider == Tick \/ \E r \in Records : Edit(r)
Poll == StartPoll \/ PollPage \/ AcceptPoll
Backfill == StartBackfill \/ BackfillPage \/ BackfillDone

Next == Provider \/ Poll \/ Backfill

Spec == Init /\ [][Next]_vars

(* Requests are answered, and polls keep being made between backfills.     *)
Fairness == /\ WF_vars(PollPage \/ AcceptPoll)
            /\ SF_vars(StartPoll)
            /\ WF_vars(BackfillPage \/ BackfillDone)
FairSpec == Spec /\ Fairness

-----------------------------------------------------------------------------
(***************************************************************************)
(* Properties.                                                             *)
(***************************************************************************)

(* As long as no row behind the reader is edited                           *)
(* (servicenow-connector.adapter.ts:247), a window is read in full,        *)
(* however many of its rows share a second, and whatever is added before   *)
(* or after the reader.                                                    *)
WindowIsRead ==
  call.kind = "backfill" /\ call.ended /\ ~shifted =>
    Versions(InWindow(From)) \subseteq call.read \cup touched

(* jira-connector.adapter.ts, searchPages: a busy moment larger than the   *)
(* page budget is not "re-read forever without progress": the watermark    *)
(* reaches every row.  A backfill of more rows than a page within one      *)
(* second comes to an end (servicenow-connector.adapter.ts:219).           *)
ReaderAdvances ==
  /\ \A r \in Records : \A t \in 1 .. Now : updated[r] = t ~> cursor >= t
  /\ call.kind = "backfill" ~> call.kind = "none"
=============================================================================
