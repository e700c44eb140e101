------------------------------ MODULE SyncGuard ------------------------------
(***************************************************************************)
(* The guard against echoes (integrations/sync-guard.service.ts) between   *)
(* the writes Cadena pushes into one provider item and the propagation of  *)
(* the changes it reads from there (ConnectorService.acceptPropagation-    *)
(* Event).  Markers of recent writes are kept in memory, the last content  *)
(* in a row; both are written after the provider took the write.           *)
(***************************************************************************)
EXTENDS Naturals, Sequences, FiniteSets

CONSTANTS Contents,   \* contents of the item: its state and watched fields
          MaxChanges, \* bound: changes of the item
          MaxMishaps  \* bound: kinds of trouble in one behaviour

VARIABLES feed,      \* the item's changes, each with its author, in provider order
          receipt,   \* their rows of integration_connector_propagations
          ordered,   \* changes whose work orders are stored
          handler,   \* where the handler of a change is, and what it decided
          snapshot,  \* the row of integration_sync_snapshots
          markers,   \* contents of recent writes, in memory
          write,     \* a write on its way: pushed, then its row, then its marker
          unguarded, \* history: changes whose handler stopped after the guard's commit
          mishaps    \* history: what went wrong

vars == <<feed, receipt, ordered, handler, snapshot, markers, write, unguarded, mishaps>>

Ids == 1 .. MaxChanges
Nothing == "nothing"
Idle == [stage |-> "idle", reason |-> Nothing]
NoWrite == [stage |-> "none", text |-> Nothing]
Changes == 1 .. Len(feed)
Content == IF feed = << >> THEN Nothing ELSE feed[Len(feed)].text
Concluded(e) == receipt[e] \in {"completed", "echo_suppressed"}

(* A mishap of a kind that happened before is free; a new one is counted.  *)
Mishap(kinds) == /\ Cardinality(mishaps \cup kinds) <= MaxMishaps
                 /\ mishaps' = mishaps \cup kinds

Init == /\ feed = << >>
        /\ receipt = [e \in Ids |-> "none"]
        /\ ordered = {}
        /\ handler = [e \in Ids |-> Idle]
        /\ snapshot = Nothing
        /\ markers = {}
        /\ write = NoWrite
        /\ unguarded = {}
        /\ mishaps = {}

(* A person changes the item.                                              *)
Edit(text) == /\ Len(feed) < MaxChanges /\ text # Content
              /\ feed' = Append(feed, [author |-> "person", text |-> text])
              /\ UNCHANGED <<receipt, ordered, handler, snapshot, markers, write, unguarded, mishaps>>

(***************************************************************************)
(* The write: executeWorkOrder pushes it, then recordIntegrationWrite      *)
(* stores the snapshot, and after the commit the marker.                   *)
(***************************************************************************)

Push(text) == /\ write.stage = "none"
              /\ Len(feed) < MaxChanges /\ text # Content
              /\ feed' = Append(feed, [author |-> "connector", text |-> text])
              /\ write' = [stage |-> "pushed", text |-> text]
              /\ Mishap(IF text \in markers THEN {"twice"} ELSE {})
              /\ UNCHANGED <<receipt, ordered, handler, snapshot, markers, unguarded>>

Deciding == {e \in Changes : handler[e].stage = "decide"}

RecordSnapshot == /\ write.stage = "pushed"
                  /\ snapshot' = write.text
                  /\ write' = [write EXCEPT !.stage = "recorded"]
                  /\ Mishap(IF Deciding # {} THEN {"overlap"} ELSE {})
                  /\ UNCHANGED <<feed, receipt, ordered, handler, markers, unguarded>>

RecordMarkerMutant == /\ write.stage = "recorded"
                      /\ write' = NoWrite
                      /\ UNCHANGED <<feed, receipt, ordered, handler, snapshot, markers, unguarded, mishaps>>
RecordMarker == /\ write.stage = "recorded"
                /\ markers' = markers \cup {write.text}
                /\ write' = NoWrite
                /\ UNCHANGED <<feed, receipt, ordered, handler, snapshot, unguarded, mishaps>>

(***************************************************************************)
(* The handler of a change: receipt, decision, commit of the decision,     *)
(* outcome.  Deliveries of different changes run concurrently.             *)
(***************************************************************************)

Enter(e, stage) == handler' = [handler EXCEPT ![e].stage = stage]

(* A concluded receipt ends a redelivery before it begins.                 *)
Receive(e) == /\ handler[e].stage = "idle" /\ ~Concluded(e)
              /\ receipt' = [receipt EXCEPT ![e] = "processing"]
              /\ Enter(e, "look")
              /\ UNCHANGED <<feed, ordered, snapshot, markers, write, unguarded, mishaps>>

ReasonMutant(e) ==
  IF feed[e].text \in markers THEN "self_originated_hash"
  ELSE IF snapshot = feed[e].text THEN "content_noop"
  ELSE "external_change"
Reason(e) ==
  IF feed[e].author = "connector" /\ feed[e].text \in markers THEN "self_originated_hash"
  ELSE IF snapshot = feed[e].text THEN "content_noop"
  ELSE "external_change"

InTurn(e) == (\A d \in 1 .. e - 1 : Concluded(d)) /\ Deciding = {}

(* evaluateWebhook reads outside the transaction that commits.             *)
Look(e) == /\ handler[e].stage = "look"
           /\ handler' = [handler EXCEPT ![e] = [stage |-> "decide", reason |-> Reason(e)]]
           /\ Mishap((IF InTurn(e) THEN {} ELSE {"overlap"})
                       \cup (IF write.stage = "none" THEN {} ELSE {"late"}))
           /\ UNCHANGED <<feed, receipt, ordered, snapshot, markers, write, unguarded>>

DecideMutant(e) ==
  /\ handler[e].stage = "decide"
  /\ snapshot' = snapshot
  /\ Enter(e, IF handler[e].reason = "external_change" THEN "fan out" ELSE "suppress")
  /\ UNCHANGED <<feed, receipt, ordered, markers, write, unguarded, mishaps>>
Decide(e) ==
  /\ handler[e].stage = "decide"
  /\ snapshot' = IF handler[e].reason = "external_change" THEN feed[e].text ELSE snapshot
  /\ markers' = IF handler[e].reason = "self_originated_hash"
                THEN markers \ {feed[e].text} ELSE markers
  /\ Enter(e, IF handler[e].reason = "external_change" THEN "fan out" ELSE "suppress")
  /\ UNCHANGED <<feed, receipt, ordered, write, unguarded, mishaps>>

Conclude(e, outcome) == /\ receipt' = [receipt EXCEPT ![e] = outcome]
                        /\ handler' = [handler EXCEPT ![e] = Idle]
                        /\ UNCHANGED <<feed, snapshot, markers, write, unguarded, mishaps>>

Suppress(e) == /\ handler[e].stage = "suppress"
               /\ ordered' = ordered
               /\ Conclude(e, "echo_suppressed")

FanOut(e) == /\ handler[e].stage = "fan out"
             /\ ordered' = ordered \cup {e}
             /\ Conclude(e, "completed")

(***************************************************************************)
(* Failures.  A redelivery starts over, with what the guard committed.     *)
(***************************************************************************)

Interrupted(es) == unguarded' = unguarded \cup {e \in es : handler[e].stage \in {"suppress", "fan out"}}

(* A query of the handler fails; the bus delivers the event again.         *)
Error(e) == /\ handler[e].stage # "idle"
            /\ handler' = [handler EXCEPT ![e] = Idle]
            /\ Interrupted({e})
            /\ Mishap({"error"})
            /\ UNCHANGED <<feed, receipt, ordered, snapshot, markers, write>>

(* A restart ends every handler and forgets the markers; an unrecorded     *)
(* write is pushed again, and the item has that content already.           *)
Restart == /\ handler' = [e \in Ids |-> Idle]
           /\ markers' = {}
           /\ Interrupted(Changes)
           /\ Mishap({"forgotten"})
           /\ write' = IF write.stage = "none" \/ write.text = Content
                       THEN [write EXCEPT !.stage = IF @ = "none" THEN @ ELSE "pushed"]
                       ELSE NoWrite
           /\ UNCHANGED <<feed, receipt, ordered, snapshot>>

(* The suppression window ends.                                            *)
Expire == /\ markers # {}
          /\ markers' = {}
          /\ Mishap({"forgotten"})
          /\ UNCHANGED <<feed, receipt, ordered, handler, snapshot, write, unguarded>>

Next == \/ \E text \in Contents : Edit(text) \/ Push(text)
        \/ RecordSnapshot \/ RecordMarker \/ Restart \/ Expire
        \/ \E e \in Changes : Receive(e) \/ Look(e) \/ Decide(e) \/ Suppress(e) \/ FanOut(e) \/ Error(e)

Spec == Init /\ [][Next]_vars

-----------------------------------------------------------------------------
TypeOK ==
  /\ feed \in Seq([author : {"person", "connector"}, text : Contents]) /\ Len(feed) <= MaxChanges
  /\ receipt \in [Ids -> {"none", "processing", "echo_suppressed", "completed"}]
  /\ ordered \subseteq Ids /\ unguarded \subseteq Ids
  /\ handler \in [Ids -> [stage : {"idle", "look", "decide", "suppress", "fan out"},
                          reason : {Nothing, "self_originated_hash", "content_noop", "external_change"}]]
  /\ snapshot \in Contents \cup {Nothing} /\ markers \subseteq Contents
  /\ write \in [stage : {"none", "pushed", "recorded"}, text : Contents \cup {Nothing}]
  /\ mishaps \subseteq {"overlap", "late", "twice", "error", "forgotten"}

(* A write of Cadena's own is not sent back to where it came from, whatever *)
(* changes of people stand before it in the feed.  It takes a change       *)
(* evaluated out of turn or before its record, a marker lost, used up by a *)
(* handler that stopped, or shared by two writes of one content.  (sync-guard.service.ts:22)     *)
EchoStaysHome ==
  \A e \in ordered : feed[e].author = "connector" =>
    unguarded # {} \/ mishaps \cap {"overlap", "late", "twice", "forgotten"} # {}

(* A change of a person is ignored only when the other side gave the item  *)
(* that content or was given it, and no other change was passed on since.  *)
(* Else changes were evaluated out of turn or before a record, or the      *)
(* handler stopped between the guard's commit and the work orders, and its *)
(* redelivery is taken for an echo.  (connector.service.ts:1509, 1443)     *)
Agreed(e) == \E d \in Changes \ {e} :
  /\ feed[d].text = feed[e].text
  /\ feed[d].author = "connector" \/ (d < e /\ d \in ordered \cup unguarded)
  /\ \A between \in d + 1 .. e - 1 : between \notin ordered \cup unguarded
ChangeIsKept ==
  \A e \in Changes : (feed[e].author = "person" /\ receipt[e] = "echo_suppressed") =>
    e \in unguarded \/ mishaps \cap {"overlap", "late"} # {} \/ Agreed(e)
=============================================================================
