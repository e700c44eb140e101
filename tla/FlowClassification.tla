------------------------- MODULE FlowClassification -------------------------
(***************************************************************************)
(* Which states of a workflow count as worked, waiting or blocked          *)
(* (flow/flow-classification.service.ts): an append-only history of        *)
(* versions for the organization and for a team, written by several people *)
(* who each read the current versions before their transaction.            *)
(***************************************************************************)
EXTENDS Naturals, FiniteSets

CONSTANTS States,   \* workflow states
          Asks,     \* entries people save: [bucket, reason], the reason a category, "null" or "omitted"
          People,   \* concurrent calls of set
          MaxRows   \* bound: versions of one state in one scope

VARIABLES rows,  \* flow_state_classifications, with the `before' of the event of each
          save   \* calls of set that have read the current versions

vars == <<rows, save>>

Scopes == {"org", "team"}
Plain == "unclassified"
Rest == [stage |-> "rest"]
None == [version |-> 0]
Of(scope, s) == {r \in rows : r.scope = scope /\ r.state = s}
Current(scope) == [s \in States |->
  IF Of(scope, s) = {} THEN None ELSE CHOOSE r \in Of(scope, s) : \A q \in Of(scope, s) : q.version <= r.version]

Init == /\ rows = {} /\ save = [p \in People |-> Rest]

-----------------------------------------------------------------------------
(* set reads the versions of its scope before the transaction.             *)
BeginSet(p, scope, asks) == /\ save[p] = Rest
                            /\ save' = [save EXCEPT ![p] = [stage |-> "save", scope |-> scope, asks |-> asks, read |-> Current(scope)]]
                            /\ UNCHANGED rows

Reason(ask, old) == CASE ask.reason # "omitted" -> ask.reason [] old = None -> "null" [] OTHER -> old.reason
Unchanged(ask, old, scope) ==
  IF old # None THEN old.bucket = ask.bucket /\ old.reason = Reason(ask, old)
  ELSE ask.bucket = Plain /\ Reason(ask, old) = "null" /\ scope = "org"
Row(scope, s, ask, old) == [scope |-> scope, state |-> s, version |-> old.version + 1, bucket |-> ask.bucket,
                            reason |-> Reason(ask, old), before |-> IF old = None THEN Plain ELSE old.bucket]
New(call) == {Row(call.scope, s, call.asks[s], call.read[s]) :
                s \in {t \in DOMAIN call.asks : ~Unchanged(call.asks[t], call.read[t], call.scope)}}

(* The unique key of (scope, state, version): one row that is there undoes *)
(* the whole call.                                                         *)
CollidesMutant(new) == FALSE
Collides(new) == \E r \in new, q \in rows : r.scope = q.scope /\ r.state = q.state /\ r.version = q.version
Set(p) == LET new == New(save[p]) IN
          /\ save[p] # Rest
          /\ \A r \in new : r.version <= MaxRows
          /\ rows' = IF Collides(new) THEN rows ELSE rows \cup new
          /\ save' = [save EXCEPT ![p] = Rest]

Next == \E p \in People : \/ Set(p)
                          \/ \E scope \in Scopes, some \in SUBSET States \ {{}} :
                               \E asks \in [some -> Asks] : BeginSet(p, scope, asks)

-----------------------------------------------------------------------------
TypeOK == \A r \in rows : /\ r.scope \in Scopes /\ r.state \in States /\ r.version \in 1 .. MaxRows
                          /\ r.bucket \in {a.bucket : a \in Asks} /\ r.reason \in {"null"} \cup {a.reason : a \in Asks}

(* The history of a state in a scope is a chain, whoever wrote at the same *)
(* time: its versions are consecutive, the event of each names the one     *)
(* before it, and no version repeats the one before.                       *)
HistoryIsLinked ==
  /\ \A r \in rows : \A q \in Of(r.scope, r.state) : q.version = r.version => q = r
  /\ \A r \in rows : r.version > 1 =>
       \E q \in Of(r.scope, r.state) : /\ q.version = r.version - 1 /\ r.before = q.bucket
                                       /\ <<q.bucket, q.reason>> # <<r.bucket, r.reason>>
=============================================================================
