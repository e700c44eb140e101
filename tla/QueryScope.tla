------------------------------ MODULE QueryScope ------------------------------
(***************************************************************************)
(* What the validator lets a scheduled query read                          *)
(* (native-query-validator.ts, query-index-catalog.ts).  A JQL text is the *)
(* tree its parentheses and keywords make; an encoded ServiceNow query is  *)
(* a sequence of terms joined by '^', '^OR' and '^NQ'.  A query is written *)
(* step by step, and every text on the way is judged.                      *)
(***************************************************************************)
EXTENDS Naturals, Sequences, FiniteSets

CONSTANTS Fields,    \* the fields a predicate may name
          MaxLeaves, \* bound: predicates of one operand of a JQL text
          MaxTerms   \* bound: terms of an encoded query

(* What is known of a field: scope is a field whose equality names a slice *)
(* of the source; reported, declared and platform say who vouches for an   *)
(* index; dotted is a walk into another table.                             *)
FieldType == [scope : BOOLEAN, known : BOOLEAN, reported : BOOLEAN, declared : BOOLEAN,
              platform : BOOLEAN, dotted : BOOLEAN]

VARIABLES language, \* which of the two is written
          jql,      \* the JQL text: two operands of a last AND or OR
          terms     \* the encoded query

vars == <<language, jql, terms>>

(* A record of the provider: which fields match the value the query names, *)
(* and whether it changed since the watermark.                             *)
Provider == [equal : SUBSET Fields, recent : BOOLEAN]

-----------------------------------------------------------------------------
(***************************************************************************)
(* The index catalog.                                                      *)
(***************************************************************************)

JiraLookup(f) ==
  IF f.platform THEN "indexed"
  ELSE IF ~f.known THEN IF f.declared THEN "indexed" ELSE "unknown"
  ELSE IF f.reported \/ f.declared THEN "indexed" ELSE "unindexed"

ServiceNowLookupMutant(f) ==
  IF f.declared THEN "indexed"
  ELSE IF f.platform \/ f.reported THEN "indexed"
  ELSE IF f.known THEN "unindexed" ELSE "unknown"

ServiceNowLookup(f) ==
  IF f.declared THEN "indexed"
  ELSE IF f.dotted THEN IF f.known THEN "unindexed" ELSE "unknown"
  ELSE IF f.platform \/ f.reported THEN "indexed"
  ELSE IF f.known THEN "unindexed" ELSE "unknown"

(***************************************************************************)
(* JQL: leaves, negations, conjunctions and disjunctions.  A tree keeps    *)
(* its predicates, since an operator on trees would have to be recursive:  *)
(* what the validator computes of a tree is computed as it is written.     *)
(***************************************************************************)

(* isScoped: every branch of a disjunction, some part of a conjunction, a  *)
(* positive predicate on a scope field; a negation is none of these.       *)
Leaf(f, positive) ==
  [size |-> 1, scoped |-> f.scope /\ positive, fields |-> {f},
   matches |-> {r \in Provider : (f \in r.equal) = positive}]
Not(t) == [t EXCEPT !.scoped = FALSE, !.matches = Provider \ @]
And(t, s) == [size |-> t.size + s.size, scoped |-> t.scoped \/ s.scoped,
              fields |-> t.fields \cup s.fields, matches |-> t.matches \cap s.matches]
OrMutant(t, s) == [size |-> t.size + s.size, scoped |-> t.scoped \/ s.scoped,
                   fields |-> t.fields \cup s.fields, matches |-> t.matches \cup s.matches]
Or(t, s) == [size |-> t.size + s.size, scoped |-> t.scoped /\ s.scoped,
             fields |-> t.fields \cup s.fields, matches |-> t.matches \cup s.matches]

ValidJql(t) == t.scoped /\ \A f \in t.fields : JiraLookup(f) = "indexed"

(* fetchNativeQuery: the text in parentheses, and the watermark.           *)
JqlReads(t) == {r \in t.matches : r.recent}

(***************************************************************************)
(* Encoded queries.                                                        *)
(***************************************************************************)

Joins == {"and", "or", "nq", "empty"}
Term == [join : Joins, field : Fields, positive : BOOLEAN]

(* A '^NQ' starts a query of its own, which may have no condition.         *)
Starts(q) == {1} \cup {i \in DOMAIN q : q[i].join \in {"nq", "empty"}}
PartFrom(q, i) == {j \in DOMAIN q : /\ q[j].join # "empty"
                                    /\ j >= i
                                    /\ \A k \in Starts(q) : ~(i < k /\ k <= j)}

(* Within a part, '^OR' adds to the clause before it.                      *)
ClauseFrom(q, part, i) == {j \in part : /\ j >= i
                                        /\ \A k \in part : i < k /\ k <= j => q[k].join = "or"}
Clauses(q, part) == {ClauseFrom(q, part, i) :
                       i \in {i \in part : q[i].join # "or" \/ \A k \in part : k >= i}}

(* A term selects by its field, its operator and its value (306); here the *)
(* field stands for what a term of it can select and the sign for the      *)
(* operator.                                                               *)
Selective(term) == term.field.scope /\ term.positive
ScopedMutant(q, part) == \E i \in part : Selective(q[i])
Scoped(q, part) == \E clause \in Clauses(q, part) : \A i \in clause : Selective(q[i])

(* A part without conditions is passed over.                               *)
ValidEncoded(q) ==
  LET parts == {PartFrom(q, i) : i \in Starts(q)}
  IN  /\ parts # {{}}
      /\ \A part \in parts \ {{}} : Scoped(q, part)
      /\ \A i \in UNION parts : ServiceNowLookup(q[i].field) = "indexed"

(* fetchNativeQuery appends the watermark to every part.                   *)
HoldsFor(term, r) == (term.field \in r.equal) = term.positive
BoundedMutant(q, i, r) == (\A k \in Starts(q) : k <= i) => r.recent
BoundedPart(q, i, r) == r.recent
EncodedReads(q) ==
  {r \in Provider : \E i \in Starts(q) :
     /\ \A clause \in Clauses(q, PartFrom(q, i)) : \E j \in clause : HoldsFor(q[j], r)
     /\ BoundedPart(q, i, r)}

-----------------------------------------------------------------------------
Leaves == {Leaf(f, positive) : f \in Fields, positive \in BOOLEAN}

Init == /\ language \in {"jql", "encoded"}
        /\ IF language = "jql" THEN jql \in Leaves \X Leaves ELSE jql = << >>
        /\ IF language = "encoded"
             THEN terms \in [{1} -> [join : {"and"}, field : Fields, positive : BOOLEAN]]
             ELSE terms = << >>

Write(i, tree) == /\ tree.size <= MaxLeaves
                  /\ jql' = [jql EXCEPT ![i] = tree]
                  /\ UNCHANGED <<language, terms>>
Extend(i) == /\ language = "jql"
             /\ \/ \E leaf \in Leaves : Write(i, And(jql[i], leaf)) \/ Write(i, Or(jql[i], leaf))
                \/ Write(i, Not(jql[i]))
AppendTerm == /\ language = "encoded"
              /\ Len(terms) < MaxTerms
              /\ \E term \in Term : terms' = Append(terms, term)
              /\ UNCHANGED <<language, jql>>
Next == \/ \E i \in {1, 2} : Extend(i)
        \/ AppendTerm
Spec == Init /\ [][Next]_vars

-----------------------------------------------------------------------------
InScope(r) == \E f \in r.equal : f.scope
Vouched(f) == f.reported \/ f.declared \/ f.platform

(* native-query-validator.ts:13-16: a valid query has "a positive scope    *)
(* predicate ... on every branch of the query", whatever conjunctions,     *)
(* alternatives and negations it is made of: no record outside the scope   *)
(* is read, and every field it filters on has an index somebody vouches    *)
(* for.                                                                    *)
JqlStaysInScope ==
  language = "jql" =>
    \A tree \in {jql[1], And(jql[1], jql[2]), Or(jql[1], jql[2])} :
      ValidJql(tree) => /\ \A r \in JqlReads(tree) : InScope(r)
                        /\ \A f \in tree.fields : Vouched(f)

(* The same of encoded queries, except that an empty '^NQ' part reads      *)
(* everything that changed; and servicenow-connector.adapter.ts:165: every *)
(* part is bounded by the watermark.                                       *)
EncodedStaysInScope ==
  language = "encoded" /\ ValidEncoded(terms) =>
    /\ \A r \in EncodedReads(terms) :
         r.recent /\ (InScope(r) \/ \E i \in DOMAIN terms : terms[i].join = "empty")
    /\ \A i \in DOMAIN terms :
         terms[i].join # "empty" =>
           Vouched(terms[i].field) /\ (terms[i].field.dotted => terms[i].field.declared)
=============================================================================
