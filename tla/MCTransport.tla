---------------------------- MODULE MCTransport ----------------------------
(* The instance of Transport that TLC checks: three calls of two processes *)
(* and two relayed ones, a backfill job of up to two chunks, a query with  *)
(* three texts, two webhooks about two stories, two connectors.            *)
EXTENDS Transport, TLC
CONSTANTS p1, p2, c1, c2, c3, a, b, x, r1, r2, d1, d2, i1, i2, u1, u2

HomeOf == (c1 :> p1) @@ (c2 :> p1) @@ (c3 :> p2)
QuotaOf == (p1 :> 2) @@ (p2 :> 1)
Bag(p, e, f, k, l) == [pressure |-> p, error |-> e, fault |-> f, crash |-> k, stall |-> l]
SomeStrains == {Bag(2, 1, 0, 0, 0), Bag(3, 0, 0, 0, 1), Bag(1, 0, 1, 1, 0)}

Once(kinds) == [kind \in {"transient", "fatal", "shed", "fault", "crash", "stall",
                             "pause", "cancel", "retry"} |->
                  IF kind \in kinds THEN 1 ELSE 0]
SomeMisfortunes == {Once({"stall", "fatal"}), Once({"cancel", "retry"}),
                    Once({"pause", "shed"}), Once({"fault", "crash", "retry"})}
TwoRanges == {<<1, 5, 2>>, <<0, 7, 4>>}

MatchesOf == (a :> {r1}) @@ (b :> {r1, r2}) @@ (x :> {r2})
SomeVisits == {[request |-> 4, stall |-> 0], [request |-> 2, stall |-> 1]}
Predicate(s, r, d) == [scope |-> s, known |-> TRUE, reported |-> r, declared |-> FALSE,
                       platform |-> FALSE, dotted |-> d]
ThreeFields == {Predicate(TRUE, TRUE, FALSE), Predicate(FALSE, TRUE, FALSE), Predicate(TRUE, TRUE, TRUE)}

MentionsOf == (d1 :> {i1, i2}) @@ (d2 :> {i1})
Crisis(c, f, r, p) == [crash |-> c, fault |-> f, replay |-> r, person |-> p]
SomeCrises == {Crisis(1, 1, 0, 0), Crisis(0, 2, 1, 0), Crisis(1, 0, 0, 1)}

HostOf == (u1 :> p1) @@ (u2 :> p2)
=============================================================================
