-------------------------- MODULE MCCommentDelivery --------------------------
(* Two linked records; a policy that hides comments is the one that        *)
(* administrators set; the troubles of one behaviour.                      *)
EXTENDS CommentDelivery
CONSTANTS a, b
Both == [t \in {a, b} |-> {a, b} \ {t}]
PolicySet == {[Bidirectional EXCEPT !.permit = FALSE]}
Pairs == {{"crash", "lost"}, {"stall", "remote"}, {"lost", "shed"}, {"fault", "refuse"},
          {"pause", "policy"}, {"comment", "pause"}}
=============================================================================
