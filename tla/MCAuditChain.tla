---------------------------- MODULE MCAuditChain ----------------------------
(* The instance of AuditChain that TLC checks.                             *)
EXTENDS AuditChain

CONSTANTS o1, o2, e1, e2, e3

(* Two events contend for one tenant's chain; a third belongs to another.  *)
MCOrgs == {o1, o2}
MCEvents == {e1, e2, e3}
MCOrgOf == [e \in MCEvents |-> IF e = e3 THEN o2 ELSE o1]
MCLegacy == <<e1, e2>>
=============================================================================
