------------------------------ MODULE AuditLog ------------------------------
(***************************************************************************)
(* What Cadena's audit trail promises its readers: for every tenant one    *)
(* log, to which events of that tenant are appended, each at most once,    *)
(* and from which nothing is ever removed or reordered.                    *)
(***************************************************************************)
EXTENDS Naturals, Sequences

CONSTANTS Orgs, Events, OrgOf

VARIABLE log

Logged(o) == {log[o][i] : i \in 1..Len(log[o])}

Init == log = [o \in Orgs |-> << >>]

IsExtension(old, new) == /\ Len(old) < Len(new)
                         /\ \A i \in 1..Len(old) : new[i] = old[i]

(* One commit: it extends the log of one tenant by events that are not in  *)
(* the log yet, each once.                                                 *)
AppendTo(o) ==
  /\ log' \in [Orgs -> Seq(Events)]
  /\ \A p \in Orgs \ {o} : log'[p] = log[p]
  /\ IsExtension(log[o], log'[o])
  /\ \A i \in Len(log[o]) + 1 .. Len(log'[o]) :
       /\ OrgOf[log'[o][i]] = o
       /\ \A j \in 1 .. i - 1 : log'[o][j] # log'[o][i]

Next == \E o \in Orgs : AppendTo(o)

Spec == Init /\ [][Next]_log
=============================================================================
