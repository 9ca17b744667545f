------------------------------ MODULE AuditLog ------------------------------
(***************************************************************************)
(* What the audit trail promises the control plane: rows are only ever     *)
(* added, nothing that was not recorded is received, and the control plane *)
(* never has a row without having all the rows recorded before it.  Rows   *)
(* may be received more than once.                                         *)
(***************************************************************************)
EXTENDS Integers

VARIABLES
  rows,     \* number of rows recorded; row n is the n-th
  received  \* rows the control plane has

vars == <<rows, received>>

Init == rows = 0 /\ received = {}

Record ==
  /\ rows' = rows + 1
  /\ UNCHANGED received

\* More rows arrive, possibly some of those there already, and leave no gap.
Receive ==
  /\ \E S \in SUBSET (1..rows) : received' = received \cup S
  /\ \A i \in received' : 1..i \subseteq received'
  /\ UNCHANGED rows

Next == Record \/ Receive

Spec == Init /\ [][Next]_vars

============================================================================
