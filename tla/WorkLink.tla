------------------------------ MODULE WorkLink ------------------------------
(***************************************************************************)
(* What the agent's main loop may rely on in a transport: the work it is   *)
(* given is a subsequence of the work the control plane offered.  Work can *)
(* be lost; it is never invented, repeated or overtaken.  Each time the    *)
(* control plane hands out a task counts as one offer.                     *)
(***************************************************************************)
EXTENDS Naturals, Sequences

VARIABLES
  offered,  \* number of offers made, which also names the latest one
  taken     \* offers given to the task manager, in order

linkVars == <<offered, taken>>

Init == offered = 0 /\ taken = <<>>

Offer ==
  /\ offered' \in Nat /\ offered' > offered
  /\ UNCHANGED taken

Newest == IF taken = <<>> THEN 0 ELSE taken[Len(taken)]

Take ==
  /\ \E n \in (Newest + 1)..offered : taken' = Append(taken, n)
  /\ UNCHANGED offered

Next == Offer \/ Take

Spec == Init /\ [][Next]_linkVars

============================================================================
