---------------------------- MODULE TaskResults ----------------------------
(***************************************************************************)
(* What vasal-protocol/src/task.rs and the executors agree on: the         *)
(* statuses of a task result and the shape of a chain's results.           *)
(***************************************************************************)
EXTENDS Integers, Sequences

TaskResultStatus == {"Success", "Failed", "Timeout", "Cancelled", "RolledBack"}

\* No executor ever returns RolledBack.
ExecStatus == TaskResultStatus \ {"RolledBack"}

\* A chain of n steps stops at the first result that is not a success, or
\* between two steps if its token is cancelled there.
IsChainResult(o, n, cancelled) ==
  /\ Len(o) <= n
  /\ \A k \in 1..(Len(o) - 1) : o[k] = "Success"
  /\ Len(o) < n /\ (o = <<>> \/ o[Len(o)] = "Success") => cancelled

============================================================================
