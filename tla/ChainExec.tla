----------------------------- MODULE ChainExec -----------------------------
(***************************************************************************)
(* One call of chain::execute (task/chain.rs): the steps of a chain run    *)
(* one after the other; the first result that is not a success starts the  *)
(* rollbacks.  A cancel request may arrive between any two await points.   *)
(* Step n is index n - 1 of the code.                                      *)
(***************************************************************************)
EXTENDS TaskResults

CONSTANT NSteps  \* chain.steps.len()

ASSUME NStepsOK == NSteps \in Nat

Steps == 1..NSteps

VARIABLES
  onFailure,    \* chain.on_failure
  hasRollback,  \* the steps with a rollback task
  cpc,          \* where execute / run_rollbacks is
  idx,          \* the current step
  results,      \* statuses pushed so far
  rb,           \* the step whose rollback is next, counting down
  rolled,       \* rollbacks executed, in order: [step, status]
  skipped,      \* rollbacks whose credentials could not be resolved
  events,       \* audit::record calls of this chain, in order
  cancelledAt   \* number of results when the token was cancelled, else -1

chain == <<onFailure, hasRollback>>
vars == <<chain, cpc, idx, results, rb, rolled, skipped, events, cancelledAt>>

RollbackStrategy == {"RollbackAll", "RollbackFailed"}

ChainPC == {"start", "head", "creds", "exec", "rollback", "rbcreds", "rbexec", "done"}

is_cancelled == cancelledAt >= 0

\* Lower end of rollback_range, whose upper end is the failed step.
RollbackLow == IF onFailure = "RollbackAll" THEN 1 ELSE idx

Init ==
  /\ onFailure \in RollbackStrategy
  /\ hasRollback \in SUBSET Steps
  /\ cpc = "start"
  /\ idx = 1
  /\ results = <<>>
  /\ rb = 0
  /\ rolled = <<>>
  /\ skipped = {}
  /\ events = <<>>
  /\ cancelledAt = -1

\* handle_cancel cancels the chain's token at any time.
Cancel ==
  /\ cpc # "done" /\ ~is_cancelled
  /\ cancelledAt' = Len(results)
  /\ UNCHANGED <<chain, cpc, idx, results, rb, rolled, skipped, events>>

Start ==
  /\ cpc = "start"
  /\ events' = Append(events, "chain.started")
  /\ cpc' = "head"
  /\ UNCHANGED <<chain, idx, results, rb, rolled, skipped, cancelledAt>>

\* Mutant: the loop does not look at the token.
BeginStepDeaf ==
  /\ cpc = "head" /\ idx <= NSteps
  /\ cpc' = "creds"
  /\ UNCHANGED <<chain, idx, results, rb, rolled, skipped, events, cancelledAt>>

\* Head of the loop, another step to run.
BeginStep ==
  /\ cpc = "head" /\ idx <= NSteps /\ ~is_cancelled
  /\ cpc' = "creds"
  /\ UNCHANGED <<chain, idx, results, rb, rolled, skipped, events, cancelledAt>>

\* The loop ends because all steps ran or because of the break.
Complete ==
  /\ cpc = "head" /\ (idx > NSteps \/ is_cancelled)
  /\ events' = Append(events, "chain.completed")
  /\ cpc' = "done"
  /\ UNCHANGED <<chain, idx, results, rb, rolled, skipped, cancelledAt>>

CredsResolved ==
  /\ cpc = "creds"
  /\ cpc' = "exec"
  /\ UNCHANGED <<chain, idx, results, rb, rolled, skipped, events, cancelledAt>>

\* Mutant: the failing result is not pushed.
FailDropsResult(status) ==
  /\ events' = Append(events, "chain.rollback")
  /\ rb' = idx
  /\ cpc' = "rollback"
  /\ UNCHANGED <<chain, idx, results, rolled, skipped, cancelledAt>>

\* Push the failing result and enter run_rollbacks.
Fail(status) ==
  /\ results' = Append(results, status)
  /\ events' = Append(events, "chain.rollback")
  /\ rb' = idx
  /\ cpc' = "rollback"
  /\ UNCHANGED <<chain, idx, rolled, skipped, cancelledAt>>

CredsFailed == cpc = "creds" /\ Fail("Failed")

StepSucceeds ==
  /\ cpc = "exec"
  /\ results' = Append(results, "Success")
  /\ idx' = idx + 1
  /\ cpc' = "head"
  /\ UNCHANGED <<chain, rb, rolled, skipped, events, cancelledAt>>

\* A cancelled step is a failed step.  A sidecar may report "cancelled" of
\* its own accord.
StepFails == cpc = "exec" /\ \E s \in ExecStatus \ {"Success"} : Fail(s)

\* Head of the rollback loop: a step without rollback is passed over.
RollbackSkip ==
  /\ cpc = "rollback" /\ rb >= RollbackLow /\ rb \notin hasRollback
  /\ rb' = rb - 1
  /\ UNCHANGED <<chain, cpc, idx, results, rolled, skipped, events, cancelledAt>>

RollbackBegin ==
  /\ cpc = "rollback" /\ rb >= RollbackLow /\ rb \in hasRollback
  /\ cpc' = "rbcreds"
  /\ UNCHANGED <<chain, idx, results, rb, rolled, skipped, events, cancelledAt>>

RollbackCredsResolved ==
  /\ cpc = "rbcreds"
  /\ cpc' = "rbexec"
  /\ UNCHANGED <<chain, idx, results, rb, rolled, skipped, events, cancelledAt>>

\* Mutant: the lookup is tried again until it works.
RollbackCredsRetried ==
  /\ cpc = "rbcreds"
  /\ cpc' = "rollback"
  /\ UNCHANGED <<chain, idx, results, rb, rolled, skipped, events, cancelledAt>>

RollbackCredsFailed ==
  /\ cpc = "rbcreds"
  /\ skipped' = skipped \cup {rb}
  /\ rb' = rb - 1
  /\ cpc' = "rollback"
  /\ UNCHANGED <<chain, idx, results, rolled, events, cancelledAt>>

\* Mutant: the first failing rollback ends the loop.
RollbackExecutedStops ==
  /\ cpc = "rbexec"
  /\ \E s \in ExecStatus :
       /\ rolled' = Append(rolled, [step |-> rb, status |-> s])
       /\ cpc' = IF s = "Success" THEN "rollback" ELSE "done"
  /\ rb' = rb - 1
  /\ UNCHANGED <<chain, idx, results, skipped, events, cancelledAt>>

\* Mutant: the rollbacks run in step order.
RollbackExecutedForward ==
  /\ cpc = "rbexec"
  /\ \E s \in ExecStatus :
       rolled' = <<[step |-> rb, status |-> s]>> \o rolled
  /\ rb' = rb - 1
  /\ cpc' = "rollback"
  /\ UNCHANGED <<chain, idx, results, skipped, events, cancelledAt>>

\* A rollback returns; whatever its status, the loop goes on.
RollbackExecuted ==
  /\ cpc = "rbexec"
  /\ \E s \in ExecStatus :
       rolled' = Append(rolled, [step |-> rb, status |-> s])
  /\ rb' = rb - 1
  /\ cpc' = "rollback"
  /\ UNCHANGED <<chain, idx, results, skipped, events, cancelledAt>>

RollbackEnd ==
  /\ cpc = "rollback" /\ rb < RollbackLow
  /\ cpc' = "done"
  /\ UNCHANGED <<chain, idx, results, rb, rolled, skipped, events, cancelledAt>>

Execute ==
  \/ Start \/ BeginStep \/ Complete
  \/ CredsResolved \/ CredsFailed \/ StepSucceeds \/ StepFails
  \/ RollbackSkip \/ RollbackBegin
  \/ RollbackCredsResolved \/ RollbackCredsFailed
  \/ RollbackExecuted \/ RollbackEnd

Returned == cpc = "done" /\ UNCHANGED vars

Next == Execute \/ Cancel \/ Returned

Spec == Init /\ [][Next]_vars

\* Executors and credential lookups return.
FairSpec == Spec /\ WF_vars(Execute)

----------------------------------------------------------------------------
(* Properties.                                                             *)

\* Type invariant: execute and run_rollbacks index only existing steps.
TypeOK ==
  /\ onFailure \in RollbackStrategy
  /\ hasRollback \subseteq Steps
  /\ cpc \in ChainPC
  /\ idx \in 1..(NSteps + 1)
  /\ results \in Seq(ExecStatus)
  /\ rb \in 0..NSteps
  /\ rolled \in Seq([step : Steps, status : ExecStatus])
  /\ skipped \subseteq Steps
  /\ events \in Seq({"chain.started", "chain.completed", "chain.rollback"})
  /\ cancelledAt \in -1..NSteps

StepFailed == results # <<>> /\ results[Len(results)] # "Success"

\* What execute returns is what TaskManager assumes of it: only the last result
\* may be a failure, and a chain cut short without one was cancelled.
ReturnsChainResult ==
  cpc = "done" => IsChainResult(results, NSteps, is_cancelled)

\* Rollbacks run from the failed step downwards, each at most once, and only
\* for steps that were attempted.
RollbackOrder ==
  /\ \A m, n \in 1..Len(rolled) : m < n => rolled[m].step > rolled[n].step
  /\ \A n \in 1..Len(rolled) : rolled[n].step \in hasRollback \cap 1..Len(results)

RollbackRange ==
  IF onFailure = "RollbackAll" THEN 1..Len(results) ELSE {Len(results)}

\* When a step failed, every rollback the strategy asks for has been executed -
\* even after an earlier rollback failed - unless its own credentials could not
\* be resolved; without a failed step none has been.
RollbackComplete ==
  cpc = "done" =>
    {rolled[n].step : n \in 1..Len(rolled)} \cup skipped =
      IF StepFailed THEN hasRollback \cap RollbackRange ELSE {}

\* The audit log tells a rolled back chain from the others: exactly one closing
\* row, and it says rollback just when a step failed.
ClosingEvent ==
  cpc = "done" =>
    events = <<"chain.started",
               IF StepFailed THEN "chain.rollback" ELSE "chain.completed">>

\* After a cancel only the step in progress may still add a result: a token
\* cancelled while its credentials are being resolved does not stop it.
CancelBound ==
  is_cancelled => Len(results) <= cancelledAt + 1

\* The chain returns, whatever its steps and rollbacks do.
Terminates == <>(cpc = "done")

\* chain.rs on the closing row: "chain completed successfully".
CompletedMeansAllSteps ==
  \A n \in 1..Len(events) : events[n] = "chain.completed" => Len(results) = NSteps

============================================================================
