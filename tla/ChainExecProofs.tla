-------------------------- MODULE ChainExecProofs --------------------------
(***************************************************************************)
(* Proofs about ChainExec, for a chain of any length.                      *)
(***************************************************************************)
EXTENDS ChainExec, SequenceTheorems, TLAPS

Forward == {"start", "head", "creds", "exec"}
Undoing == {"rollback", "rbcreds", "rbexec"}

\* The results so far: all successes on the way forward, the last one a
\* failure on the way back.
ResultInv ==
  /\ \A k \in 1..(Len(results) - 1) : results[k] = "Success"
  /\ cpc \in Forward => Len(results) = idx - 1 /\ ~StepFailed
  /\ cpc \in {"creds", "exec"} => idx <= NSteps
  /\ cpc \in Undoing => Len(results) = idx /\ idx <= NSteps /\ StepFailed
  /\ cpc = "done" /\ ~StepFailed => Len(results) = NSteps \/ is_cancelled
  /\ cpc = "done" => Len(results) <= NSteps

\* After a cancel request at most the current step is added.
CancelInv ==
  is_cancelled =>
    /\ cancelledAt <= Len(results)
    /\ cpc \in {"creds", "exec"} => Len(results) = cancelledAt
    /\ Len(results) <= cancelledAt + 1

\* The rollbacks done so far are those above rb, in descending order.
RollbackInv ==
  /\ \A m, n \in 1..Len(rolled) : m < n => rolled[m].step > rolled[n].step
  /\ cpc \in Forward => rolled = <<>>
  /\ \A n \in 1..Len(rolled) : rolled[n].step \in hasRollback \cap 1..Len(results)
  /\ cpc \in Undoing =>
       /\ rb <= idx
       /\ \A n \in 1..Len(rolled) : rolled[n].step > rb
  /\ cpc \in {"rbcreds", "rbexec"} => rb \in hasRollback

IInv == TypeOK /\ ResultInv /\ CancelInv /\ RollbackInv

LEMMA IInvInit == Init => IInv
<1> SUFFICES ASSUME Init PROVE IInv
  OBVIOUS
<1>1. TypeOK
  BY NStepsOK DEF Init, TypeOK, ChainPC
<1>2. ResultInv /\ CancelInv /\ RollbackInv
  BY DEF Init, ResultInv, CancelInv, RollbackInv, Forward, Undoing, StepFailed, is_cancelled
<1>. QED
  BY <1>1, <1>2 DEF IInv

\* RollbackLow is a step as long as a failed step is being undone.
LEMMA LowType == TypeOK => RollbackLow \in Nat /\ RollbackLow >= 1
  BY NStepsOK DEF TypeOK, RollbackLow

LEMMA TypeNext == IInv /\ [Next]_vars => TypeOK'
<1> SUFFICES ASSUME IInv, [Next]_vars PROVE TypeOK'
  OBVIOUS
<1> USE NStepsOK DEF IInv, TypeOK, ChainPC, Steps, chain
<1>1. CASE Start \/ Complete
  <2> DEFINE E == {"chain.started", "chain.completed", "chain.rollback"}
  <2>1. PICK e \in E : events' = Append(events, e)
    BY <1>1 DEF Start, Complete
  <2>2. events \in Seq(E)
    OBVIOUS
  <2> HIDE DEF E
  <2>3. events' \in Seq(E)
    BY <2>1, <2>2
  <2> USE DEF E
  <2>4. events' \in Seq({"chain.started", "chain.completed", "chain.rollback"})
    BY <2>3
  <2>. QED
    BY <1>1, <2>4, Zenon DEF Start, Complete
<1>2. CASE BeginStep \/ CredsResolved \/ RollbackBegin \/ RollbackCredsResolved \/ RollbackEnd
  BY <1>2, Zenon DEF BeginStep, CredsResolved, RollbackBegin, RollbackCredsResolved, RollbackEnd
<1>3. ASSUME NEW s \in ExecStatus, cpc \in {"creds", "exec"}, Fail(s) PROVE TypeOK'
  BY <1>3 DEF Fail, ResultInv
<1>4. CASE StepSucceeds
  BY <1>4 DEF StepSucceeds, ResultInv, ExecStatus, TaskResultStatus
<1>5. CASE RollbackSkip \/ RollbackCredsFailed
  <2>1. rb >= 1
    BY <1>5, LowType DEF RollbackSkip, RollbackCredsFailed, RollbackInv
  <2>2. rb' \in 0..NSteps
    BY <1>5, <2>1 DEF RollbackSkip, RollbackCredsFailed
  <2>3. skipped' \subseteq Steps
    <3>1. rb \in Steps
      BY <2>1
    <3>2. skipped' \subseteq skipped \cup {rb}
      BY <1>5 DEF RollbackSkip, RollbackCredsFailed
    <3>. QED
      BY <3>1, <3>2
  <2>. QED
    BY <1>5, <2>2, <2>3, Zenon DEF RollbackSkip, RollbackCredsFailed
<1>6. CASE RollbackExecuted
  <2> DEFINE R == [step : Steps, status : ExecStatus]
  <2>1. PICK s \in ExecStatus : rolled' = Append(rolled, [step |-> rb, status |-> s])
    BY <1>6 DEF RollbackExecuted
  <2>2. rb \in Steps
    BY <1>6 DEF RollbackExecuted, RollbackInv
  <2>3. [step |-> rb, status |-> s] \in R /\ rolled \in Seq(R)
    BY <2>2
  <2> HIDE DEF R
  <2>4. rolled' \in Seq(R)
    BY <2>1, <2>3
  <2>5. rb' \in 0..NSteps
    BY <1>6, <2>2 DEF RollbackExecuted
  <2>. QED
    BY <1>6, <2>4, <2>5 DEF RollbackExecuted, R
<1>7. CASE Cancel
  <2>1. Len(results) \in 0..NSteps
    BY <1>7 DEF Cancel, ResultInv, Forward, Undoing
  <2>. QED
    BY <1>7, <2>1 DEF Cancel
<1>8. CASE UNCHANGED vars
  BY <1>8 DEF vars
<1>9. "Failed" \in ExecStatus
  BY DEF ExecStatus, TaskResultStatus
<1>. QED
  BY <1>1, <1>2, <1>3, <1>4, <1>5, <1>6, <1>7, <1>8, <1>9, Zenon
  DEF Next, Execute, Returned, CredsFailed, StepFails

LEMMA ResultNext == IInv /\ [Next]_vars => ResultInv'
<1> SUFFICES ASSUME IInv, [Next]_vars PROVE ResultInv'
  OBVIOUS
<1> USE NStepsOK DEF IInv, TypeOK, ResultInv, StepFailed, is_cancelled, Forward, Undoing, chain
<1>1. CASE Start
  BY <1>1 DEF Start
<1>2. CASE BeginStep \/ Complete \/ CredsResolved
  <2>1. CASE BeginStep
    BY <2>1 DEF BeginStep
  <2>2. CASE Complete
    BY <2>2 DEF Complete
  <2>3. CASE CredsResolved
    BY <2>3 DEF CredsResolved
  <2>. QED
    BY <1>2, <2>1, <2>2, <2>3
<1>3. ASSUME NEW s \in ExecStatus \ {"Success"}, cpc \in {"creds", "exec"}, Fail(s) PROVE ResultInv'
  <2>1. /\ Len(results') = Len(results) + 1 /\ results'[Len(results) + 1] = s
        /\ \A k \in 1..Len(results) : results'[k] = results[k]
    BY <1>3 DEF Fail
  <2>2. \A k \in 1..Len(results) : results[k] = "Success"
    BY <1>3
  <2>. QED
    BY <1>3, <2>1, <2>2 DEF Fail
<1>4. CASE StepSucceeds
  <2>1. /\ Len(results') = Len(results) + 1 /\ results'[Len(results) + 1] = "Success"
        /\ \A k \in 1..Len(results) : results'[k] = results[k]
    BY <1>4 DEF StepSucceeds
  <2>2. \A k \in 1..Len(results) : results[k] = "Success"
    BY <1>4 DEF StepSucceeds
  <2>. QED
    BY <1>4, <2>1, <2>2 DEF StepSucceeds
<1>5. CASE RollbackSkip \/ RollbackBegin \/ RollbackCredsResolved \/ RollbackCredsFailed \/ RollbackExecuted \/ RollbackEnd
  BY <1>5 DEF RollbackSkip, RollbackBegin, RollbackCredsResolved, RollbackCredsFailed, RollbackExecuted, RollbackEnd
<1>6. CASE Cancel
  BY <1>6 DEF Cancel
<1>7. CASE UNCHANGED vars
  BY <1>7 DEF vars
<1>8. "Failed" \in ExecStatus \ {"Success"}
  BY DEF ExecStatus, TaskResultStatus
<1>. QED
  BY <1>1, <1>2, <1>3, <1>4, <1>5, <1>6, <1>7, <1>8 DEF Next, Execute, Returned, CredsFailed, StepFails

LEMMA CancelNext == IInv /\ [Next]_vars => CancelInv'
<1> SUFFICES ASSUME IInv, [Next]_vars PROVE CancelInv'
  OBVIOUS
<1> USE NStepsOK DEF IInv, TypeOK, CancelInv, is_cancelled, chain
<1>1. ASSUME NEW s, cpc \in {"creds", "exec"}, s \in ExecStatus,
             results' = Append(results, s), cancelledAt' = cancelledAt, cpc' \in {"head", "rollback"}
      PROVE  CancelInv'
  <2>1. Len(results') = Len(results) + 1
    BY <1>1
  <2>. QED
    BY <1>1, <2>1
<1>2. CASE Cancel
  BY <1>2 DEF Cancel
<1>3. {"Success", "Failed"} \subseteq ExecStatus
  BY DEF ExecStatus, TaskResultStatus
<1>4. CASE CredsFailed \/ StepFails \/ StepSucceeds
  BY <1>1, <1>3, <1>4 DEF CredsFailed, StepFails, StepSucceeds, Fail
<1>5. CASE BeginStep \/ Start \/ Complete \/ CredsResolved
  BY <1>5 DEF BeginStep, Start, Complete, CredsResolved
<1>6. CASE RollbackSkip \/ RollbackBegin \/ RollbackCredsResolved \/ RollbackCredsFailed \/ RollbackExecuted \/ RollbackEnd
  BY <1>6 DEF RollbackSkip, RollbackBegin, RollbackCredsResolved, RollbackCredsFailed, RollbackExecuted, RollbackEnd
<1>7. CASE UNCHANGED vars
  BY <1>7 DEF vars
<1>. QED
  BY <1>2, <1>4, <1>5, <1>6, <1>7 DEF Next, Execute, Returned

LEMMA RollbackNext == IInv /\ [Next]_vars => RollbackInv'
<1> SUFFICES ASSUME IInv, [Next]_vars PROVE RollbackInv'
  OBVIOUS
<1> USE NStepsOK DEF IInv, TypeOK, RollbackInv, Forward, Undoing, Steps, chain
<1>1. CASE CredsFailed \/ StepFails \/ StepSucceeds
  <2>1. /\ rolled = <<>> /\ rolled' = rolled /\ cpc' \in {"head", "rollback"}
        /\ cpc' = "rollback" => rb' = idx /\ idx' = idx
    BY <1>1 DEF CredsFailed, StepFails, StepSucceeds, Fail
  <2>. QED
    BY <2>1
<1>2. CASE Start \/ BeginStep \/ Complete \/ CredsResolved
  BY <1>2 DEF Start, BeginStep, Complete, CredsResolved
<1>3. CASE RollbackExecuted
  <2>1. PICK s \in ExecStatus : rolled' = Append(rolled, [step |-> rb, status |-> s])
    BY <1>3 DEF RollbackExecuted
  <2>2. /\ Len(rolled') = Len(rolled) + 1 /\ rolled'[Len(rolled) + 1].step = rb
        /\ \A n \in 1..Len(rolled) : rolled'[n] = rolled[n]
    BY <2>1
  <2>3. \A n \in 1..Len(rolled) : rolled[n].step > rb
    BY <1>3 DEF RollbackExecuted
  <2>4. rb \in hasRollback \cap 1..Len(results)
    BY <1>3 DEF RollbackExecuted, ResultInv
  <2>5. /\ rb' = rb - 1 /\ cpc' = "rollback"
        /\ UNCHANGED <<hasRollback, results, idx>>
    BY <1>3 DEF RollbackExecuted
  <2>6. \A n \in 1..Len(rolled') : rolled'[n].step \in hasRollback \cap 1..Len(results)
    <3> SUFFICES ASSUME NEW n \in 1..Len(rolled')
                 PROVE  rolled'[n].step \in hasRollback \cap 1..Len(results)
      OBVIOUS
    <3>1. n \in 1..Len(rolled) \/ n = Len(rolled) + 1
      BY <2>2
    <3>. QED
      BY <2>2, <2>4, <3>1
  <2>7. \A m, n \in 1..Len(rolled') : m < n => rolled'[m].step > rolled'[n].step
    <3> SUFFICES ASSUME NEW m \in 1..Len(rolled'), NEW n \in 1..Len(rolled'), m < n
                 PROVE  rolled'[m].step > rolled'[n].step
      BY Zenon
    <3>1. m \in 1..Len(rolled) /\ rolled'[m] = rolled[m]
      BY <2>2
    <3>2. CASE n = Len(rolled) + 1
      BY <2>2, <2>3, <3>1, <3>2
    <3>3. CASE n \in 1..Len(rolled)
      BY <2>2, <3>1, <3>3, Zenon
    <3>4. Len(rolled) \in Nat /\ n \in 1..(Len(rolled) + 1)
      BY <2>2
    <3>5. n = Len(rolled) + 1 \/ n \in 1..Len(rolled)
      <4> HIDE DEF IInv, TypeOK, RollbackInv
      <4>. QED
        BY <3>4
    <3>. QED
      BY <3>2, <3>3, <3>5
  <2>8. \A n \in 1..Len(rolled') : rolled'[n].step > rb - 1
    <3> SUFFICES ASSUME NEW n \in 1..Len(rolled') PROVE rolled'[n].step > rb - 1
      OBVIOUS
    <3>1. CASE n = Len(rolled) + 1
      BY <2>2, <2>4, <3>1
    <3>2. CASE n \in 1..Len(rolled)
      BY <2>2, <2>3, <2>4, <3>2
    <3>3. Len(rolled) \in Nat /\ n \in 1..(Len(rolled) + 1)
      BY <2>2
    <3>. QED
      BY <3>1, <3>2, <3>3
  <2>. QED
    BY <1>3, <2>5, <2>6, <2>7, <2>8 DEF RollbackExecuted
<1>4. CASE RollbackSkip \/ RollbackCredsFailed
  <2>1. /\ cpc \in Undoing /\ cpc' = "rollback" /\ rb' = rb - 1
        /\ UNCHANGED <<hasRollback, idx, results, rolled>>
    BY <1>4 DEF RollbackSkip, RollbackCredsFailed
  <2>2. /\ rb \in Nat /\ idx \in Nat /\ rb <= idx
        /\ \A n \in 1..Len(rolled) : rolled[n].step \in Nat /\ rolled[n].step > rb
    BY <2>1
  <2>3. rb' <= idx' /\ \A n \in 1..Len(rolled) : rolled[n].step > rb'
    BY <2>1, <2>2
  <2>. QED
    BY <2>1, <2>3
<1>5. CASE RollbackBegin \/ RollbackCredsResolved \/ RollbackEnd
  BY <1>5, Zenon DEF RollbackBegin, RollbackCredsResolved, RollbackEnd
<1>6. CASE Cancel
  BY <1>6 DEF Cancel
<1>7. CASE UNCHANGED vars
  BY <1>7 DEF vars
<1>. QED
  BY <1>1, <1>2, <1>3, <1>4, <1>5, <1>6, <1>7 DEF Next, Execute, Returned

LEMMA IInvariance == Spec => []IInv
<1>1. IInv /\ [Next]_vars => IInv'
  BY TypeNext, ResultNext, CancelNext, RollbackNext DEF IInv
<1>. QED
  BY IInvInit, <1>1, PTL DEF Spec

(***************************************************************************)
(* Every rollback above rb has been handled, and rb stops at RollbackLow - 1. *)
(***************************************************************************)
RolledSteps == {rolled[n].step : n \in 1..Len(rolled)}

HandledInv ==
  /\ cpc \in Forward => rolled = <<>> /\ skipped = {}
  /\ cpc \in Undoing =>
       /\ RolledSteps \cup skipped = hasRollback \cap ((rb + 1)..idx)
       /\ rb >= RollbackLow - 1
  /\ cpc \in {"rbcreds", "rbexec"} => rb >= RollbackLow
  /\ RollbackComplete

LEMMA HandledNext == IInv /\ HandledInv /\ [Next]_vars => HandledInv'
<1> SUFFICES ASSUME IInv, HandledInv, [Next]_vars PROVE HandledInv'
  OBVIOUS
<1> USE NStepsOK DEF HandledInv, RollbackLow, Forward, Undoing, chain
<1>t. TypeOK
  BY DEF IInv
<1>1. CASE CredsFailed \/ StepFails \/ StepSucceeds
  <2>1. /\ rolled = <<>> /\ rolled' = rolled /\ skipped = {} /\ skipped' = skipped
        /\ cpc' \in {"head", "rollback"} /\ hasRollback' = hasRollback
        /\ cpc' = "rollback" => rb' = idx /\ idx' = idx
    BY <1>1 DEF CredsFailed, StepFails, StepSucceeds, Fail
  <2>2. RolledSteps' = {}
    BY <2>1 DEF RolledSteps
  <2>3. idx \in Nat /\ idx >= 1
    BY <1>t DEF TypeOK
  <2>4. cpc' = "rollback" => hasRollback' \cap ((rb' + 1)..idx') = {}
    BY <2>1, <2>3
  <2>. QED
    BY <2>1, <2>2, <2>3, <2>4 DEF RollbackComplete
<1>2. CASE Start \/ BeginStep \/ CredsResolved
  BY <1>2 DEF Start, BeginStep, CredsResolved, RollbackComplete
<1>3. CASE Complete
  <2>1. ~StepFailed
    BY <1>3 DEF Complete, IInv, ResultInv
  <2>. QED
    BY <1>3, <2>1 DEF Complete, RollbackComplete, StepFailed
<1>4. CASE RollbackSkip
  <2>1. rb \in Nat /\ idx \in Nat /\ rb <= idx /\ rb \notin hasRollback /\ rb' = rb - 1 /\ cpc' = "rollback"
        /\ UNCHANGED <<onFailure, hasRollback, idx, rolled, skipped>> /\ rb >= RollbackLow
    BY <1>4, <1>t DEF RollbackSkip, TypeOK, IInv, RollbackInv
  <2>2. hasRollback \cap ((rb' + 1)..idx) = hasRollback \cap ((rb + 1)..idx)
    BY <2>1
  <2>3. rb' >= RollbackLow - 1
    BY <1>t, <2>1 DEF TypeOK
  <2>. QED
    BY <1>4, <2>1, <2>2, <2>3 DEF RollbackSkip, RolledSteps, RollbackComplete
<1>5. CASE RollbackCredsFailed
  <2>1. rb \in Nat /\ idx \in Nat /\ rb <= idx /\ rb \in hasRollback /\ rb' = rb - 1 /\ cpc' = "rollback"
        /\ UNCHANGED <<onFailure, hasRollback, idx, rolled>> /\ skipped' = skipped \cup {rb} /\ rb >= RollbackLow
    BY <1>5, <1>t DEF RollbackCredsFailed, TypeOK, IInv, RollbackInv
  <2>2. hasRollback \cap ((rb' + 1)..idx) = (hasRollback \cap ((rb + 1)..idx)) \cup {rb}
    BY <2>1
  <2>3. rb' >= RollbackLow - 1
    BY <1>t, <2>1 DEF TypeOK
  <2>. QED
    BY <1>5, <2>1, <2>2, <2>3 DEF RollbackCredsFailed, RolledSteps, RollbackComplete
<1>6. CASE RollbackExecuted
  <2>1. rb \in Nat /\ idx \in Nat /\ rb <= idx /\ rb \in hasRollback /\ rb' = rb - 1 /\ cpc' = "rollback"
        /\ UNCHANGED <<onFailure, hasRollback, idx, skipped>> /\ rb >= RollbackLow
    BY <1>6, <1>t DEF RollbackExecuted, TypeOK, IInv, RollbackInv
  <2>2. PICK s \in ExecStatus : rolled' = Append(rolled, [step |-> rb, status |-> s])
    BY <1>6 DEF RollbackExecuted
  <2>3. /\ Len(rolled) \in Nat /\ Len(rolled') = Len(rolled) + 1 /\ rolled'[Len(rolled) + 1].step = rb
        /\ \A n \in 1..Len(rolled) : rolled'[n] = rolled[n]
    BY <1>t, <2>2 DEF TypeOK
  <2>4. RolledSteps' = RolledSteps \cup {rb}
    BY <2>3 DEF RolledSteps
  <2>5. hasRollback \cap ((rb' + 1)..idx) = (hasRollback \cap ((rb + 1)..idx)) \cup {rb}
    BY <2>1
  <2>6. rb' >= RollbackLow - 1
    BY <1>t, <2>1 DEF TypeOK
  <2>. QED
    BY <1>6, <2>1, <2>4, <2>5, <2>6 DEF RollbackExecuted, RollbackComplete
<1>7. CASE RollbackBegin \/ RollbackCredsResolved
  BY <1>7 DEF RollbackBegin, RollbackCredsResolved, RolledSteps, RollbackComplete
<1>8. CASE RollbackEnd
  <2>1. rb \in Nat /\ idx \in Nat /\ idx >= 1 /\ rb = RollbackLow - 1 /\ Len(results) = idx /\ StepFailed
    BY <1>8, <1>t DEF RollbackEnd, TypeOK, IInv, ResultInv
  <2>2. (rb + 1)..idx = RollbackRange
    <3>1. CASE onFailure = "RollbackAll"
      <4>1. rb + 1 = 1
        BY <2>1, <3>1
      <4>. QED
        BY <2>1, <3>1, <4>1 DEF RollbackRange
    <3>2. CASE onFailure # "RollbackAll"
      <4>1. rb + 1 = idx /\ idx..idx = {idx}
        BY <2>1, <3>2
      <4>. QED
        BY <2>1, <3>2, <4>1 DEF RollbackRange
    <3>. QED
      BY <3>1, <3>2
  <2>3. RolledSteps \cup skipped = hasRollback \cap RollbackRange
    BY <1>8, <2>2, Zenon DEF RollbackEnd
  <2>4. cpc' = "done" /\ UNCHANGED <<onFailure, hasRollback, results, rolled, skipped>>
    BY <1>8 DEF RollbackEnd
  <2>. QED
    BY <2>1, <2>3, <2>4 DEF RollbackComplete, RolledSteps, RollbackRange, StepFailed
<1>9. CASE Cancel
  BY <1>9 DEF Cancel, RolledSteps, RollbackComplete, StepFailed, RollbackRange
<1>10. CASE UNCHANGED vars
  BY <1>10 DEF vars, RolledSteps, RollbackComplete, StepFailed, RollbackRange
<1>. QED
  BY <1>1, <1>2, <1>3, <1>4, <1>5, <1>6, <1>7, <1>8, <1>9, <1>10 DEF Next, Execute, Returned

\* When chain::execute returns after a failed step, run_rollbacks has handled
\* every rollback of rollback_range, whatever the earlier rollbacks did.
THEOREM RollbacksComplete == Spec => []RollbackComplete
<1>1. Init => HandledInv
  BY DEF Init, HandledInv, Forward, Undoing, RollbackComplete
<1>2. HandledInv => RollbackComplete
  BY DEF HandledInv
<1>. QED
  BY <1>1, <1>2, IInvariance, HandledNext, PTL DEF Spec

\* execute and run_rollbacks stay within the steps of the chain.
THEOREM TypeCorrect == Spec => []TypeOK
<1>1. IInv => TypeOK
  BY DEF IInv
<1>. QED
  BY <1>1, IInvariance, PTL

\* chain::execute returns what TaskManager assumes a chain to return.
THEOREM ChainResult == Spec => []ReturnsChainResult
<1>1. IInv => ReturnsChainResult
  BY NStepsOK DEF IInv, TypeOK, ResultInv, ReturnsChainResult, IsChainResult, StepFailed
<1>. QED
  BY <1>1, IInvariance, PTL

\* Rollbacks run in descending step order, each at most once.
THEOREM Rollbacks == Spec => []RollbackOrder
<1>1. IInv => RollbackOrder
  BY DEF IInv, RollbackInv, RollbackOrder
<1>. QED
  BY <1>1, IInvariance, PTL

\* A cancelled chain adds at most one more result.
THEOREM Cancels == Spec => []CancelBound
<1>1. IInv => CancelBound
  BY DEF IInv, CancelInv, CancelBound
<1>. QED
  BY <1>1, IInvariance, PTL

\* The rows so far follow from where execute is.
EventInv ==
  /\ cpc = "start" => events = <<>>
  /\ cpc \in Forward \ {"start"} => events = <<"chain.started">>
  /\ cpc \in Undoing => events = <<"chain.started", "chain.rollback">>
  /\ ClosingEvent

LEMMA AppendShort == \A x, y : Append(<<>>, x) = <<x>> /\ Append(<<x>>, y) = <<x, y>>
<1> SUFFICES ASSUME NEW x, NEW y
             PROVE  Append(<<>>, x) = <<x>> /\ Append(<<x>>, y) = <<x, y>>
  BY Zenon
<1> DEFINE S == {x, y}
<1>1. x \in S /\ y \in S /\ <<>> \in Seq(S) /\ <<x>> \in Seq(S) /\ <<x, y>> \in Seq(S)
  OBVIOUS
<1>2. Append(<<>>, x) = <<x>>
  <2>1. Len(Append(<<>>, x)) = 1 /\ Append(<<>>, x)[1] = x /\ Append(<<>>, x) \in Seq(S)
    BY <1>1, AppendProperties
  <2>. QED
    BY <1>1, <2>1, SeqEqual
<1>3. Append(<<x>>, y) = <<x, y>>
  <2>1. /\ Len(Append(<<x>>, y)) = 2 /\ Append(<<x>>, y) \in Seq(S)
        /\ Append(<<x>>, y)[1] = x /\ Append(<<x>>, y)[2] = y
    BY <1>1, AppendProperties
  <2>2. Len(<<x, y>>) = 2 /\ <<x, y>>[1] = x /\ <<x, y>>[2] = y
    OBVIOUS
  <2>3. \A i \in 1..2 : i = 1 \/ i = 2
    OBVIOUS
  <2>4. \A i \in 1..2 : Append(<<x>>, y)[i] = <<x, y>>[i]
    BY <2>1, <2>2, <2>3
  <2> HIDE DEF S
  <2>. QED
    BY <1>1, <2>1, <2>2, <2>4, SeqEqual, Zenon
<1>. QED
  BY <1>2, <1>3

\* However a chain ends, it has one opening and one closing row, and the closing
\* one says rollback just when a step failed.
THEOREM Closing == Spec => []ClosingEvent
<1>1. Init => EventInv
  BY DEF Init, EventInv, Forward, Undoing, ClosingEvent
<1>2. IInv /\ EventInv /\ [Next]_vars => EventInv'
  <2> SUFFICES ASSUME IInv, EventInv, [Next]_vars PROVE EventInv'
    OBVIOUS
  <2> USE DEF EventInv, Forward, Undoing
  <2>1. CASE Start
    <3>1. events' = <<"chain.started">> /\ cpc' = "head"
      BY <2>1, AppendShort DEF Start
    <3>. QED
      BY <3>1 DEF ClosingEvent
  <2>7. CASE BeginStep \/ CredsResolved \/ StepSucceeds
    <3>1. events' = <<"chain.started">> /\ cpc' \in {"head", "creds", "exec"}
      BY <2>7 DEF BeginStep, CredsResolved, StepSucceeds
    <3>. QED
      BY <3>1 DEF ClosingEvent
  <2>2. CASE CredsFailed \/ StepFails
    <3>1. events' = <<"chain.started", "chain.rollback">> /\ cpc' = "rollback"
      BY <2>2, AppendShort, Zenon DEF CredsFailed, StepFails, Fail
    <3>. QED
      BY <3>1 DEF ClosingEvent
  <2>3. CASE Complete
    <3>1. events' = <<"chain.started", "chain.completed">> /\ cpc' = "done"
      BY <2>3, AppendShort, Zenon DEF Complete
    <3>2. ~StepFailed'
      BY <2>3 DEF Complete, IInv, ResultInv, StepFailed
    <3>. QED
      BY <3>1, <3>2 DEF ClosingEvent
  <2>4. CASE RollbackSkip \/ RollbackBegin \/ RollbackCredsResolved \/ RollbackCredsFailed \/ RollbackExecuted
    BY <2>4 DEF RollbackSkip, RollbackBegin, RollbackCredsResolved, RollbackCredsFailed,
       RollbackExecuted, ClosingEvent
  <2>5. CASE RollbackEnd
    <3>1. StepFailed' /\ events' = <<"chain.started", "chain.rollback">> /\ cpc' = "done"
      BY <2>5 DEF RollbackEnd, IInv, ResultInv, StepFailed
    <3>. QED
      BY <3>1 DEF ClosingEvent
  <2>6. CASE Cancel \/ UNCHANGED vars
    BY <2>6 DEF Cancel, vars, ClosingEvent, StepFailed
  <2>. QED
    BY <2>1, <2>2, <2>3, <2>4, <2>5, <2>6, <2>7 DEF Next, Execute, Returned
<1>3. EventInv => ClosingEvent
  BY DEF EventInv
<1>. QED
  BY <1>1, <1>2, <1>3, IInvariance, PTL DEF Spec

============================================================================
