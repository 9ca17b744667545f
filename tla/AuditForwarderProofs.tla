----------------------- MODULE AuditForwarderProofs -----------------------
(***************************************************************************)
(* Proofs about AuditForwarder, for every batch size, backoff cap and      *)
(* number of rows and crashes.                                             *)
(***************************************************************************)
EXTENDS AuditForwarder, FiniteSetTheorems, TLAPS

\* Without gaps: with a row, all the rows before it.
GapFree(S) == \A i \in S : 1..i \subseteq S

\* What is marked, what is received, and what will have been once the batch in
\* flight is through, has no gaps.
OrderInv ==
  /\ GapFree(forwarded)
  /\ GapFree(received)
  /\ GapFree(forwarded \cup batch)

\* The batch in flight is unmarked; once posted it is received.
BatchInv ==
  /\ forwarded \cap batch = {}
  /\ fpc \notin {"post", "mark"} => batch = {}
  /\ fpc = "mark" => batch \subseteq received
  /\ forwarded \subseteq received

\* Without a fault the control plane has the marked rows and those being
\* marked, once.
OnceInv ==
  ~fault => /\ again = {}
            /\ received = forwarded \cup (IF fpc = "mark" THEN batch ELSE {})

IInv == TypeOK /\ OrderInv /\ BatchInv /\ OnceInv

LEMMA IInvInit == Init => IInv
<1> SUFFICES ASSUME Init PROVE IInv
  OBVIOUS
<1>1. rows \in 0..MaxRows /\ stops \in 0..MaxStops /\ backoff \in 1..MaxBackoff
  BY BackoffOK, BoundsOK DEF Init
<1>2. TypeOK
  BY <1>1, Zenon DEF Init, TypeOK, ForwarderPC
<1>3. OrderInv /\ BatchInv /\ OnceInv
  BY DEF Init, OrderInv, BatchInv, OnceInv, GapFree
<1>. QED
  BY <1>2, <1>3 DEF IInv

\* The query returns pending rows, and none without those before it.
LEMMA FirstPendingGapFree ==
  ASSUME TypeOK, GapFree(forwarded)
  PROVE  FirstPending \subseteq Pending /\ GapFree(forwarded \cup FirstPending)
<1>1. FirstPending \subseteq Pending
  BY DEF FirstPending
<1>2. ASSUME NEW i \in FirstPending, NEW j \in 1..i, j \notin forwarded
      PROVE  j \in FirstPending
  <2>1. rows \in Nat /\ i \in Pending /\ i \in 1..rows
    BY <1>1, <1>2 DEF TypeOK, Pending
  <2>2. j \in Pending /\ j <= i
    BY <1>2, <2>1 DEF Pending
  <2>3. UpTo(j) \subseteq UpTo(i)
    BY <2>1, <2>2 DEF UpTo, Pending
  <2>4. IsFiniteSet(1..rows)
    BY <2>1, FS_Interval
  <2>5. IsFiniteSet(UpTo(i))
    BY <2>4, FS_Subset, Zenon DEF UpTo, Pending
  <2>6. Cardinality(UpTo(j)) <= Cardinality(UpTo(i))
    BY <2>3, <2>5, FS_Subset
  <2>7. IsFiniteSet(UpTo(j))
    BY <2>3, <2>5, FS_Subset
  <2>8. Cardinality(UpTo(j)) \in Nat /\ Cardinality(UpTo(i)) \in Nat
    BY <2>5, <2>7, FS_CardinalityType
  <2>. QED
    BY <1>2, <2>2, <2>6, <2>8, BatchOK DEF FirstPending
<1>. QED
  BY <1>1, <1>2 DEF GapFree

LEMMA TypeNext == IInv /\ [Next]_vars => TypeOK'
<1> SUFFICES ASSUME IInv, [Next]_vars PROVE TypeOK'
  OBVIOUS
<1> USE BatchOK, BackoffOK, BoundsOK DEF IInv, TypeOK, ForwarderPC, db, cp, hist
<1>0. 1 \in 1..MaxBackoff
  OBVIOUS
<1>1. CASE Record
  BY <1>1 DEF Record
<1>2. CASE Signal
  BY <1>2 DEF Signal
<1>3. CASE Wake \/ ReadEmpty \/ MarkDone
  <2>1. CASE Wake
    BY <2>1 DEF Wake
  <2>2. CASE ReadEmpty \/ MarkDone
    <3>1. backoff' \in {backoff, 1} /\ fpc' \in {"stopped", "sleep"}
      BY <2>2 DEF ReadEmpty, MarkDone, FlushOk
    <3>2. UNCHANGED <<rows, forwarded, received, again, batch, final, shutdown, fault, stops>>
      BY <2>2 DEF ReadEmpty, MarkDone
    <3>. QED
      BY <1>0, <3>1, <3>2, Zenon
  <2>. QED
    BY <1>3, <2>1, <2>2
<1>4. CASE ReadBatch
  BY <1>4 DEF ReadBatch, FirstPending, Pending
<1>5. CASE ReadFails \/ MarkFails
  BY <1>5, Zenon DEF ReadFails, MarkFails, FlushErr
<1>6. CASE PostOk
  BY <1>6 DEF PostOk, Deliver
<1>7. CASE PostFails
  BY <1>7, Zenon DEF PostFails, Deliver, FlushErr
<1>8. CASE MarkRow
  BY <1>8 DEF MarkRow
<1>9. CASE BackoffEnd
  <2>1. backoff' \in 1..MaxBackoff
    BY <1>9 DEF BackoffEnd
  <2>. QED
    BY <1>9, <2>1 DEF BackoffEnd
<1>10. CASE Exit \/ Crash \/ Restart
  <2>1. stops' \in 0..MaxStops
    BY <1>10 DEF Exit, Crash, Restart
  <2>2. CASE Exit
    BY <2>2 DEF Exit
  <2>3. CASE Crash
    BY <2>1, <2>3 DEF Crash
  <2>4. CASE Restart
    BY <1>0, <2>4, Zenon DEF Restart
  <2>. QED
    BY <1>10, <2>2, <2>3, <2>4
<1>11. CASE UNCHANGED vars
  BY <1>11 DEF vars
<1>. QED
  BY <1>1, <1>2, <1>3, <1>4, <1>5, <1>6, <1>7, <1>8, <1>9, <1>10, <1>11 DEF Next, Forward

\* Steps that drop the batch or keep it leave the order alone.
LEMMA OrderNext == IInv /\ [Next]_vars => OrderInv'
<1> SUFFICES ASSUME IInv, [Next]_vars PROVE OrderInv'
  OBVIOUS
<1> USE DEF IInv, OrderInv, db, cp, hist
<1>1. ASSUME UNCHANGED <<forwarded, received>>, batch' \in {batch, {}} PROVE OrderInv'
  BY <1>1 DEF GapFree
<1>2. CASE ReadBatch
  BY <1>2, FirstPendingGapFree DEF ReadBatch, GapFree
<1>3. CASE PostOk
  <2>1. /\ received' = received \cup batch
        /\ forwarded' = forwarded /\ batch' = batch
    BY <1>3 DEF PostOk, Deliver
  <2>2. forwarded \subseteq received
    BY DEF BatchInv
  <2>. QED
    BY <2>1, <2>2 DEF GapFree
<1>4. CASE PostFails
  <2>1. /\ received' \in {received, received \cup batch}
        /\ forwarded' = forwarded /\ batch' = {}
    BY <1>4 DEF PostFails, Deliver, FlushErr
  <2>2. forwarded \subseteq received
    BY DEF BatchInv
  <2>. QED
    BY <2>1, <2>2 DEF GapFree
<1>5. CASE MarkRow
  <2>1. PICK i \in batch : /\ \A j \in batch : i <= j
                           /\ forwarded' = forwarded \cup {i}
                           /\ batch' = batch \ {i}
                           /\ received' = received
    BY <1>5 DEF MarkRow
  <2>2. i \in Nat /\ batch \subseteq Nat
    BY DEF TypeOK
  <2>3. 1..i \subseteq forwarded \cup batch
    BY DEF GapFree
  <2>4. 1..i \subseteq forwarded \cup {i}
    BY <2>1, <2>2, <2>3
  <2>5. GapFree(forwarded')
    BY <2>1, <2>4 DEF GapFree
  <2>6. forwarded' \cup batch' = forwarded \cup batch
    BY <2>1
  <2>. QED
    BY <2>1, <2>5, <2>6 DEF GapFree
<1>. QED
  BY <1>1, <1>2, <1>3, <1>4, <1>5
  DEF Next, Forward, vars, Record, Signal, Wake, ReadEmpty, MarkDone, ReadFails, MarkFails, FlushErr,
      BackoffEnd, Exit, Crash, Restart

LEMMA BatchNext == IInv /\ [Next]_vars => BatchInv'
<1> SUFFICES ASSUME IInv, [Next]_vars PROVE BatchInv'
  OBVIOUS
<1> USE DEF IInv, BatchInv, TypeOK, db, cp, hist
<1>1. CASE ReadBatch
  BY <1>1, FirstPendingGapFree DEF ReadBatch, Pending, OrderInv
<1>2. CASE PostOk \/ PostFails
  BY <1>2, Zenon DEF PostOk, PostFails, Deliver, FlushErr
<1>3. CASE MarkRow
  BY <1>3 DEF MarkRow
<1>4. CASE ReadFails \/ MarkFails \/ Crash
  BY <1>4, Zenon DEF ReadFails, MarkFails, Crash, FlushErr
<1>. QED
  BY <1>1, <1>2, <1>3, <1>4, Zenon
  DEF Next, Forward, vars, Record, Signal, Wake, ReadEmpty, MarkDone, FlushOk, BackoffEnd, Exit, Restart

LEMMA OnceNext == IInv /\ [Next]_vars => OnceInv'
<1> SUFFICES ASSUME IInv, [Next]_vars PROVE OnceInv'
  OBVIOUS
<1> USE DEF IInv, OnceInv, BatchInv, TypeOK, db, cp, hist
<1>1. CASE PostOk
  BY <1>1 DEF PostOk, Deliver
<1>2. CASE MarkRow
  BY <1>2 DEF MarkRow
<1>3. CASE ReadFails \/ PostFails \/ MarkFails \/ Crash
  BY <1>3 DEF ReadFails, PostFails, MarkFails, Crash
<1>. QED
  BY <1>1, <1>2, <1>3, Zenon
  DEF Next, Forward, vars, Record, Signal, Wake, ReadEmpty, ReadBatch, MarkDone, FlushOk,
      BackoffEnd, Exit, Restart

LEMMA IInvariance == Spec => []IInv
<1>1. IInv /\ [Next]_vars => IInv'
  BY TypeNext, OrderNext, BatchNext, OnceNext DEF IInv
<1>. QED
  BY IInvInit, <1>1, PTL DEF Spec

\* The backoff of run_forwarder stays within its cap, and flush_once sends and
\* marks only rows that were recorded.
THEOREM TypeCorrect == Spec => []TypeOK
<1>1. IInv => TypeOK
  BY DEF IInv
<1>. QED
  BY <1>1, IInvariance, PTL

\* A row marked as forwarded has been received by the control plane.
THEOREM NeverLost == Spec => []ForwardedIsReceived
<1>1. IInv => ForwardedIsReceived
  BY DEF IInv, BatchInv, ForwardedIsReceived
<1>. QED
  BY <1>1, IInvariance, PTL

\* Nothing is sent twice unless a POST, the store or the agent failed.
THEOREM NoDuplicates == Spec => []OnceWithoutFaults
<1>1. IInv => OnceWithoutFaults
  BY DEF IInv, OnceInv, OnceWithoutFaults
<1>. QED
  BY <1>1, IInvariance, PTL

\* The forwarder implements at-least-once, in-order delivery.
THEOREM Refinement == Spec => InOrderDelivery
<1>1. Init => AtLeastOnce!Init
  BY DEF Init, AtLeastOnce!Init
<1>2. IInv /\ IInv' /\ [Next]_vars => [AtLeastOnce!Next]_<<rows, received>>
  <2> SUFFICES ASSUME IInv, IInv', [Next]_vars
               PROVE  [AtLeastOnce!Next]_<<rows, received>>
    OBVIOUS
  <2> USE DEF db, cp, hist
  <2>1. CASE Record
    BY <2>1 DEF Record, AtLeastOnce!Next, AtLeastOnce!Record
  <2>2. CASE PostOk \/ PostFails
    <3>1. /\ rows' = rows
          /\ received' = received \/ received' = received \cup batch
      BY <2>2 DEF PostOk, PostFails, Deliver, FlushErr
    <3>2. batch \in SUBSET (1..rows) /\ \A i \in received' : 1..i \subseteq received'
      BY DEF IInv, TypeOK, OrderInv, GapFree
    <3>. QED
      BY <3>1, <3>2 DEF AtLeastOnce!Next, AtLeastOnce!Receive
  <2>. QED
    BY <2>1, <2>2
    DEF Next, Forward, vars, Signal, Wake, ReadEmpty, ReadBatch, ReadFails, FlushErr, MarkRow,
        MarkFails, MarkDone, BackoffEnd, Exit, Crash, Restart
<1>3. Spec => AtLeastOnce!Init /\ [][AtLeastOnce!Next]_<<rows, received>>
  BY <1>1, <1>2, IInvariance, PTL DEF Spec
<1>. QED
  BY <1>3 DEF InOrderDelivery, AtLeastOnce!Spec, AtLeastOnce!vars

============================================================================
