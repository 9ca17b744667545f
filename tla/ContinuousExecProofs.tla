------------------------ MODULE ContinuousExecProofs ------------------------
(***************************************************************************)
(* Proofs about ContinuousExec and the calls of ShellExec it makes, for    *)
(* any number of ticks.                                                    *)
(***************************************************************************)
EXTENDS ContinuousExec, TLAPS

----------------------------------------------------------------------------
(* The invariants.                                                         *)

\* What the child may be at each await of execute, and why the call is about to
\* return what it returns.
ShellInv ==
  /\ spc = "start" => child = "none"
  /\ spc \in {"select", "kill"} => child \in {"running", "zombie"}
  /\ spc = "output" => child = "reaped"
  /\ spc = "done" => child \in {"none", "reaped"}
  /\ spc = "kill" => status \in {"Timeout", "Cancelled"}
  /\ spc \in {"kill", "done"} => /\ status = "Timeout" => expired
                                 /\ status = "Cancelled" => cancelled
  /\ spc = "done" /\ status = "Success" => exitOk /\ child = "reaped"

TickInv == NoTickLeft /\ (tpc = "tick" => ShellInv)

\* The tick that has begun and left no row yet.
Pending == IF tpc \in {"creds", "tick"} THEN 1 ELSE 0

\* Every tick but the pending one has its row, in order.
RowsInv ==
  /\ Len(rows) + Pending <= ticks
  /\ ~lost => Len(rows) + Pending = ticks
  /\ ~lost /\ stopped # "cancel" /\ rows # <<>> => last = rows[Len(rows)]
  /\ stopped = "cancel" => tpc = "done"

\* After a late tick the select finds the token cancelled before it sleeps.
LateInv ==
  /\ late <= ticks
  /\ ~zero => late <= 1 /\ (late = 1 => cancelled /\ tpc # "sleep")

IInv == TypeOK /\ TickInv /\ RowsInv /\ LateInv

----------------------------------------------------------------------------
(* Steps.                                                                  *)

LEMMA IInvInit == Init => IInv
<1> SUFFICES ASSUME Init PROVE IInv
  OBVIOUS
<1> USE DEF Init, ShellInit
<1>1. /\ Len(rows) = 0 /\ rows \in Seq(ExecStatus) /\ Len(rows) <= MaxTicks
      /\ ticks \in 0..MaxTicks /\ late \in 0..MaxTicks
  BY ContinuousOK
<1>2. ShellTypeOK
  BY Zenon DEF ShellTypeOK, ShellPC, ExecStatus, TaskResultStatus
<1>3. TypeOK
  <2>1. last \in ExecStatus
    BY DEF ExecStatus, TaskResultStatus
  <2>. QED
    BY <1>1, <1>2, <2>1, Zenon DEF TypeOK, TickPC
<1>4. TickInv
  BY DEF TickInv, NoTickLeft
<1>5. RowsInv /\ LateInv
  BY <1>1 DEF RowsInv, LateInv, Pending
<1>. QED
  BY <1>3, <1>4, <1>5 DEF IInv

LEMMA ShellType ==
  ASSUME ShellTypeOK, ShellExecute \/ Processes \/ Cancel \/ TimePasses
  PROVE  ShellTypeOK'
<1> USE DEF ShellTypeOK, ShellPC, ExecStatus, TaskResultStatus
<1>1. CASE SpawnFails \/ SpawnShell
  BY <1>1, Zenon DEF SpawnFails, SpawnShell
<1>2. CASE OnCancel \/ OnTimeout \/ Killed
  BY <1>2 DEF OnCancel, OnTimeout, Kill, Killed
<1>3. CASE OnExit \/ WaitFails \/ OutputRead
  BY <1>3 DEF OnExit, WaitFails, OutputRead
<1>4. CASE Processes \/ Cancel \/ TimePasses
  BY <1>4, Zenon DEF Processes, Fork, DescendantEnds, ChildExits, Cancel, TimePasses
<1>. QED
  BY <1>1, <1>2, <1>3, <1>4 DEF ShellExecute

\* A step of execute or of the processes keeps the invariant of the call.
LEMMA ShellStep ==
  ASSUME ShellTypeOK, ShellInv, ShellExecute \/ Processes \/ Cancel \/ TimePasses
  PROVE  ShellInv'
<1> USE DEF ShellTypeOK, ShellPC, ShellInv
<1>1. CASE SpawnFails \/ SpawnShell
  BY <1>1 DEF SpawnFails, SpawnShell
<1>2. CASE OnCancel \/ OnTimeout \/ Killed
  BY <1>2 DEF OnCancel, OnTimeout, Kill, Killed
<1>3. CASE OnExit \/ WaitFails \/ OutputRead
  BY <1>3 DEF OnExit, WaitFails, OutputRead
<1>4. CASE Processes \/ Cancel \/ TimePasses
  BY <1>4, Zenon DEF Processes, Fork, DescendantEnds, ChildExits, Cancel, TimePasses
<1>. QED
  BY <1>1, <1>2, <1>3, <1>4 DEF ShellExecute

\* What a tick's row does to the journal and to last_result.
LEMMA RecordTickStep ==
  ASSUME IInv, tpc \in {"creds", "tick"}, NEW s \in ExecStatus, RecordTick(s)
  PROVE  /\ rows' \in Seq(ExecStatus) /\ lost' \in BOOLEAN /\ last' = s
         /\ Len(rows') <= Len(rows) + 1
         /\ ~lost' => ~lost /\ Len(rows') = Len(rows) + 1 /\ rows'[Len(rows')] = s
<1>1. rows \in Seq(ExecStatus) /\ lost \in BOOLEAN
  BY DEF IInv, TypeOK
<1>2. CASE rows' = Append(rows, s) /\ lost' = lost /\ last' = s
  BY <1>1, <1>2
<1>3. CASE rows' = rows /\ lost' = TRUE /\ last' = s
  BY <1>1, <1>3
<1>. QED
  BY <1>2, <1>3, Zenon DEF RecordTick

LEMMA TypeNext == IInv /\ [Next]_vars => TypeOK'
<1> SUFFICES ASSUME IInv, [Next]_vars PROVE TypeOK'
  OBVIOUS
<1> USE ContinuousOK DEF IInv, TypeOK, TickPC
<1>0. ASSUME UNCHANGED shellVars PROVE ShellTypeOK'
  BY <1>0 DEF ShellTypeOK, shellVars
<1>1. CASE Shutdown \/ Wait \/ SelectShutdown
  BY <1>0, <1>1, Zenon DEF Shutdown, Wait, SelectShutdown, tickVars
<1>2. CASE SelectCancel
  BY <1>0, <1>2 DEF SelectCancel, ExecStatus, TaskResultStatus
<1>3. CASE SelectSleep
  <2>1. ticks' \in 0..MaxTicks
    BY <1>3 DEF SelectSleep
  <2>2. late' \in 0..MaxTicks
    BY <1>3 DEF SelectSleep, LateInv
  <2>. QED
    BY <1>0, <1>3, <2>1, <2>2 DEF SelectSleep
<1>4. CASE TickCredsFail \/ TickEnds
  <2>1. /\ tpc \in {"creds", "tick"} /\ tpc' = "enter"
        /\ \E s \in ExecStatus : RecordTick(s)
    BY <1>4 DEF TickCredsFail, TickEnds, ShellTypeOK, ExecStatus, TaskResultStatus
  <2>2. rows' \in Seq(ExecStatus) /\ lost' \in BOOLEAN /\ last' \in ExecStatus
    BY <2>1, RecordTickStep
  <2>3. Len(rows') <= MaxTicks
    BY <2>1, RecordTickStep DEF RowsInv, Pending
  <2>4. UNCHANGED <<zero, ticks, late, stopped, shutdown>> /\ ShellTypeOK'
    BY <1>0, <1>4 DEF TickCredsFail, TickEnds
  <2>. QED
    BY <2>1, <2>2, <2>3, <2>4
<1>5. CASE TickBegins
  <2>1. ShellTypeOK'
    BY <1>5, Zenon DEF TickBegins, ShellTypeOK, ShellPC
  <2>. QED
    BY <1>5, <2>1 DEF TickBegins
<1>6. CASE Tick \/ World
  <2>1. ShellTypeOK'
    BY <1>6, ShellType DEF Tick, World
  <2>. QED
    BY <1>6, <2>1 DEF Tick, World, tickVars
<1>7. CASE UNCHANGED vars
  BY <1>0, <1>7 DEF vars, tickVars
<1>. QED
  BY <1>1, <1>2, <1>3, <1>4, <1>5, <1>6, <1>7 DEF Next, Run, Returned

LEMMA TickNext == IInv /\ [Next]_vars => TickInv'
<1> SUFFICES ASSUME IInv, [Next]_vars PROVE TickInv'
  OBVIOUS
<1> USE DEF IInv, TypeOK, TickInv, NoTickLeft
<1>1. CASE Shutdown \/ Wait \/ SelectCancel \/ SelectShutdown \/ SelectSleep \/ TickCredsFail
  BY <1>1 DEF Shutdown, Wait, SelectCancel, SelectShutdown, SelectSleep, TickCredsFail,
     shellVars, tickVars, ShellInv
<1>2. CASE TickBegins
  BY <1>2 DEF TickBegins, ShellInv
<1>3. CASE TickEnds
  BY <1>3 DEF TickEnds, shellVars, ShellInv
<1>4. CASE Tick \/ World
  <2>1. tpc' = tpc
    BY <1>4 DEF Tick, World, tickVars
  <2>2. CASE tpc = "tick"
    BY <1>4, <2>1, <2>2, ShellStep DEF Tick, World
  <2>3. CASE tpc # "tick"
    BY <1>4, <2>1, <2>3, Zenon DEF Tick, World, Processes, Fork, DescendantEnds, ChildExits, Cancel
  <2>. QED
    BY <2>2, <2>3
<1>5. CASE UNCHANGED vars
  BY <1>5 DEF vars, shellVars, tickVars, ShellInv
<1>. QED
  BY <1>1, <1>2, <1>3, <1>4, <1>5 DEF Next, Run, Returned

LEMMA RowsNext == IInv /\ [Next]_vars => RowsInv'
<1> SUFFICES ASSUME IInv, [Next]_vars PROVE RowsInv'
  OBVIOUS
<1> USE DEF IInv, TypeOK, TickPC, RowsInv, Pending
<1>0. Len(rows) \in Nat /\ ticks \in Nat
  BY ContinuousOK
<1>1. CASE Shutdown \/ Wait \/ SelectCancel \/ SelectShutdown
  BY <1>1 DEF Shutdown, Wait, SelectCancel, SelectShutdown, tickVars
<1>2. CASE SelectSleep
  BY <1>0, <1>2 DEF SelectSleep
<1>3. CASE TickCredsFail \/ TickEnds
  <2>1. /\ tpc \in {"creds", "tick"} /\ tpc' = "enter"
        /\ \E s \in ExecStatus : RecordTick(s)
    BY <1>3 DEF TickCredsFail, TickEnds, ShellTypeOK, ExecStatus, TaskResultStatus
  <2>2. UNCHANGED <<ticks, stopped>>
    BY <1>3 DEF TickCredsFail, TickEnds
  <2>3. /\ rows' \in Seq(ExecStatus) /\ Len(rows') <= Len(rows) + 1
        /\ ~lost' => ~lost /\ Len(rows') = Len(rows) + 1 /\ last' = rows'[Len(rows')]
    BY <2>1, RecordTickStep
  <2>4. Len(rows') \in Nat
    BY <2>3
  <2>. QED
    BY <1>0, <2>1, <2>2, <2>3, <2>4
<1>4. CASE TickBegins
  BY <1>4 DEF TickBegins
<1>5. CASE Tick \/ World \/ UNCHANGED vars
  BY <1>5 DEF Tick, World, vars, tickVars
<1>. QED
  BY <1>1, <1>2, <1>3, <1>4, <1>5 DEF Next, Run, Returned

LEMMA LateNext == IInv /\ [Next]_vars => LateInv'
<1> SUFFICES ASSUME IInv, [Next]_vars PROVE LateInv'
  OBVIOUS
<1> USE DEF IInv, TypeOK, TickPC, LateInv
<1>0. late \in Nat /\ ticks \in Nat
  BY ContinuousOK
<1>1. CASE Shutdown \/ Wait \/ SelectCancel \/ SelectShutdown
  BY <1>1 DEF Shutdown, Wait, SelectCancel, SelectShutdown, tickVars, shellVars
<1>2. CASE SelectSleep
  BY <1>0, <1>2 DEF SelectSleep, shellVars, ShellTypeOK
<1>3. CASE TickCredsFail \/ TickEnds \/ TickBegins
  BY <1>3 DEF TickCredsFail, TickEnds, TickBegins, shellVars
<1>4. CASE Tick \/ World \/ UNCHANGED vars
  <2>1. UNCHANGED <<tpc, zero, ticks, late>>
    BY <1>4 DEF Tick, World, vars, tickVars
  <2>2. cancelled => cancelled'
    BY <1>4, Zenon DEF Tick, World, vars, shellVars, ShellExecute, SpawnFails, SpawnShell, OnCancel,
       OnTimeout, Kill, Killed, OnExit, WaitFails, OutputRead, Processes, Fork,
       DescendantEnds, ChildExits, Cancel, TimePasses
  <2>. QED
    BY <2>1, <2>2
<1>. QED
  BY <1>1, <1>2, <1>3, <1>4 DEF Next, Run, Returned

----------------------------------------------------------------------------
(* Theorems.                                                               *)

LEMMA Invariance == Spec => []IInv
<1>1. IInv /\ [Next]_vars => IInv'
  BY TypeNext, TickNext, RowsNext, LateNext DEF IInv
<1>. QED
  BY IInvInit, <1>1, PTL DEF Spec

\* Type correctness.
THEOREM TypeCorrect == Spec => []TypeOK
<1>1. IInv => TypeOK
  BY DEF IInv
<1>. QED
  BY Invariance, <1>1, PTL

\* However many ticks a continuous task ran, each left its row unless the store
\* failed, and after a shutdown the task reports the last of them.
THEOREM LastTickReported == Spec => []ReportsLastTick
<1>1. IInv => ReportsLastTick
  BY ContinuousOK DEF IInv, TypeOK, RowsInv, Pending, ReportsLastTick
<1>. QED
  BY Invariance, <1>1, PTL

\* With a positive interval a cancelled continuous task begins one more tick at
\* the most.
THEOREM LateTickBound == Spec => []OneLateTick
<1>1. IInv => OneLateTick
  BY DEF IInv, LateInv, OneLateTick
<1>. QED
  BY Invariance, <1>1, PTL

\* Between two ticks there is neither a shell nor a zombie.
THEOREM TicksCleanUp == Spec => []NoTickLeft
<1>1. IInv => NoTickLeft
  BY DEF IInv, TickInv
<1>. QED
  BY Invariance, <1>1, PTL

\* The status of every tick is the one its shell's end calls for.
THEOREM TicksHonest == Spec => []HonestTicks
<1>1. IInv => HonestTicks
  BY DEF IInv, TickInv, ShellInv, HonestTicks, HonestStatus
<1>. QED
  BY Invariance, <1>1, PTL

============================================================================
