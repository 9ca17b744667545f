------------------------- MODULE TaskManagerProofs -------------------------
(***************************************************************************)
(* Proofs about TaskManager, for any number of runs, ids, permits, channel *)
(* capacity and chain length.                                              *)
(***************************************************************************)
EXTENDS TaskManager, FiniteSetTheorems, TLAPS

\* Where the main loop holds a batch or a result.
MainOK ==
  /\ mpc \in {"submit", "spawn"} => batch > 0
  /\ mpc \in {"send", "flush"} => inhand \in Step

\* A run at its result loop has a result left to handle.
RunOK ==
  \A r \in Runs : pc[r] \in {"journal", "audit", "send"} => sent[r] < Len(out[r])

\* Nothing has been sent before the executor returned.
FreshOK ==
  \A r \in Runs : pc[r] \in {"new", "inserted", "spawned", "waiting", "running"} => sent[r] = 0

\* The queue of the semaphore holds waiting runs, each once.
QueueOK ==
  /\ \A n \in 1..Len(waiters) : pc[waiters[n]] = "waiting"
  /\ \A m, n \in 1..Len(waiters) : waiters[m] = waiters[n] => m = n

RunInv == RunOK /\ FreshOK /\ QueueOK

TypeInv == TypeOK /\ MainOK

\* The counts of update_counts_static are natural numbers.
LEMMA CountsType ==
  ActiveTaskCounts \in [oneshot : Nat, continuous : Nat, total : Nat]
<1>1. \A tag : IsFiniteSet(Entries(tag))
  BY ConstantsOK, FS_Subset DEF ConstantsOK, Entries
<1>2. \A tag : Cardinality(Entries(tag)) \in Nat
  BY <1>1, FS_CardinalityType
<1>. QED
  BY <1>2 DEF ActiveTaskCounts

LEMMA EventNames ==
  {"agent.started", "agent.shutdown", "task.received"} \subseteq AuditEvents
  BY DEF AuditEvents

LEMMA AuditType ==
  ASSUME audit \subseteq AuditEvents \X (Runs \cup {None}),
         NEW n \in AuditEvents, NEW r \in Runs \cup {None}, RecordEvent(<<n, r>>)
  PROVE  audit' \subseteq AuditEvents \X (Runs \cup {None})
  BY DEF RecordEvent

LEMMA TypeInit == Init => TypeInv
<1> SUFFICES ASSUME Init PROVE TypeInv
  OBVIOUS
<1>1. pc \in [Runs -> RunPC] /\ kind \in [Runs -> Kinds \cup {None}] /\ id \in [Runs -> Ids \cup {None}]
  BY DEF Init, RunPC
<1>2. out \in [Runs -> Seq(TaskResultStatus)] /\ sent \in [Runs -> Nat]
  BY DEF Init
<1>3. audit \subseteq AuditEvents \X (Runs \cup {None})
  BY EventNames DEF Init
<1>4. permits \in Nat /\ waiters \in Seq(Runs) /\ chan \in Seq(Step)
  BY ConstantsOK DEF Init, ConstantsOK
<1>5. /\ active \in [Ids -> Runs \cup {None}] /\ cancelled \subseteq Runs
      /\ counts \in [oneshot : Nat, continuous : Nat, total : Nat]
  BY DEF Init
<1>6. /\ journal \subseteq Step /\ delivered \subseteq Step /\ failed \subseteq Step
      /\ inhand \in Step \cup {None} /\ batch \in Nat /\ mpc \in MainPC /\ shutdown \in BOOLEAN
      /\ MainOK
  BY Zenon DEF Init, MainPC, MainOK
<1>. QED
  BY <1>1, <1>2, <1>3, <1>4, <1>5, <1>6 DEF TypeInv, TypeOK

\* One case per action of the main loop.
LEMMA TypeMain == TypeInv /\ MainStep => TypeInv'
<1> SUFFICES ASSUME TypeInv, MainStep PROVE TypeInv'
  OBVIOUS
<1> USE DEF TypeInv, TypeOK, MainOK, MainPC, RunPC
<1>1. CASE RecvTasks
  BY <1>1, ConstantsOK DEF RecvTasks, ConstantsOK, runVars, semVars
<1>2. ASSUME NEW r \in Runs, NEW i \in Ids, NEW k \in Kinds, Submit(r, i, k)
      PROVE  TypeInv'
  <2>1. audit' \subseteq AuditEvents \X (Runs \cup {None})
    BY <1>2, EventNames, AuditType DEF Submit
  <2>. QED
    BY <1>2, <2>1 DEF Submit, semVars
<1>3. ASSUME NEW r \in Runs, Spawn(r)
      PROVE  TypeInv'
  BY <1>3, CountsType DEF Spawn, NextItem, runVars, semVars
<1>4. ASSUME NEW i \in Ids, HandleCancel(i)
      PROVE  TypeInv'
  <2>1. audit' \subseteq AuditEvents \X (Runs \cup {None})
    BY <1>4, EventNames, AuditType DEF HandleCancel
  <2>. QED
    BY <1>4, <2>1 DEF HandleCancel, NextItem, runVars, semVars
<1>5. CASE TakeResult
  BY <1>5 DEF TakeResult, runVars, semVars
<1>6. CASE SendResult
  BY <1>6 DEF SendResult, runVars, semVars
<1>7. CASE ExitLoop
  BY <1>7 DEF ExitLoop, runVars, semVars
<1>8. CASE DrainTake
  BY <1>8 DEF DrainTake, runVars, semVars
<1>9. CASE DrainEnd
  <2>1. audit' \subseteq AuditEvents \X (Runs \cup {None})
    BY <1>9, EventNames, AuditType DEF DrainEnd
  <2>. QED
    BY <1>9, <2>1 DEF DrainEnd, runVars, semVars
<1>10. CASE ProcessExit
  BY <1>10 DEF ProcessExit, runVars, semVars
<1>. QED
  BY <1>1, <1>2, <1>3, <1>4, <1>5, <1>6, <1>7, <1>8, <1>9, <1>10, Zenon DEF MainStep

\* An executor returns a sequence of statuses.
LEMMA OutcomesType ==
  ASSUME NEW r \in Runs
  PROVE  ExecOutcomes(r) \subseteq Seq(TaskResultStatus)
<1>1. CASE kind[r] = "chain"
  <2> SUFFICES ASSUME NEW n \in 0..ChainLen, NEW o \in [1..n -> Outcomes]
               PROVE  o \in Seq(TaskResultStatus)
    BY <1>1 DEF ExecOutcomes, ChainOutcomes
  <2>1. Outcomes \subseteq TaskResultStatus /\ n \in Nat
    BY ConstantsOK DEF ConstantsOK, ExecStatus
  <2>. QED
    BY <2>1
<1>2. CASE kind[r] # "chain"
  <2>1. ExecStatuses(r) \subseteq TaskResultStatus
    BY ConstantsOK, Zenon DEF ConstantsOK, ExecStatuses, ExecStatus, TaskResultStatus
  <2>2. \A x \in TaskResultStatus : <<x>> \in Seq(TaskResultStatus)
    OBVIOUS
  <2>. QED
    BY <1>2, <2>1, <2>2, Zenon DEF ExecOutcomes
<1>. QED
  BY <1>1, <1>2

\* One case per await point of a run.
LEMMA TypeRun ==
  ASSUME TypeInv, RunInv, NEW r \in Runs, RunStep(r) \/ Tick(r)
  PROVE  TypeInv'
<1> USE DEF TypeInv, TypeOK, MainOK, MainPC, RunPC, runVars, mainVars
<1>1. CASE Acquire(r)
  <2>1. pc' \in [Runs -> RunPC]
    BY <1>1, Zenon DEF Acquire
  <2>2. permits' \in Nat
    BY <1>1 DEF Acquire
  <2>3. waiters' \in Seq(Runs)
    <3>1. waiters' \in {waiters, Append(waiters, r)}
      BY <1>1 DEF Acquire
    <3>2. waiters \in Seq(Runs) /\ Append(waiters, r) \in Seq(Runs)
      OBVIOUS
    <3>. QED
      BY <3>1, <3>2, Zenon
  <2>. QED
    BY <1>1, <2>1, <2>2, <2>3, Zenon DEF Acquire
<1>2. CASE Tick(r)
  <2>1. journal' \subseteq Step
    BY <1>2 DEF Tick, Step
  <2>. QED
    BY <1>2, <2>1 DEF Tick, semVars
<1>3. CASE Finish(r)
  <2>1. PICK o \in ExecOutcomes(r) :
          /\ out' = [out EXCEPT ![r] = o]
          /\ pc' = [pc EXCEPT ![r] = IF o = <<>> THEN "remove" ELSE "journal"]
    BY <1>3, Zenon DEF Finish
  <2>2. o \in Seq(TaskResultStatus)
    BY OutcomesType
  <2>. QED
    BY <1>3, <2>1, <2>2 DEF Finish, semVars
<1>4. CASE Journal(r)
  <2>1. pc' \in [Runs -> RunPC]
    BY <1>4 DEF Journal
  <2>2. <<r, sent[r] + 1>> \in Step
    BY DEF Step
  <2>3. journal' \subseteq Step
    BY <1>4, <2>2, Zenon DEF Journal
  <2>. QED
    BY <1>4, <2>1, <2>3 DEF Journal, semVars
<1>5. CASE Audit(r)
  <2>1. out[r][1] \in TaskResultStatus
    BY <1>5 DEF Audit, RunInv, RunOK
  <2>2. TerminalEvent[out[r][1]] \in AuditEvents
    BY <2>1 DEF AuditEvents, TerminalEvents
  <2>. QED
    <3>1. audit' \subseteq AuditEvents \X (Runs \cup {None})
      BY <1>5, <2>2, AuditType DEF Audit
    <3>. QED
      BY <1>5, <3>1 DEF Audit, semVars
<1>6. CASE Send(r)
  <2>1. pc' \in [Runs -> RunPC]
    BY <1>6 DEF Send
  <2>2. sent' \in [Runs -> Nat]
    BY <1>6 DEF Send
  <2>3. <<r, sent[r] + 1>> \in Step
    BY DEF Step
  <2>4. chan' \in Seq(Step)
    BY <1>6, <2>3 DEF Send
  <2>. QED
    BY <1>6, <2>1, <2>2, <2>4 DEF Send, semVars
<1>7. CASE Remove(r)
  BY <1>7, Zenon DEF Remove, semVars
<1>8. CASE Count(r)
  BY <1>8, CountsType DEF Count, semVars
<1>9. CASE Release(r)
  <2>1. CASE waiters = <<>>
    <3>1. pc' \in [Runs -> RunPC]
      BY <1>9, <2>1, Zenon DEF Release
    <3>2. permits' \in Nat
      BY <1>9, <2>1 DEF Release
    <3>. QED
      BY <1>9, <2>1, <3>1, <3>2 DEF Release
  <2>2. CASE waiters # <<>>
    <3>1. Head(waiters) \in Runs /\ Tail(waiters) \in Seq(Runs)
      BY <2>2
    <3>2. pc' \in [Runs -> RunPC] /\ waiters' \in Seq(Runs)
      BY <1>9, <2>2, <3>1, Zenon DEF Release
    <3>. QED
      BY <1>9, <2>2, <3>2, Zenon DEF Release
  <2>. QED
    BY <2>1, <2>2, Zenon
<1>. QED
  BY <1>1, <1>2, <1>3, <1>4, <1>5, <1>6, <1>7, <1>8, <1>9, Zenon DEF RunStep

LEMMA TypeNext == TypeInv /\ RunInv /\ [Next]_vars => TypeInv'
<1> SUFFICES ASSUME TypeInv, RunInv, [Next]_vars PROVE TypeInv'
  OBVIOUS
<1>1. CASE Signal
  BY <1>1 DEF Signal, TypeInv, TypeOK, MainOK, runVars, semVars, mainVars
<1>2. CASE UNCHANGED vars
  BY <1>2 DEF vars, TypeInv, TypeOK, MainOK, runVars, semVars, mainVars
<1>. QED
  BY <1>1, <1>2, TypeMain, TypeRun DEF Next, Exited

----------------------------------------------------------------------------
(* The await points of a run and the queue of the semaphore.               *)

\* All steps of the agent but these leave the runs and the semaphore alone.
LEMMA Frame ==
  ASSUME [Next]_vars
  PROVE  \/ UNCHANGED <<pc, runVars, active, semVars, counts>>
         \/ \E r \in Runs, i \in Ids, k \in Kinds : Submit(r, i, k)
         \/ \E r \in Runs : Spawn(r)
         \/ \E r \in Runs : RunStep(r)
  BY DEF Next, MainStep, vars, Signal, Exited, RecvTasks, HandleCancel, TakeResult,
         SendResult, ExitLoop, DrainTake, DrainEnd, ProcessExit, Tick

LEMMA RunInit == Init => RunInv
  BY DEF Init, RunInv, RunOK, FreshOK, QueueOK

LEMMA QueueNext == TypeInv /\ RunInv /\ [Next]_vars => QueueOK'
<1> SUFFICES ASSUME TypeInv, RunInv, [Next]_vars PROVE QueueOK'
  OBVIOUS
<1>1. /\ pc \in [Runs -> RunPC] /\ waiters \in Seq(Runs)
      /\ \A n \in 1..Len(waiters) : waiters[n] \in Runs /\ pc[waiters[n]] = "waiting"
      /\ \A m, n \in 1..Len(waiters) : waiters[m] = waiters[n] => m = n
  BY DEF TypeInv, TypeOK, RunInv, QueueOK
<1>2. ASSUME NEW r \in Runs, pc[r] # "waiting", UNCHANGED waiters,
             \A q \in Runs : q # r => pc'[q] = pc[q]
      PROVE  QueueOK'
  BY <1>1, <1>2 DEF QueueOK
<1>3. ASSUME NEW r \in Runs, Acquire(r)
      PROVE  QueueOK'
  <2>1. CASE permits > 0
    <3>1. UNCHANGED waiters /\ pc' = [pc EXCEPT ![r] = "running"] /\ pc[r] = "spawned"
      BY <1>3, <2>1 DEF Acquire, TypeInv, TypeOK
    <3>. QED
      BY <1>1, <1>2, <3>1
  <2>2. CASE ~(permits > 0)
    <3>1. /\ waiters' = Append(waiters, r)
          /\ pc' = [pc EXCEPT ![r] = "waiting"]
          /\ pc[r] # "waiting"
      BY <1>3, <2>2 DEF Acquire, TypeInv, TypeOK
    <3>2. \A n \in 1..Len(waiters) : waiters[n] # r
      BY <1>1, <3>1
    <3>3. /\ Len(waiters') = Len(waiters) + 1
          /\ \A n \in 1..Len(waiters) : waiters'[n] = waiters[n]
          /\ waiters'[Len(waiters) + 1] = r
      BY <1>1, <3>1
    <3>. QED
      BY <1>1, <3>1, <3>2, <3>3 DEF QueueOK
  <2>. QED
    BY <2>1, <2>2
<1>4. ASSUME NEW r \in Runs, Release(r)
      PROVE  QueueOK'
  <2>1. CASE waiters = <<>>
    <3>1. UNCHANGED waiters /\ pc' = [pc EXCEPT ![r] = "done"] /\ pc[r] = "release"
      BY <1>4, <2>1 DEF Release
    <3>. QED
      BY <1>1, <1>2, <3>1
  <2>2. CASE waiters # <<>>
    <3> DEFINE h == Head(waiters)
    <3>1. /\ h = waiters[1] /\ 1 \in 1..Len(waiters)
          /\ waiters' = Tail(waiters)
          /\ pc' = [pc EXCEPT ![r] = "done", ![h] = "running"]
          /\ pc[r] = "release"
      BY <1>1, <1>4, <2>2 DEF Release
    <3>2. /\ Len(waiters') = Len(waiters) - 1
          /\ \A n \in 1..Len(waiters') : n + 1 \in 1..Len(waiters) /\ waiters'[n] = waiters[n + 1]
      BY <1>1, <2>2, <3>1
    <3>3. \A n \in 1..Len(waiters') : waiters'[n] # h /\ waiters'[n] # r
      BY <1>1, <3>1, <3>2
    <3>. QED
      BY <1>1, <3>1, <3>2, <3>3 DEF QueueOK
  <2>. QED
    BY <2>1, <2>2
<1>5. ASSUME NEW r \in Runs, RunStep(r), ~Acquire(r), ~Release(r)
      PROVE  QueueOK'
  <2>1. /\ pc[r] # "waiting" /\ waiters' = waiters
        /\ \A q \in Runs : q # r => pc'[q] = pc[q]
    BY <1>1, <1>5 DEF RunStep, Finish, Journal, Audit, Send, Remove, Count, semVars
  <2>. QED
    BY <1>2, <2>1
<1>6. ASSUME NEW r \in Runs, NEW i \in Ids, NEW k \in Kinds, Submit(r, i, k)
      PROVE  QueueOK'
  BY <1>1, <1>2, <1>6 DEF Submit, semVars
<1>7. ASSUME NEW r \in Runs, Spawn(r)
      PROVE  QueueOK'
  BY <1>1, <1>2, <1>7 DEF Spawn, semVars
<1>8. CASE UNCHANGED <<pc, runVars, active, semVars, counts>>
  BY <1>1, <1>8 DEF semVars, QueueOK
<1>. QED
  BY <1>3, <1>4, <1>5, <1>6, <1>7, <1>8, Frame

LEMMA RunNext == TypeInv /\ RunInv /\ [Next]_vars => RunOK' /\ FreshOK'
<1> SUFFICES ASSUME TypeInv, RunInv, [Next]_vars PROVE RunOK' /\ FreshOK'
  OBVIOUS
<1>1. /\ pc \in [Runs -> RunPC] /\ waiters \in Seq(Runs)
      /\ sent \in [Runs -> Nat] /\ out \in [Runs -> Seq(TaskResultStatus)]
      /\ RunOK /\ FreshOK
  BY DEF TypeInv, TypeOK, RunInv
<1>2. ASSUME NEW r \in Runs, Acquire(r) PROVE RunOK' /\ FreshOK'
  BY <1>1, <1>2 DEF Acquire, RunOK, FreshOK, runVars
<1>3. ASSUME NEW r \in Runs, Finish(r) PROVE RunOK' /\ FreshOK'
  <2>1. PICK o \in ExecOutcomes(r) :
          /\ out' = [out EXCEPT ![r] = o]
          /\ pc' = [pc EXCEPT ![r] = IF o = <<>> THEN "remove" ELSE "journal"]
    BY <1>3, Zenon DEF Finish
  <2>2. o \in Seq(TaskResultStatus) /\ (o # <<>> => 0 < Len(o))
    BY OutcomesType
  <2>3. sent' = sent /\ sent[r] = 0
    BY <1>1, <1>3 DEF Finish, FreshOK
  <2>. QED
    BY <1>1, <2>1, <2>2, <2>3 DEF RunOK, FreshOK
<1>4. ASSUME NEW r \in Runs, Journal(r) PROVE RunOK' /\ FreshOK'
  BY <1>1, <1>4 DEF Journal, RunOK, FreshOK, runVars
<1>5. ASSUME NEW r \in Runs, Audit(r) PROVE RunOK' /\ FreshOK'
  BY <1>1, <1>5 DEF Audit, RunOK, FreshOK, runVars
<1>6. ASSUME NEW r \in Runs, Send(r) PROVE RunOK' /\ FreshOK'
  BY <1>1, <1>6 DEF Send, RunOK, FreshOK
<1>7. ASSUME NEW r \in Runs, Remove(r) \/ Count(r) PROVE RunOK' /\ FreshOK'
  BY <1>1, <1>7 DEF Remove, Count, RunOK, FreshOK, runVars
<1>8. ASSUME NEW r \in Runs, Release(r) PROVE RunOK' /\ FreshOK'
  <2>1. CASE waiters = <<>>
    BY <1>1, <1>8, <2>1 DEF Release, RunOK, FreshOK, runVars
  <2>2. CASE waiters # <<>>
    <3>1. /\ Head(waiters) = waiters[1] /\ Head(waiters) \in Runs
          /\ pc[Head(waiters)] = "waiting"
      BY <1>1, <2>2 DEF RunInv, QueueOK
    <3>. QED
      BY <1>1, <1>8, <2>2, <3>1, Zenon DEF Release, RunOK, FreshOK, runVars
  <2>. QED
    BY <2>1, <2>2
<1>9. ASSUME NEW r \in Runs, NEW i \in Ids, NEW k \in Kinds, Submit(r, i, k)
      PROVE  RunOK' /\ FreshOK'
  BY <1>1, <1>9 DEF Submit, RunOK, FreshOK
<1>10. ASSUME NEW r \in Runs, Spawn(r)
       PROVE  RunOK' /\ FreshOK'
  BY <1>1, <1>10 DEF Spawn, RunOK, FreshOK, runVars
<1>11. CASE UNCHANGED <<pc, runVars, active, semVars, counts>>
  BY <1>1, <1>11 DEF runVars, RunOK, FreshOK
<1>. QED
  BY <1>2, <1>3, <1>4, <1>5, <1>6, <1>7, <1>8, <1>9, <1>10, <1>11, Frame DEF RunStep

LEMMA TypeInvariance == Spec => [](TypeInv /\ RunInv)
<1>1. TypeInv /\ RunInv /\ [Next]_vars => TypeInv' /\ RunInv'
  BY TypeNext, RunNext, QueueNext DEF RunInv
<1>. QED
  BY TypeInit, RunInit, <1>1, PTL DEF Spec

\* Every variable of the task lifecycle keeps its type, whatever the order in
\* which the main loop, the runs and the signal handler take their steps.
THEOREM TypeCorrect == Spec => []TypeOK
<1>1. TypeInv => TypeOK
  BY DEF TypeInv
<1>. QED
  BY <1>1, TypeInvariance, PTL

----------------------------------------------------------------------------
(* The semaphore.                                                          *)

\* Only gated runs come near the semaphore.
GateOK ==
  \A r \in Runs : pc[r] \in {"spawned", "waiting", "release"} => Gated(kind[r])

\* Each permit is in the pool or with one run, and the pool is empty as long as
\* somebody waits.
PermitOK ==
  /\ permits + Cardinality(Holders) = MaxConcurrent
  /\ permits > 0 => waiters = <<>>

SemInv == GateOK /\ PermitOK

LEMMA HoldersFinite == IsFiniteSet(Holders) /\ Cardinality(Holders) \in Nat
<1>1. IsFiniteSet(Runs)
  BY ConstantsOK, FS_Interval DEF ConstantsOK, Runs
<1>. QED
  BY <1>1, FS_Subset, FS_CardinalityType DEF Holders

LEMMA SemInit == Init => SemInv
<1> SUFFICES ASSUME Init PROVE SemInv
  OBVIOUS
<1>1. Holders = {}
  BY DEF Init, Holders
<1>. QED
  BY <1>1, FS_EmptySet, ConstantsOK DEF Init, SemInv, GateOK, PermitOK, ConstantsOK

LEMMA GateNext == TypeInv /\ RunInv /\ GateOK /\ [Next]_vars => GateOK'
<1> SUFFICES ASSUME TypeInv, RunInv, GateOK, [Next]_vars PROVE GateOK'
  OBVIOUS
<1>1. pc \in [Runs -> RunPC] /\ waiters \in Seq(Runs) /\ kind \in [Runs -> Kinds \cup {None}]
  BY DEF TypeInv, TypeOK
<1>2. ASSUME NEW r \in Runs, RunStep(r), ~Release(r) PROVE GateOK'
  BY <1>1, <1>2
  DEF GateOK, RunStep, Acquire, Finish, Journal, Audit, Send, Remove, Count, runVars
<1>3. ASSUME NEW r \in Runs, Release(r) PROVE GateOK'
  <2>1. \A q \in Runs : pc'[q] \in {pc[q], "done", "running"}
    BY <1>1, <1>3 DEF Release
  <2>. QED
    BY <1>3, <2>1, Zenon DEF Release, GateOK, runVars
<1>4. ASSUME NEW r \in Runs, NEW i \in Ids, NEW k \in Kinds, Submit(r, i, k) PROVE GateOK'
  BY <1>1, <1>4 DEF Submit, GateOK
<1>5. ASSUME NEW r \in Runs, Spawn(r) PROVE GateOK'
  BY <1>1, <1>5 DEF Spawn, GateOK, runVars
<1>6. CASE UNCHANGED <<pc, runVars, active, semVars, counts>>
  BY <1>6 DEF GateOK, runVars
<1>. QED
  BY <1>2, <1>3, <1>4, <1>5, <1>6, Frame

LEMMA PermitNext == TypeInv /\ RunInv /\ SemInv /\ [Next]_vars => PermitOK'
<1> SUFFICES ASSUME TypeInv, RunInv, SemInv, [Next]_vars PROVE PermitOK'
  OBVIOUS
<1>1. /\ pc \in [Runs -> RunPC] /\ waiters \in Seq(Runs) /\ kind \in [Runs -> Kinds \cup {None}]
      /\ permits \in Nat /\ MaxConcurrent \in Nat
      /\ IsFiniteSet(Holders) /\ Cardinality(Holders) \in Nat
      /\ GateOK /\ PermitOK
  BY ConstantsOK, HoldersFinite DEF TypeInv, TypeOK, SemInv, ConstantsOK
<1>2. ASSUME Holders' = Holders, UNCHANGED semVars PROVE PermitOK'
  BY <1>1, <1>2 DEF PermitOK, semVars
<1>3. ASSUME NEW r \in Runs, Acquire(r) PROVE PermitOK'
  <2>1. CASE permits > 0
    <3>1. /\ pc' = [pc EXCEPT ![r] = "running"] /\ pc[r] = "spawned"
          /\ permits' = permits - 1 /\ waiters' = waiters /\ kind' = kind
      BY <1>1, <1>3, <2>1 DEF Acquire, runVars
    <3>2. r \notin Holders /\ Holders' = Holders \cup {r}
      BY <1>1, <3>1 DEF Holders, GateOK
    <3>3. Cardinality(Holders') = Cardinality(Holders) + 1
      BY <1>1, <3>2, FS_AddElement, Zenon
    <3>. QED
      BY <1>1, <2>1, <3>1, <3>3 DEF PermitOK
  <2>2. CASE ~(permits > 0)
    <3>1. /\ pc' = [pc EXCEPT ![r] = "waiting"] /\ pc[r] = "spawned"
          /\ permits' = permits /\ kind' = kind
      BY <1>1, <1>3, <2>2 DEF Acquire, runVars
    <3>2. Holders' = Holders
      BY <1>1, <3>1 DEF Holders
    <3>. QED
      BY <1>1, <2>2, <3>1, <3>2 DEF PermitOK
  <2>. QED
    BY <2>1, <2>2
<1>4. ASSUME NEW r \in Runs, Release(r) PROVE PermitOK'
  <2>1. pc[r] = "release" /\ r \in Holders /\ kind' = kind
    BY <1>1, <1>4 DEF Release, Holders, GateOK, runVars
  <2>2. CASE waiters = <<>>
    <3>1. pc' = [pc EXCEPT ![r] = "done"] /\ permits' = permits + 1 /\ waiters' = waiters
      BY <1>4, <2>2 DEF Release
    <3>2. Holders' = Holders \ {r}
      BY <1>1, <2>1, <3>1 DEF Holders
    <3>3. Cardinality(Holders') = Cardinality(Holders) - 1
      BY <1>1, <2>1, <3>2, FS_RemoveElement, Zenon
    <3>. QED
      BY <1>1, <2>2, <3>1, <3>3 DEF PermitOK
  <2>3. CASE waiters # <<>>
    <3> DEFINE h == Head(waiters)
    <3>1. /\ h \in Runs /\ pc[h] = "waiting" /\ h # r
          /\ pc' = [pc EXCEPT ![r] = "done", ![h] = "running"]
          /\ permits' = permits
      BY <1>1, <1>4, <2>1, <2>3 DEF Release, RunInv, QueueOK
    <3>2. Holders' = (Holders \ {r}) \cup {h} /\ h \notin Holders
      BY <1>1, <2>1, <3>1 DEF Holders, GateOK
    <3>3. /\ IsFiniteSet(Holders \ {r})
          /\ Cardinality(Holders \ {r}) = Cardinality(Holders) - 1
      BY <1>1, <2>1, FS_RemoveElement
    <3>4. Cardinality((Holders \ {r}) \cup {h}) = Cardinality(Holders \ {r}) + 1
      BY <3>2, <3>3, FS_AddElement
    <3>5. permits = 0
      BY <1>1, <2>3 DEF PermitOK
    <3>. QED
      BY <1>1, <3>1, <3>2, <3>3, <3>4, <3>5 DEF PermitOK
  <2>. QED
    BY <2>2, <2>3
<1>5. ASSUME NEW r \in Runs, RunStep(r), ~Acquire(r), ~Release(r) PROVE PermitOK'
  <2>1. Holders' = Holders
    BY <1>1, <1>5, Zenon DEF RunStep, Finish, Journal, Audit, Send, Remove, Count, runVars, Holders
  <2>2. UNCHANGED semVars
    BY <1>5, Zenon DEF RunStep, Finish, Journal, Audit, Send, Remove, Count
  <2>. QED
    BY <1>2, <2>1, <2>2
<1>6. ASSUME NEW r \in Runs, NEW i \in Ids, NEW k \in Kinds, Submit(r, i, k) PROVE PermitOK'
  <2>1. Holders' = Holders
    BY <1>1, <1>6 DEF Submit, Holders
  <2>. QED
    BY <1>2, <1>6, <2>1 DEF Submit
<1>7. ASSUME NEW r \in Runs, Spawn(r) PROVE PermitOK'
  <2>1. Holders' = Holders
    BY <1>1, <1>7 DEF Spawn, Holders, runVars
  <2>. QED
    BY <1>2, <1>7, <2>1, Zenon DEF Spawn
<1>8. CASE UNCHANGED <<pc, runVars, active, semVars, counts>>
  BY <1>2, <1>8 DEF Holders, runVars
<1>. QED
  BY <1>3, <1>4, <1>5, <1>6, <1>7, <1>8, Frame

LEMMA SemInvariance == Spec => []SemInv
<1>1. TypeInv /\ RunInv /\ SemInv /\ [Next]_vars => SemInv'
  BY GateNext, PermitNext DEF SemInv
<1>. QED
  BY SemInit, <1>1, TypeInvariance, PTL DEF Spec

\* No more than max_concurrent runs are ever between acquiring their permit and
\* dropping it, for every max_concurrent and any number of submitted items.
THEOREM Concurrency == Spec => []ConcurrencyBound
<1>1. TypeInv /\ SemInv => ConcurrencyBound
  BY HoldersFinite, ConstantsOK
  DEF SemInv, PermitOK, ConcurrencyBound, TypeInv, TypeOK, ConstantsOK
<1>. QED
  BY <1>1, TypeInvariance, SemInvariance, PTL

\* While a permit is unused nobody waits for one.
THEOREM NoIdle == Spec => []NoIdlePermit
<1>1. TypeInv /\ SemInv => NoIdlePermit
  BY HoldersFinite, ConstantsOK
  DEF SemInv, PermitOK, NoIdlePermit, TypeInv, TypeOK, ConstantsOK
<1>. QED
  BY <1>1, TypeInvariance, SemInvariance, PTL

\* The semaphore of TaskManager::new neither multiplies nor loses permits, for
\* every max_concurrent.
THEOREM Permits == Spec => []PermitsExact
  BY Concurrency, NoIdle, PTL DEF PermitsExact

----------------------------------------------------------------------------
(* active_tasks, the counts and the cancel requests.                       *)

LEMMA CountsInit == Init => CountsAccurate
<1> SUFFICES ASSUME Init PROVE counts = ActiveTaskCounts
  BY DEF CountsAccurate
<1>1. \A tag : Entries(tag) = {}
  BY DEF Init, Entries
<1>2. Cardinality(Entries("Oneshot")) = 0 /\ Cardinality(Entries("Continuous")) = 0
  BY <1>1, FS_EmptySet
<1>. QED
  BY <1>2 DEF Init, ActiveTaskCounts

LEMMA CountsNext == TypeInv /\ RunInv /\ CountsAccurate /\ [Next]_vars => CountsAccurate'
<1> SUFFICES ASSUME TypeInv, RunInv, CountsAccurate, [Next]_vars,
                    \A r \in Runs : pc'[r] \notin {"inserted", "count"}
             PROVE  counts' = ActiveTaskCounts'
  BY DEF CountsAccurate
<1>1. pc \in [Runs -> RunPC] /\ waiters \in Seq(Runs)
  BY DEF TypeInv, TypeOK
<1>2. UNCHANGED <<active, kind>> => ActiveTaskCounts' = ActiveTaskCounts
  BY DEF ActiveTaskCounts, Entries
<1>3. ASSUME UNCHANGED <<active, kind, counts>>,
             \A r \in Runs : pc[r] \in {"inserted", "count"} => pc'[r] = pc[r]
      PROVE  counts' = ActiveTaskCounts'
  BY <1>2, <1>3 DEF CountsAccurate
<1>4. ASSUME NEW r \in Runs, Count(r) PROVE counts' = ActiveTaskCounts'
  BY <1>2, <1>4 DEF Count, runVars
<1>5. ASSUME NEW r \in Runs, Remove(r) PROVE FALSE
  BY <1>1, <1>5 DEF Remove
<1>6. ASSUME NEW r \in Runs, Release(r) PROVE counts' = ActiveTaskCounts'
  <2>1. CASE waiters = <<>>
    BY <1>1, <1>3, <1>6, <2>1 DEF Release, runVars
  <2>2. CASE waiters # <<>>
    <3>1. Head(waiters) \in Runs /\ pc[Head(waiters)] = "waiting"
      BY <1>1, <2>2 DEF RunInv, QueueOK
    <3>2. \A q \in Runs : pc[q] \in {"inserted", "count"} => pc'[q] = pc[q]
      BY <1>1, <1>6, <2>2, <3>1 DEF Release
    <3>. QED
      BY <1>3, <1>6, <3>2 DEF Release, runVars
  <2>. QED
    BY <2>1, <2>2
<1>7. ASSUME NEW r \in Runs, RunStep(r), ~Count(r), ~Remove(r), ~Release(r)
      PROVE  counts' = ActiveTaskCounts'
  <2>1. \A q \in Runs : pc[q] \in {"inserted", "count"} => pc'[q] = pc[q]
    BY <1>1, <1>7 DEF RunStep, Acquire, Finish, Journal, Audit, Send
  <2>2. UNCHANGED <<active, kind, counts>>
    BY <1>7 DEF RunStep, Acquire, Finish, Journal, Audit, Send, runVars
  <2>. QED
    BY <1>3, <2>1, <2>2
<1>8. ASSUME NEW r \in Runs, NEW i \in Ids, NEW k \in Kinds, Submit(r, i, k) PROVE FALSE
  BY <1>1, <1>8 DEF Submit
<1>9. ASSUME NEW r \in Runs, Spawn(r) PROVE counts' = ActiveTaskCounts'
  BY <1>2, <1>9 DEF Spawn, runVars
<1>10. CASE UNCHANGED <<pc, runVars, active, semVars, counts>>
  BY <1>3, <1>10 DEF runVars
<1>. QED
  BY <1>4, <1>5, <1>6, <1>7, <1>8, <1>9, <1>10, Frame

\* The counts sent on the watch channel agree with active_tasks whenever no run
\* is between its change of active_tasks and its update_counts call.
THEOREM Counts == Spec => []CountsAccurate
  BY CountsInit, CountsNext, TypeInvariance, PTL DEF Spec

LEMMA EntryNext == TypeInv /\ EntryIsLive /\ [Next]_vars => EntryIsLive'
<1> SUFFICES ASSUME TypeInv, EntryIsLive, [Next]_vars PROVE EntryIsLive'
  OBVIOUS
<1>1. /\ pc \in [Runs -> RunPC] /\ waiters \in Seq(Runs)
      /\ id \in [Runs -> Ids \cup {None}] /\ active \in [Ids -> Runs \cup {None}]
      /\ None \notin Runs /\ None \notin Ids
  BY ConstantsOK DEF TypeInv, TypeOK, ConstantsOK
<1>2. ASSUME UNCHANGED <<active, id>>,
             \A q \in Registered : q \in Registered'
      PROVE  EntryIsLive'
  BY <1>1, <1>2 DEF EntryIsLive
<1>3. ASSUME NEW r \in Runs, Remove(r) PROVE EntryIsLive'
  <2>1. active' = [active EXCEPT ![id[r]] = None] /\ id' = id
    BY <1>3 DEF Remove, runVars
  <2>2. \A q \in Registered : q # r => q \in Registered'
    BY <1>1, <1>3 DEF Remove, Registered
  <2>. QED
    BY <1>1, <2>1, <2>2 DEF EntryIsLive
<1>4. ASSUME NEW r \in Runs, Release(r) PROVE EntryIsLive'
  <2>1. \A q \in Registered : q \in Registered'
    BY <1>1, <1>4 DEF Release, Registered
  <2>. QED
    BY <1>2, <1>4, <2>1 DEF Release, runVars
<1>5. ASSUME NEW r \in Runs, RunStep(r), ~Remove(r), ~Release(r) PROVE EntryIsLive'
  <2>1. \A q \in Registered : q \in Registered'
    BY <1>1, <1>5, Zenon DEF RunStep, Acquire, Finish, Journal, Audit, Send, Count, Registered
  <2>2. UNCHANGED <<active, id>>
    BY <1>5 DEF RunStep, Acquire, Finish, Journal, Audit, Send, Count, runVars
  <2>. QED
    BY <1>2, <2>1, <2>2
<1>6. ASSUME NEW r \in Runs, NEW i \in Ids, NEW k \in Kinds, Submit(r, i, k) PROVE EntryIsLive'
  <2>1. /\ active' = [active EXCEPT ![i] = r] /\ id' = [id EXCEPT ![r] = i]
        /\ r \notin Registered /\ r \in Registered'
        /\ \A q \in Registered : q \in Registered'
    BY <1>1, <1>6 DEF Submit, Registered
  <2>. QED
    BY <1>1, <2>1 DEF EntryIsLive
<1>7. ASSUME NEW r \in Runs, Spawn(r) PROVE EntryIsLive'
  <2>1. \A q \in Registered : q \in Registered'
    BY <1>1, <1>7, Zenon DEF Spawn, Registered
  <2>. QED
    BY <1>2, <1>7, <2>1, Zenon DEF Spawn, runVars
<1>8. CASE UNCHANGED <<pc, runVars, active, semVars, counts>>
  BY <1>2, <1>8 DEF runVars, Registered
<1>. QED
  BY <1>3, <1>4, <1>5, <1>6, <1>7, <1>8, Frame

\* An entry of active_tasks belongs to a live run of that id, also when the
\* control plane submits an id again while its first run is still working.
THEOREM Entry == Spec => []EntryIsLive
<1>1. Init => EntryIsLive
  BY DEF Init, EntryIsLive
<1>. QED
  BY <1>1, EntryNext, TypeInvariance, PTL DEF Spec

\* A run has an id from its submission on.
IdOK == \A r \in Runs : IF pc[r] = "new" THEN id[r] = None ELSE id[r] \in Ids

LEMMA CancellableNext ==
  TypeInv /\ RunInv /\ IdOK /\ LiveIsCancellable /\ [Next]_vars => IdOK' /\ LiveIsCancellable'
<1> SUFFICES ASSUME TypeInv, RunInv, IdOK, LiveIsCancellable, [Next]_vars
             PROVE  IdOK' /\ LiveIsCancellable'
  OBVIOUS
<1>1. /\ pc \in [Runs -> RunPC] /\ waiters \in Seq(Runs)
      /\ id \in [Runs -> Ids \cup {None}] /\ active \in [Ids -> Runs \cup {None}]
      /\ None \notin Runs /\ None \notin Ids
  BY ConstantsOK DEF TypeInv, TypeOK, ConstantsOK
<1>2. ASSUME UNCHANGED <<active, id>>,
             \A q \in Runs : pc'[q] = "new" <=> pc[q] = "new",
             \A q \in Registered' : q \in Registered
      PROVE  IdOK' /\ LiveIsCancellable'
  BY <1>2, Zenon DEF IdOK, LiveIsCancellable
<1>3. ASSUME NEW r \in Runs, Remove(r) PROVE IdOK' /\ LiveIsCancellable'
  <2>1. /\ active' = [active EXCEPT ![id[r]] = None] /\ id' = id
        /\ \A q \in Runs : pc'[q] = "new" <=> pc[q] = "new"
    BY <1>1, <1>3 DEF Remove, runVars
  <2>2. \A q \in Registered' : q \in Registered /\ q # r /\ q \in Runs /\ pc[q] # "new"
    BY <1>1, <1>3 DEF Remove, Registered
  <2>. QED
    BY <1>1, <2>1, <2>2 DEF IdOK, LiveIsCancellable
<1>4. ASSUME NEW r \in Runs, Release(r) PROVE IdOK' /\ LiveIsCancellable'
  <2>1. CASE waiters = <<>>
    <3>1. pc' = [pc EXCEPT ![r] = "done"] /\ pc[r] = "release"
      BY <1>4, <2>1 DEF Release
    <3>. QED
      BY <1>1, <1>2, <1>4, <3>1 DEF Release, Registered, runVars
  <2>2. CASE waiters # <<>>
    <3>1. Head(waiters) \in Runs /\ pc[Head(waiters)] = "waiting"
      BY <1>1, <2>2 DEF RunInv, QueueOK
    <3>2. pc' = [pc EXCEPT ![r] = "done", ![Head(waiters)] = "running"] /\ pc[r] = "release"
      BY <1>4, <2>2 DEF Release
    <3>3. \A q \in Runs : /\ pc'[q] = "new" <=> pc[q] = "new"
                          /\ q \in Registered' => q \in Registered
      BY <1>1, <3>1, <3>2 DEF Registered
    <3>. QED
      BY <1>2, <1>4, <3>3 DEF Release, Registered, runVars
  <2>. QED
    BY <2>1, <2>2
<1>5. ASSUME NEW r \in Runs, RunStep(r), ~Remove(r), ~Release(r)
      PROVE  IdOK' /\ LiveIsCancellable'
  <2>1. \A q \in Runs : /\ pc'[q] = "new" <=> pc[q] = "new"
                        /\ q \in Registered' => q \in Registered
    BY <1>1, <1>5, Zenon DEF RunStep, Acquire, Finish, Journal, Audit, Send, Count, Registered
  <2>2. UNCHANGED <<active, id>>
    BY <1>5, Zenon DEF RunStep, Acquire, Finish, Journal, Audit, Send, Count, runVars
  <2>. QED
    BY <1>2, <2>1, <2>2 DEF Registered
<1>6. ASSUME NEW r \in Runs, NEW i \in Ids, NEW k \in Kinds, Submit(r, i, k)
      PROVE  IdOK' /\ LiveIsCancellable'
  <2>1. /\ active' = [active EXCEPT ![i] = r] /\ id' = [id EXCEPT ![r] = i]
        /\ pc[r] = "new" /\ pc' = [pc EXCEPT ![r] = "inserted"]
    BY <1>6 DEF Submit
  <2>2. IdOK'
    BY <1>1, <2>1 DEF IdOK
  <2>3. ASSUME NEW q \in Registered', \A p \in Runs \ {q} : id'[p] # id'[q]
        PROVE  active'[id'[q]] = q
    <3>1. CASE q = r
      BY <1>1, <2>1, <3>1
    <3>2. CASE q # r
      <4>1. q \in Registered /\ q \in Runs /\ id[q] \in Ids /\ id[q] # None
        BY <1>1, <2>1, <2>3, <3>2 DEF Registered, IdOK
      <4>2. id[q] # i /\ \A p \in Runs \ {q} : id[p] # id[q]
        BY <1>1, <2>1, <2>3, <3>2, <4>1 DEF IdOK
      <4>3. active[id[q]] = q
        BY <4>1, <4>2 DEF LiveIsCancellable
      <4>. QED
        BY <1>1, <2>1, <3>2, <4>1, <4>2, <4>3
    <3>. QED
      BY <3>1, <3>2
  <2>. QED
    BY <2>2, <2>3 DEF LiveIsCancellable
<1>7. ASSUME NEW r \in Runs, Spawn(r) PROVE IdOK' /\ LiveIsCancellable'
  <2>1. \A q \in Runs : /\ pc'[q] = "new" <=> pc[q] = "new"
                        /\ q \in Registered' => q \in Registered
    BY <1>1, <1>7, Zenon DEF Spawn, Registered
  <2>. QED
    BY <1>2, <1>7, <2>1 DEF Spawn, runVars, Registered
<1>8. CASE UNCHANGED <<pc, runVars, active, semVars, counts>>
  BY <1>2, <1>8 DEF runVars, Registered
<1>. QED
  BY <1>3, <1>4, <1>5, <1>6, <1>7, <1>8, Frame

\* A cancel request reaches every run that has not removed itself from
\* active_tasks and whose id the control plane has given to no other run.
THEOREM Cancellable == Spec => []LiveIsCancellable
<1>1. Init => IdOK /\ LiveIsCancellable
  BY ConstantsOK DEF Init, IdOK, LiveIsCancellable, Registered, ConstantsOK
<1>. QED
  BY <1>1, CancellableNext, TypeInvariance, PTL DEF Spec

----------------------------------------------------------------------------
(* The journal.                                                            *)

\* A run that goes on from its journal write has written its row.
RowOK == \A r \in Runs : pc[r] \in {"audit", "send"} => <<r, sent[r] + 1>> \in journal

LEMMA RowNext ==
  ASSUME StoreMayFail = FALSE
  PROVE  TypeInv /\ RunInv /\ RowOK /\ [Next]_vars => RowOK' /\ journal \subseteq journal'
<1> SUFFICES ASSUME TypeInv, RunInv, RowOK, [Next]_vars
             PROVE  RowOK' /\ journal \subseteq journal'
  OBVIOUS
<1>1. /\ pc \in [Runs -> RunPC] /\ waiters \in Seq(Runs) /\ sent \in [Runs -> Nat]
  BY DEF TypeInv, TypeOK
<1>2. journal \subseteq journal'
  BY Zenon DEF Next, MainStep, RunStep, vars, Signal, Exited, RecvTasks, Submit, Spawn, HandleCancel,
         TakeResult, SendResult, ExitLoop, DrainTake, DrainEnd, ProcessExit, Tick,
         Acquire, Finish, Journal, Audit, Send, Remove, Count, Release
<1>3. ASSUME NEW r \in Runs, Journal(r) PROVE RowOK'
  BY <1>1, <1>3 DEF Journal, RowOK, runVars
<1>4. ASSUME NEW r \in Runs, Release(r) PROVE RowOK'
  <2>1. \A q \in Runs : pc'[q] \in {pc[q], "done", "running"}
    BY <1>1, <1>4 DEF Release
  <2>. QED
    BY <1>4, <2>1 DEF Release, RowOK, runVars
<1>5. ASSUME NEW r \in Runs, RunStep(r), ~Journal(r), ~Release(r) PROVE RowOK'
  BY <1>1, <1>5, Zenon DEF RunStep, Acquire, Finish, Audit, Send, Remove, Count, RowOK, runVars
<1>6. ASSUME NEW r \in Runs, NEW i \in Ids, NEW k \in Kinds, Submit(r, i, k) PROVE RowOK'
  BY <1>1, <1>6 DEF Submit, RowOK
<1>7. ASSUME NEW r \in Runs, Spawn(r) PROVE RowOK'
  BY <1>1, <1>7 DEF Spawn, RowOK, runVars
<1>8. CASE UNCHANGED <<pc, runVars, active, semVars, counts>>
  BY <1>2, <1>8 DEF RowOK, runVars
<1>. QED
  BY <1>2, <1>3, <1>4, <1>5, <1>6, <1>7, <1>8, Frame

\* Results move from a run to the channel, on to main, and end as reported.
LEMMA ResultFlow ==
  ASSUME TypeInv, [Next]_vars, NEW e \in (Queued \cup InHand \cup Reported)'
  PROVE  \/ e \in Queued \cup InHand \cup Reported
         \/ \E r \in Runs : pc[r] = "send" /\ e = <<r, sent[r] + 1>>
<1>1. chan \in Seq(Step)
  BY DEF TypeInv, TypeOK
<1>2. CASE UNCHANGED <<chan, inhand, delivered, failed>>
  BY <1>2 DEF Queued, InHand, Reported
<1>3. ASSUME NEW r \in Runs, Send(r)
      PROVE  e \in Queued \cup InHand \cup Reported \/ (pc[r] = "send" /\ e = <<r, sent[r] + 1>>)
  <2>1. /\ chan' = Append(chan, <<r, sent[r] + 1>>) /\ pc[r] = "send"
        /\ UNCHANGED <<inhand, delivered, failed>>
    BY <1>3 DEF Send, mainVars
  <2>2. \A n \in 1..Len(chan') : chan'[n] = <<r, sent[r] + 1>> \/ chan'[n] \in Queued
    BY <1>1, <2>1 DEF Queued
  <2>. QED
    BY <2>1, <2>2 DEF Queued, InHand, Reported
<1>4. CASE TakeResult \/ DrainTake
  <2>1. /\ chan # <<>> /\ inhand' = Head(chan) /\ chan' = Tail(chan)
        /\ UNCHANGED <<delivered, failed>>
    BY <1>4 DEF TakeResult, DrainTake
  <2>2. Head(chan) \in Queued
    BY <1>1, <2>1 DEF Queued
  <2>3. \A n \in 1..Len(Tail(chan)) : Tail(chan)[n] \in Queued
    BY <1>1, <2>1 DEF Queued
  <2>. QED
    BY <2>1, <2>2, <2>3 DEF Queued, InHand, Reported
<1>5. CASE SendResult
  <2>1. /\ chan' = chan /\ inhand' = None
        /\ delivered' \cup failed' = delivered \cup failed \cup {inhand}
        /\ inhand \in Step
    BY <1>5 DEF SendResult, TypeInv, MainOK
  <2>2. inhand # None
    BY <2>1, ConstantsOK, Zenon DEF ConstantsOK, Step
  <2>. QED
    BY <2>1, <2>2 DEF Queued, InHand, Reported
<1>. QED
  BY <1>2, <1>3, <1>4, <1>5, Zenon
  DEF Next, MainStep, RunStep, vars, mainVars, Signal, Exited, RecvTasks, Submit, Spawn, HandleCancel,
      ExitLoop, DrainEnd, ProcessExit, Tick, Acquire, Finish, Journal, Audit, Remove, Count, Release

\* While the store accepts the rows, a result is in the journal before anything
\* outside its run can see it - in particular every result whose report failed.
THEOREM Journaled ==
  ASSUME StoreMayFail = FALSE
  PROVE  Spec => []JournalBeforeSend
<1>1. Init => RowOK /\ JournalBeforeSend
  BY DEF Init, RowOK, JournalBeforeSend, Queued, InHand, Reported
<1>2. TypeInv /\ RunInv /\ RowOK /\ JournalBeforeSend /\ [Next]_vars => RowOK' /\ JournalBeforeSend'
  <2> SUFFICES ASSUME TypeInv, RunInv, RowOK, JournalBeforeSend, [Next]_vars
               PROVE  RowOK' /\ JournalBeforeSend'
    OBVIOUS
  <2>1. RowOK' /\ journal \subseteq journal'
    BY RowNext, Zenon
  <2>2. ASSUME NEW e \in (Queued \cup InHand \cup Reported)' PROVE e \in journal
    BY ResultFlow, <2>2 DEF JournalBeforeSend, RowOK
  <2>. QED
    BY <2>1, <2>2 DEF JournalBeforeSend
<1>. QED
  BY <1>1, <1>2, TypeInvariance, PTL DEF Spec

----------------------------------------------------------------------------
(* The results.                                                            *)

\* Main holds a result only while it reports it.
HandOK == mpc \notin {"send", "flush"} => inhand = None

\* Every result sent is in one place.
PlaceOK ==
  /\ Queued \cup InHand \cup Reported = Sent
  /\ \A m, n \in 1..Len(chan) : chan[m] = chan[n] => m = n
  /\ Queued \cap InHand = {}
  /\ (Queued \cup InHand) \cap Reported = {}
  /\ delivered \cap failed = {}

\* The results its run sent before e, and those ahead of place n in the channel.
Before(e) == {<<e[1], k>> : k \in 1..(e[2] - 1)}
Ahead(n)  == {chan[m] : m \in 1..(n - 1)}

\* The results a run sent before one that is still on its way are ahead of it.
AheadOK ==
  /\ \A n \in 1..Len(chan) : Before(chan[n]) \subseteq Reported \cup InHand \cup Ahead(n)
  /\ \A e \in InHand \cup Reported : Before(e) \subseteq Reported

FlowInv == HandOK /\ PlaceOK /\ AheadOK

\* What the first result of the channel leaves behind when it is taken.
LEMMA TailFacts ==
  ASSUME chan \in Seq(Step), chan # <<>>
  PROVE  /\ Tail(chan) \in Seq(Step) /\ Len(Tail(chan)) = Len(chan) - 1
         /\ \A n \in 1..Len(Tail(chan)) : n + 1 \in 1..Len(chan) /\ Tail(chan)[n] = chan[n + 1]
         /\ 1 \in 1..Len(chan) /\ Head(chan) = chan[1] /\ chan[1] \in Step
OBVIOUS

LEMMA SentMember ==
  ASSUME NEW f, NEW q \in Runs, NEW k \in Nat
  PROVE  <<q, k>> \in UNION {{r} \X (1..f[r]) : r \in Runs} <=> k \in 1..f[q]
<1>1. ASSUME NEW r \in Runs PROVE <<q, k>> \in {r} \X (1..f[r]) <=> r = q /\ k \in 1..f[r]
  OBVIOUS
<1>. QED
  BY <1>1, Zenon

\* Send(r) adds the next result of its run, which nobody has seen before.
LEMMA FlowSend ==
  ASSUME TypeInv, FlowInv, NEW r \in Runs, Send(r)
  PROVE  FlowInv'
<1> DEFINE new == <<r, sent[r] + 1>>
<1>1. /\ chan \in Seq(Step) /\ sent \in [Runs -> Nat]
      /\ chan' = Append(chan, new) /\ sent' = [sent EXCEPT ![r] = @ + 1]
      /\ UNCHANGED <<mpc, inhand, delivered, failed>>
  BY DEF TypeInv, TypeOK, Send, mainVars
<1>2. /\ InHand' = InHand /\ Reported' = Reported
  BY <1>1 DEF InHand, Reported
<1>3. Sent' = Sent \cup {new}
  <2>1. \A q \in Runs, k \in Nat : <<q, k>> \in Sent <=> k \in 1..sent[q]
    BY SentMember DEF Sent
  <2>2. \A q \in Runs, k \in Nat : <<q, k>> \in Sent' <=> k \in 1..sent'[q]
    BY SentMember DEF Sent
  <2>3. /\ \A e \in Sent  : \E q \in Runs, k \in Nat : e = <<q, k>>
        /\ \A e \in Sent' : \E q \in Runs, k \in Nat : e = <<q, k>>
    BY DEF Sent
  <2>4. ASSUME NEW q \in Runs, NEW k \in Nat
        PROVE  k \in 1..sent'[q] <=> k \in 1..sent[q] \/ <<q, k>> = new
    BY <1>1
  <2>5. ASSUME NEW e \in Sent' PROVE e \in Sent \cup {new}
    BY <2>1, <2>2, <2>3, <2>4
  <2>6. ASSUME NEW e \in Sent PROVE e \in Sent'
    BY <2>1, <2>2, <2>3, <2>4
  <2>7. new \in Sent'
    <3>1. sent[r] + 1 \in Nat
      BY <1>1
    <3>. QED
      BY <2>2, <2>4, <3>1
  <2>. QED
    BY <2>5, <2>6, <2>7
<1>4. new \notin Sent
  BY <1>1 DEF Sent
<1>5. \A k \in 1..sent[r] : <<r, k>> \in Sent
  BY DEF Sent
<1>6. /\ Len(chan') = Len(chan) + 1 /\ chan'[Len(chan) + 1] = new
      /\ \A n \in 1..Len(chan) : n \in 1..Len(chan') /\ chan'[n] = chan[n]
      /\ \A n \in 1..Len(chan') : n \in 1..Len(chan) \/ n = Len(chan) + 1
      /\ Len(chan) \in Nat /\ Len(chan) + 1 \in 1..Len(chan')
  BY <1>1 DEF Step
<1>7. Before(new) \subseteq Sent
  BY <1>1, <1>5 DEF Before
<1> HIDE DEF new
<1>8. Queued' = Queued \cup {new}
  <2>1. \A e : e \in Queued' <=> \E n \in 1..Len(chan') : e = chan'[n]
    BY DEF Queued
  <2>2. \A e : e \in Queued <=> \E n \in 1..Len(chan) : e = chan[n]
    BY DEF Queued
  <2>3. \A e : e \in Queued' <=> e \in Queued \/ e = new
    BY <1>6, <2>1, <2>2
  <2>. QED
    BY <2>3
<1>9. \A n \in 1..Len(chan) : chan[n] # new
  BY <1>4, Zenon DEF FlowInv, PlaceOK, Queued
<1>10. HandOK'
  BY <1>1 DEF FlowInv, HandOK
<1>11. PlaceOK'
  <2>1. (Queued \cup InHand \cup Reported)' = Sent'
    BY <1>2, <1>3, <1>8 DEF FlowInv, PlaceOK
  <2>2. \A m, n \in 1..Len(chan') : chan'[m] = chan'[n] => m = n
    BY <1>6, <1>9 DEF FlowInv, PlaceOK
  <2>3. new \notin InHand \cup Reported
    BY <1>4 DEF FlowInv, PlaceOK
  <2>4. Queued' \cap InHand' = {} /\ (Queued' \cup InHand') \cap Reported' = {}
    BY <1>2, <1>8, <2>3 DEF FlowInv, PlaceOK
  <2>5. delivered' \cap failed' = {}
    BY <1>1 DEF FlowInv, PlaceOK
  <2>. QED
    BY <2>1, <2>2, <2>4, <2>5 DEF PlaceOK
<1>12. AheadOK'
  <2>1. ASSUME NEW n \in 1..Len(chan) PROVE Ahead(n)' = Ahead(n)
    <3>1. \A m \in 1..(n - 1) : chan'[m] = chan[m]
      BY <1>6
    <3>. QED
      BY <3>1 DEF Ahead
  <2>2. ASSUME NEW n \in 1..Len(chan'), n = Len(chan) + 1 PROVE Ahead(n)' = Queued
    <3>1. 1..(n - 1) = 1..Len(chan)
      BY <1>6, <2>2
    <3>2. \A m \in 1..Len(chan) : chan'[m] = chan[m]
      BY <1>6
    <3>. QED
      BY <3>1, <3>2 DEF Ahead, Queued
  <2>3. ASSUME NEW n \in 1..Len(chan')
        PROVE  Before(chan'[n]) \subseteq Reported' \cup InHand' \cup Ahead(n)'
    <3>1. CASE n \in 1..Len(chan)
      BY <1>2, <1>6, <2>1, <3>1 DEF FlowInv, AheadOK
    <3>2. CASE n = Len(chan) + 1
      BY <1>2, <1>6, <1>7, <2>2, <3>2 DEF FlowInv, PlaceOK
    <3>. QED
      BY <1>6, <3>1, <3>2, Zenon
  <2>. QED
    BY <1>2, <2>3 DEF FlowInv, AheadOK
<1>. QED
  BY <1>10, <1>11, <1>12 DEF FlowInv

\* Main takes the first result of the channel.
LEMMA FlowTake ==
  ASSUME TypeInv, FlowInv, TakeResult \/ DrainTake
  PROVE  FlowInv'
<1>1. /\ chan \in Seq(Step) /\ chan # <<>> /\ inhand = None
      /\ inhand' = Head(chan) /\ chan' = Tail(chan) /\ mpc' \in {"send", "flush"}
      /\ UNCHANGED <<delivered, failed, sent>>
  BY DEF TypeInv, TypeOK, FlowInv, HandOK, TakeResult, DrainTake, runVars
<1>2. /\ Len(chan') = Len(chan) - 1 /\ Len(chan) \in Nat
      /\ \A n \in 1..Len(chan') : n + 1 \in 1..Len(chan) /\ chan'[n] = chan[n + 1]
      /\ 1 \in 1..Len(chan) /\ inhand' = chan[1] /\ chan[1] \in Step
  BY <1>1, TailFacts
<1>3. chan[1] # None
  BY <1>2, ConstantsOK, Zenon DEF ConstantsOK, Step
<1>4. /\ InHand = {} /\ InHand' = {chan[1]} /\ Reported' = Reported /\ Sent' = Sent
  BY <1>1, <1>2, <1>3 DEF InHand, Reported, Sent
<1>5. \A n \in 1..Len(chan) : n = 1 \/ (n - 1 \in 1..Len(chan') /\ chan[n] = chan'[n - 1])
  BY <1>2
<1>6. Queued = {chan[1]} \cup Queued' /\ chan[1] \notin Queued'
  <2>1. \A e : e \in Queued' <=> \E n \in 1..Len(chan') : e = chan'[n]
    BY DEF Queued
  <2>2. \A e : e \in Queued <=> \E n \in 1..Len(chan) : e = chan[n]
    BY DEF Queued
  <2>3. \A e : e \in Queued <=> e \in Queued' \/ e = chan[1]
    BY <1>2, <1>5, <2>1, <2>2
  <2>4. \A n \in 1..Len(chan') : chan'[n] # chan[1]
    <3> SUFFICES ASSUME NEW n \in 1..Len(chan'), chan'[n] = chan[1] PROVE FALSE
      OBVIOUS
    <3>1. n + 1 = 1
      BY <1>2 DEF FlowInv, PlaceOK
    <3>. QED
      BY <3>1
  <2>. QED
    BY <2>1, <2>3, <2>4
<1>7. HandOK'
  BY <1>1 DEF HandOK
<1>8. PlaceOK'
  <2>1. \A m, n \in 1..Len(chan') : chan'[m] = chan'[n] => m = n
    <3> SUFFICES ASSUME NEW m \in 1..Len(chan'), NEW n \in 1..Len(chan'), chan'[m] = chan'[n]
                 PROVE  m = n
      OBVIOUS
    <3>1. m + 1 = n + 1
      BY <1>2 DEF FlowInv, PlaceOK
    <3>. QED
      BY <3>1
  <2>2. delivered' \cap failed' = {}
    BY <1>1 DEF FlowInv, PlaceOK
  <2>3. (Queued \cup InHand \cup Reported)' = Sent'
    BY <1>4, <1>6 DEF FlowInv, PlaceOK
  <2>4. Queued' \cap InHand' = {} /\ (Queued' \cup InHand') \cap Reported' = {}
    BY <1>4, <1>6 DEF FlowInv, PlaceOK
  <2>. QED
    BY <2>1, <2>2, <2>3, <2>4 DEF PlaceOK
<1>9. AheadOK'
  <2>1. Ahead(1) = {}
    BY DEF Ahead
  <2>2. Before(chan[1]) \subseteq Reported
    BY <1>2, <1>4, <2>1 DEF FlowInv, AheadOK
  <2>3. ASSUME NEW n \in 1..Len(chan') PROVE Ahead(n + 1) = {chan[1]} \cup Ahead(n)'
    <3>1. \A m \in 1..((n + 1) - 1) : m = 1 \/ (m - 1 \in 1..(n - 1) /\ chan[m] = chan'[m - 1])
      BY <1>2, <1>5
    <3>2. \A m \in 1..(n - 1) : m + 1 \in 1..((n + 1) - 1) /\ chan'[m] = chan[m + 1]
      BY <1>2
    <3>3. 1 \in 1..((n + 1) - 1)
      OBVIOUS
    <3>4. ASSUME NEW m \in 1..((n + 1) - 1) PROVE chan[m] \in {chan[1]} \cup Ahead(n)'
      BY <3>1 DEF Ahead
    <3>5. ASSUME NEW m \in 1..(n - 1) PROVE chan'[m] \in Ahead(n + 1)
      BY <3>2, Zenon DEF Ahead
    <3>6. chan[1] \in Ahead(n + 1)
      BY <3>3 DEF Ahead
    <3>. QED
      BY <3>4, <3>5, <3>6 DEF Ahead
  <2>4. ASSUME NEW n \in 1..Len(chan')
        PROVE  Before(chan'[n]) \subseteq Reported' \cup InHand' \cup Ahead(n)'
    <3>1. Before(chan[n + 1]) \subseteq Reported \cup InHand \cup Ahead(n + 1)
      BY <1>2 DEF FlowInv, AheadOK
    <3>. QED
      BY <1>2, <1>4, <2>3, <3>1
  <2>. QED
    BY <1>4, <2>2, <2>4 DEF FlowInv, AheadOK
<1>. QED
  BY <1>7, <1>8, <1>9 DEF FlowInv

\* Main has reported its result, with or without success.
LEMMA FlowReport ==
  ASSUME TypeInv, FlowInv, SendResult
  PROVE  FlowInv'
<1>1. /\ inhand \in Step /\ inhand' = None /\ UNCHANGED <<chan, sent>>
      /\ \/ delivered' = delivered \cup {inhand} /\ failed' = failed
         \/ failed' = failed \cup {inhand} /\ delivered' = delivered
  BY DEF TypeInv, MainOK, SendResult, runVars
<1>2. inhand # None
  BY <1>1, ConstantsOK DEF ConstantsOK, Step
<1>3. /\ InHand = {inhand} /\ InHand' = {} /\ Reported' = Reported \cup {inhand}
      /\ Sent' = Sent /\ Queued' = Queued
  <2>1. InHand = {inhand} /\ InHand' = {}
    BY <1>1, <1>2 DEF InHand
  <2>2. Reported' = Reported \cup {inhand}
    BY <1>1 DEF Reported
  <2>3. Sent' = Sent /\ Queued' = Queued
    BY <1>1 DEF Sent, Queued
  <2>. QED
    BY <2>1, <2>2, <2>3
<1>4. HandOK'
  BY <1>1 DEF HandOK
<1>5. PlaceOK'
  <2>1. inhand \notin Queued /\ inhand \notin delivered /\ inhand \notin failed
    BY <1>3 DEF FlowInv, PlaceOK, Reported
  <2>2. delivered' \cap failed' = {}
    BY <1>1, <2>1 DEF FlowInv, PlaceOK
  <2>3. (Queued \cup InHand \cup Reported)' = Sent' /\ (Queued' \cup InHand') \cap Reported' = {}
    BY <1>3, <2>1 DEF FlowInv, PlaceOK
  <2>. QED
    BY <1>1, <1>3, <2>2, <2>3 DEF FlowInv, PlaceOK
<1>6. AheadOK'
  <2>1. \A n : Ahead(n)' = Ahead(n)
    BY <1>1 DEF Ahead
  <2>2. \A n \in 1..Len(chan) :
          Before(chan[n]) \subseteq Reported' \cup InHand' \cup Ahead(n)
    BY <1>3 DEF FlowInv, AheadOK
  <2>3. \A e \in InHand' \cup Reported' : Before(e) \subseteq Reported'
    BY <1>3 DEF FlowInv, AheadOK
  <2>. QED
    BY <1>1, <2>1, <2>2, <2>3 DEF AheadOK
<1>. QED
  BY <1>4, <1>5, <1>6 DEF FlowInv

\* No other step touches a result.
LEMMA FlowNext == TypeInv /\ FlowInv /\ [Next]_vars => FlowInv'
<1> SUFFICES ASSUME TypeInv, FlowInv, [Next]_vars PROVE FlowInv'
  OBVIOUS
<1>1. CASE \E r \in Runs : Send(r)
  BY <1>1, FlowSend
<1>2. CASE TakeResult \/ DrainTake
  BY <1>2, FlowTake
<1>3. CASE SendResult
  BY <1>3, FlowReport
<1>4. CASE /\ UNCHANGED <<chan, sent, inhand, delivered, failed>>
           /\ mpc' \in {"send", "flush"} => mpc' = mpc
           /\ mpc \in {"send", "flush"} => mpc' = mpc
  <2>1. /\ Queued' = Queued /\ InHand' = InHand /\ Reported' = Reported /\ Sent' = Sent
        /\ \A n : Ahead(n)' = Ahead(n)
    BY <1>4 DEF Queued, InHand, Reported, Sent, Ahead
  <2>2. HandOK'
    BY <1>4 DEF FlowInv, HandOK
  <2>3. PlaceOK'
    BY <1>4, <2>1 DEF FlowInv, PlaceOK
  <2>4. AheadOK'
    BY <1>4, <2>1 DEF FlowInv, AheadOK
  <2>. QED
    BY <2>2, <2>3, <2>4 DEF FlowInv
<1>5. ASSUME NEW r \in Runs, NEW i \in Ids, NEW k \in Kinds, Submit(r, i, k)
      PROVE  FlowInv'
  <2>1. sent' = sent
    BY <1>5 DEF TypeInv, TypeOK, Submit
  <2>. QED
    BY <1>4, <1>5, <2>1 DEF Submit
<1>6. ASSUME NEW r \in Runs, RunStep(r), ~Send(r) PROVE FlowInv'
  BY <1>4, <1>6, Zenon
  DEF RunStep, mainVars, runVars, Acquire, Finish, Journal, Audit, Remove, Count, Release
<1>7. CASE UNCHANGED vars
  BY <1>4, <1>7 DEF vars, mainVars, runVars
<1>8. CASE Signal \/ Exited \/ (\E i \in Ids : HandleCancel(i)) \/ (\E r \in Runs : Tick(r))
  BY <1>4, <1>8, Zenon DEF Signal, Exited, HandleCancel, NextItem, Tick, mainVars, runVars, vars
<1>9. CASE \/ RecvTasks \/ ExitLoop \/ DrainEnd \/ ProcessExit
           \/ (\E r \in Runs : Spawn(r))
  BY <1>4, <1>9, Zenon DEF RecvTasks, ExitLoop, DrainEnd, ProcessExit, Spawn, NextItem, mainVars, runVars
<1>. QED
  BY <1>1, <1>2, <1>3, <1>5, <1>6, <1>7, <1>8, <1>9 DEF Next, MainStep

LEMMA FlowInvariance == Spec => []FlowInv
<1>1. Init => FlowInv
  <2> SUFFICES ASSUME Init PROVE FlowInv
    OBVIOUS
  <2>1. /\ chan = <<>> /\ inhand = None /\ delivered = {} /\ failed = {}
        /\ sent = [r \in Runs |-> 0]
    BY DEF Init
  <2>2. Queued = {} /\ InHand = {} /\ Reported = {} /\ Sent = {}
    BY <2>1 DEF Queued, InHand, Reported, Sent
  <2>. QED
    BY <2>1, <2>2 DEF FlowInv, HandOK, PlaceOK, AheadOK
<1>. QED
  BY <1>1, FlowNext, TypeInvariance, PTL DEF Spec

\* Every result a run has sent is in exactly one place - the channel, main's
\* hands, delivered, failed - so run reports none twice and invents none.
THEOREM Once == Spec => []SentOnce
<1>1. TypeInv /\ FlowInv => SentOnce
  <2> SUFFICES ASSUME TypeInv, FlowInv PROVE SentOnce
    OBVIOUS
  <2>1. chan \in Seq(Step) /\ Len(chan) \in Nat
    BY DEF TypeInv, TypeOK
  <2> DEFINE f == [n \in 1..Len(chan) |-> chan[n]]
  <2>2. f \in Bijection(1..Len(chan), Queued)
    BY Zenon DEF FlowInv, PlaceOK, Queued, Bijection, Injection, IsInjective, Surjection
  <2>3. ExistsBijection(1..Len(chan), Queued)
    BY <2>2 DEF ExistsBijection
  <2>4. Cardinality(Queued) = Len(chan)
    BY <2>1, <2>3, FS_CountingElements
  <2>. QED
    BY <2>4 DEF FlowInv, PlaceOK, SentOnce
<1>. QED
  BY <1>1, FlowInvariance, TypeInvariance, PTL

\* The results of a chain are reported in step order, for any number of steps.
THEOREM Ordered == Spec => []StepOrder
<1>1. FlowInv => StepOrder
  BY DEF FlowInv, AheadOK, Before, StepOrder
<1>. QED
  BY <1>1, FlowInvariance, PTL

============================================================================
