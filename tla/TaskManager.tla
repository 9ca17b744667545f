---------------------------- MODULE TaskManager ----------------------------
(***************************************************************************)
(* The task lifecycle of the agent: the main select loop of                *)
(* vasal-core/src/main.rs (run) and TaskManager of task/mod.rs.            *)
(*                                                                         *)
(* Run n is the tokio task spawned for the n-th submitted work item.  Its  *)
(* program counter follows the async block of spawn_exec, spawn_routed or  *)
(* submit_chain from one await point to the next:                          *)
(*                                                                         *)
(*   new -> inserted -> spawned -> [waiting ->] running -> journal         *)
(*       -> [audit ->] send -> remove -> count -> [release ->] done        *)
(*                                                                         *)
(* Sections under the active_tasks mutex contain no await, so each is one  *)
(* action and the mutex itself needs no variable.  How an executor arrives *)
(* at its status is the business of ShellExec, SidecarExec, ContinuousExec *)
(* and ChainExec; here it is any status that kind of work can return.      *)
(***************************************************************************)
EXTENDS TaskResults, FiniteSets

CONSTANTS
  MaxRuns,        \* bound: work items submitted that spawn a run
  Ids,            \* task and chain UUIDs chosen by the control plane
  Kinds,          \* the kinds of work the control plane submits
  Outcomes,       \* the statuses an executor may return
  ChainLen,       \* number of steps of a chain
  MaxConcurrent,  \* RuntimeConfig.max_concurrent
  ChanCap,        \* capacity of the result channel (256 in main.rs)
  MaxBatch,       \* bound: work items in one answer of recv_tasks
  MaxContinuous,  \* bound: continuous tasks the control plane submits
  StoreMayFail,   \* may an INSERT into the journal or the audit log fail?
  None

Runs == 1..MaxRuns

TaskKinds == {"shell", "sidecar", "continuous", "routed", "chain"}

ASSUME ConstantsOK ==
  /\ MaxRuns \in Nat
  /\ IsFiniteSet(Ids)
  /\ Kinds \subseteq TaskKinds
  /\ Outcomes \subseteq ExecStatus
  /\ ChainLen \in Nat
  /\ MaxConcurrent \in Nat
  /\ ChanCap \in Nat \ {0}
  /\ MaxBatch \in Nat \ {0}
  /\ MaxContinuous \in Nat
  /\ StoreMayFail \in BOOLEAN
  /\ None \notin Runs
  /\ None \notin Ids
  /\ None \notin Runs \X Nat

VARIABLES
  pc,         \* where each run is
  kind, id,   \* the work item a run executes
  active,     \* active_tasks: the run whose token and tag an id maps to
  cancelled,  \* runs whose CancellationToken is cancelled
  out,        \* statuses of the results a run produced, in step order
  sent,       \* how many of them it has put into the channel
  permits,    \* free permits of the semaphore
  waiters,    \* FIFO queue of the semaphore
  counts,     \* last ActiveTaskCounts sent on the watch channel
  journal,    \* task_journal: <<run, step>>; step 0 stands for tick rows
  audit,      \* audit_log: <<event, run>>; chain.* rows are in ChainExec
  chan,       \* the result channel: <<run, step>>
  mpc,        \* where the main loop is
  batch,      \* work items of the current recv_tasks answer left to submit
  inhand,     \* the result main is sending
  delivered,  \* results transport.send_result returned Ok for
  failed,     \* results it returned Err for (logged, then dropped)
  shutdown    \* the shutdown token is cancelled

runVars  == <<kind, id, out, sent>>
semVars  == <<permits, waiters>>
mainVars == <<mpc, batch, inhand, delivered, failed>>
vars == <<pc, runVars, active, cancelled, semVars, counts, journal, audit,
          chan, mainVars, shutdown>>

RunPC == {"new", "inserted", "spawned", "waiting", "running", "journal",
          "audit", "send", "remove", "count", "release", "done"}

MainPC == {"loop", "submit", "spawn", "send", "drain", "flush", "join", "exited"}

----------------------------------------------------------------------------
(* Helpers.                                                                *)

\* Every kind but the routed ones acquires a permit of the semaphore.
Gated(k) == k # "routed"

\* Only spawn_exec records a terminal event after journaling.
Audited(k) == k \in {"shell", "sidecar", "continuous"}

TaskKindTag(k) == IF k = "continuous" THEN "Continuous" ELSE "Oneshot"

Entries(tag) == {i \in Ids : active[i] # None /\ TaskKindTag(kind[active[i]]) = tag}

\* What update_counts_static computes and sends under the guard.
ActiveTaskCounts ==
  [oneshot    |-> Cardinality(Entries("Oneshot")),
   continuous |-> Cardinality(Entries("Continuous")),
   total      |-> Cardinality(Entries("Oneshot")) + Cardinality(Entries("Continuous"))]

\* The terminal event spawn_exec records for a status.
TerminalEvent ==
  [Success    |-> "task.completed",
   Failed     |-> "task.failed",
   Cancelled  |-> "task.cancelled",
   Timeout    |-> "task.timeout",
   RolledBack |-> "task.failed"]

TerminalEvents == {TerminalEvent[s] : s \in TaskResultStatus}

AuditEvents == {"agent.started", "agent.shutdown", "task.received"} \cup TerminalEvents

\* What chain::execute may return (ChainExec).
ChainOutcomes(r) ==
  {o \in UNION {[1..n -> Outcomes] : n \in 0..ChainLen} :
     IsChainResult(o, ChainLen, r \in cancelled)}

\* What the executor of a single task may return now.
ExecStatuses(r) ==
  {s \in Outcomes \cup {"Cancelled"} :
     \/ kind[r] \in {"shell", "sidecar"} /\ s \in Outcomes
     \/ kind[r] = "routed" /\ s \in Outcomes \cap {"Success", "Failed"}
     \/ kind[r] = "continuous" /\ r \in cancelled /\ s = "Cancelled"
     \/ kind[r] = "continuous" /\ shutdown /\ s \in Outcomes}

\* The results of run r, as a sequence of statuses.
ExecOutcomes(r) ==
  IF kind[r] = "chain" THEN ChainOutcomes(r) ELSE {<<s>> : s \in ExecStatuses(r)}

\* A run still has its place in active_tasks as far as its own code goes.
Registered == {r \in Runs : pc[r] \notin {"new", "count", "release", "done"}}

\* Runs that hold a permit of the semaphore.
Holders == {r \in Runs : Gated(kind[r]) /\
              pc[r] \in {"running", "journal", "audit", "send", "remove", "count", "release"}}

Alive == mpc # "exited"

\* audit::record; an error of the store is only logged.
RecordEvent(e) ==
  \/ audit' = audit \cup {e}
  \/ StoreMayFail /\ UNCHANGED audit

Init ==
  /\ pc = [r \in Runs |-> "new"]
  /\ kind = [r \in Runs |-> None]
  /\ id = [r \in Runs |-> None]
  /\ active = [i \in Ids |-> None]
  /\ cancelled = {}
  /\ out = [r \in Runs |-> <<>>]
  /\ sent = [r \in Runs |-> 0]
  /\ permits = MaxConcurrent
  /\ waiters = <<>>
  /\ counts = [oneshot |-> 0, continuous |-> 0, total |-> 0]
  /\ journal = {}
  /\ audit = {<<"agent.started", None>>}
  /\ chan = <<>>
  /\ mpc = "loop"
  /\ batch = 0
  /\ inhand = None
  /\ delivered = {}
  /\ failed = {}
  /\ shutdown = FALSE

----------------------------------------------------------------------------
(* The main loop.                                                          *)

NextItem == /\ batch' = batch - 1
            /\ mpc' = IF batch = 1 THEN "loop" ELSE "submit"

\* transport.recv_tasks() wins the biased select only when neither the
\* shutdown token nor a result is ready.  Empty answers and errors change
\* nothing.
RecvTasks ==
  /\ mpc = "loop" /\ ~shutdown /\ chan = <<>>
  /\ batch' \in 1..MaxBatch
  /\ mpc' = "submit"
  /\ UNCHANGED <<pc, runVars, active, cancelled, semVars, counts, journal, audit,
                 chan, inhand, delivered, failed, shutdown>>

\* The control plane may pick kind k for its next work item, and any id, also
\* one it has used before.
MaySubmit(k) ==
  k = "continuous" => Cardinality({q \in Runs : kind[q] = "continuous"}) < MaxContinuous

\* submit / submit_chain up to the end of the block that inserts into
\* active_tasks: an entry of the same id is overwritten.
Submit(r, i, k) ==
  /\ mpc = "submit" /\ MaySubmit(k)
  /\ pc[r] = "new" /\ (r > 1 => pc[r - 1] # "new")
  /\ RecordEvent(<<"task.received", r>>)
  /\ active' = [active EXCEPT ![i] = r]
  /\ kind' = [kind EXCEPT ![r] = k]
  /\ id' = [id EXCEPT ![r] = i]
  /\ pc' = [pc EXCEPT ![r] = "inserted"]
  /\ mpc' = "spawn"
  /\ UNCHANGED <<out, sent, cancelled, semVars, counts, journal, chan,
                 batch, inhand, delivered, failed, shutdown>>

\* update_counts and tokio::spawn; a routed task runs without a permit.
Spawn(r) ==
  /\ mpc = "spawn" /\ pc[r] = "inserted"
  /\ counts' = ActiveTaskCounts
  /\ pc' = [pc EXCEPT ![r] = IF Gated(kind[r]) THEN "spawned" ELSE "running"]
  /\ NextItem
  /\ UNCHANGED <<runVars, active, cancelled, semVars, journal, audit, chan,
                 inhand, delivered, failed, shutdown>>

\* Mutant: handle_cancel removes the entry it cancels.
HandleCancelRemoves(i) ==
  /\ mpc = "submit"
  /\ RecordEvent(<<"task.received", None>>)
  /\ cancelled' = cancelled \cup ({active[i]} \ {None})
  /\ active' = [active EXCEPT ![i] = None]
  /\ NextItem
  /\ UNCHANGED <<pc, runVars, semVars, counts, journal, chan,
                 inhand, delivered, failed, shutdown>>

\* A cancel request reaches the token of the run the id maps to, if any.
HandleCancel(i) ==
  /\ mpc = "submit"
  /\ RecordEvent(<<"task.received", None>>)
  /\ cancelled' = cancelled \cup ({active[i]} \ {None})
  /\ NextItem
  /\ UNCHANGED <<pc, runVars, active, semVars, counts, journal, chan,
                 inhand, delivered, failed, shutdown>>

TakeResult ==
  /\ mpc = "loop" /\ ~shutdown /\ chan # <<>>
  /\ inhand' = Head(chan)
  /\ chan' = Tail(chan)
  /\ mpc' = "send"
  /\ UNCHANGED <<pc, runVars, active, cancelled, semVars, counts, journal, audit,
                 batch, delivered, failed, shutdown>>

\* Mutant: a result whose report failed is queued again.
SendResultRequeues ==
  /\ mpc \in {"send", "flush"}
  /\ \/ delivered' = delivered \cup {inhand} /\ UNCHANGED <<failed, chan>>
     \/ failed' = failed \cup {inhand} /\ chan' = Append(chan, inhand) /\ UNCHANGED delivered
  /\ inhand' = None
  /\ mpc' = IF mpc = "send" THEN "loop" ELSE "drain"
  /\ UNCHANGED <<pc, runVars, active, cancelled, semVars, counts, journal, audit,
                 batch, shutdown>>

\* transport.send_result returns Ok or Err; an error is only logged.
SendResult ==
  /\ mpc \in {"send", "flush"}
  /\ \/ delivered' = delivered \cup {inhand} /\ UNCHANGED failed
     \/ failed' = failed \cup {inhand} /\ UNCHANGED delivered
  /\ inhand' = None
  /\ mpc' = IF mpc = "send" THEN "loop" ELSE "drain"
  /\ UNCHANGED <<pc, runVars, active, cancelled, semVars, counts, journal, audit,
                 chan, batch, shutdown>>

\* SIGTERM or SIGINT.
Signal ==
  /\ ~shutdown /\ Alive
  /\ shutdown' = TRUE
  /\ UNCHANGED <<pc, runVars, active, cancelled, semVars, counts, journal, audit,
                 chan, mainVars>>

ExitLoop ==
  /\ mpc = "loop" /\ shutdown
  /\ mpc' = "drain"
  /\ UNCHANGED <<pc, runVars, active, cancelled, semVars, counts, journal, audit,
                 chan, batch, inhand, delivered, failed, shutdown>>

DrainTake ==
  /\ mpc = "drain" /\ chan # <<>>
  /\ inhand' = Head(chan)
  /\ chan' = Tail(chan)
  /\ mpc' = "flush"
  /\ UNCHANGED <<pc, runVars, active, cancelled, semVars, counts, journal, audit,
                 batch, delivered, failed, shutdown>>

\* Mutant: the drain loop awaits recv() and so waits for every sender to go.
DrainEndBlocking ==
  /\ mpc = "drain" /\ chan = <<>>
  /\ \A r \in Runs : pc[r] \in {"new", "done"}
  /\ RecordEvent(<<"agent.shutdown", None>>)
  /\ mpc' = "join"
  /\ UNCHANGED <<pc, runVars, active, cancelled, semVars, counts, journal,
                 chan, batch, inhand, delivered, failed, shutdown>>

\* try_recv found the channel empty: the drain loop ends.
DrainEnd ==
  /\ mpc = "drain" /\ chan = <<>>
  /\ RecordEvent(<<"agent.shutdown", None>>)
  /\ mpc' = "join"
  /\ UNCHANGED <<pc, runVars, active, cancelled, semVars, counts, journal,
                 chan, batch, inhand, delivered, failed, shutdown>>

\* The heartbeat, the audit forwarder and the health checker are joined, run
\* returns and the runtime is dropped: runs that are not done stop where they are.
\* A health call has no timeout and does not listen to the token, so the join waits
\* for a sidecar that does not answer; see MainFairSpec.
ProcessExit ==
  /\ mpc = "join"
  /\ mpc' = "exited"
  /\ UNCHANGED <<pc, runVars, active, cancelled, semVars, counts, journal, audit,
                 chan, batch, inhand, delivered, failed, shutdown>>

----------------------------------------------------------------------------
(* The spawned runs.                                                       *)

\* First poll of semaphore.acquire(): take a free permit or queue up.
Acquire(r) ==
  /\ Alive /\ pc[r] = "spawned"
  /\ \/ /\ permits > 0
        /\ permits' = permits - 1
        /\ pc' = [pc EXCEPT ![r] = "running"]
        /\ UNCHANGED waiters
     \/ /\ permits = 0
        /\ waiters' = Append(waiters, r)
        /\ pc' = [pc EXCEPT ![r] = "waiting"]
        /\ UNCHANGED permits
  /\ UNCHANGED <<runVars, active, cancelled, counts, journal, audit, chan,
                 mainVars, shutdown>>

\* A tick of a continuous task writes a journal row of its own.
Tick(r) ==
  /\ Alive /\ pc[r] = "running" /\ kind[r] = "continuous"
  /\ journal' = journal \cup {<<r, 0>>}
  /\ UNCHANGED <<pc, runVars, active, cancelled, semVars, counts, audit, chan,
                 mainVars, shutdown>>

\* The executor returns.
Finish(r) ==
  /\ Alive /\ pc[r] = "running"
  /\ \E o \in ExecOutcomes(r) :
       /\ out' = [out EXCEPT ![r] = o]
       /\ pc' = [pc EXCEPT ![r] = IF o = <<>> THEN "remove" ELSE "journal"]
  /\ UNCHANGED <<kind, id, sent, active, cancelled, semVars, counts, journal, audit,
                 chan, mainVars, shutdown>>

\* Mutant: the spawn_blocking handle is not awaited, and the row not yet there.
JournalNotAwaited(r) ==
  /\ Alive /\ pc[r] = "journal"
  /\ pc' = [pc EXCEPT ![r] = IF Audited(kind[r]) THEN "audit" ELSE "send"]
  /\ UNCHANGED <<runVars, active, cancelled, semVars, counts, journal, audit, chan,
                 mainVars, shutdown>>

\* record_task_result in spawn_blocking; its error is discarded.
Journal(r) ==
  /\ Alive /\ pc[r] = "journal"
  /\ \/ journal' = journal \cup {<<r, sent[r] + 1>>}
     \/ StoreMayFail /\ UNCHANGED journal
  /\ pc' = [pc EXCEPT ![r] = IF Audited(kind[r]) THEN "audit" ELSE "send"]
  /\ UNCHANGED <<runVars, active, cancelled, semVars, counts, audit, chan,
                 mainVars, shutdown>>

Audit(r) ==
  /\ Alive /\ pc[r] = "audit"
  /\ RecordEvent(<<TerminalEvent[out[r][1]], r>>)
  /\ pc' = [pc EXCEPT ![r] = "send"]
  /\ UNCHANGED <<runVars, active, cancelled, semVars, counts, journal, chan,
                 mainVars, shutdown>>

\* Mutant: results are kept as a stack.
SendLifo(r) ==
  /\ Alive /\ pc[r] = "send" /\ Len(chan) < ChanCap
  /\ chan' = <<<<r, sent[r] + 1>>>> \o chan
  /\ sent' = [sent EXCEPT ![r] = @ + 1]
  /\ pc' = [pc EXCEPT ![r] = IF sent[r] + 1 < Len(out[r]) THEN "journal" ELSE "remove"]
  /\ UNCHANGED <<kind, id, out, active, cancelled, semVars, counts, journal, audit,
                 mainVars, shutdown>>

\* tx.send(result).await blocks while the channel is full, permit in hand.
Send(r) ==
  /\ Alive /\ pc[r] = "send" /\ Len(chan) < ChanCap
  /\ chan' = Append(chan, <<r, sent[r] + 1>>)
  /\ sent' = [sent EXCEPT ![r] = @ + 1]
  /\ pc' = [pc EXCEPT ![r] = IF sent[r] + 1 < Len(out[r]) THEN "journal" ELSE "remove"]
  /\ UNCHANGED <<kind, id, out, active, cancelled, semVars, counts, journal, audit,
                 mainVars, shutdown>>

\* Mutant: a cancelled run leaves its entry behind.
RemoveUnlessCancelled(r) ==
  /\ Alive /\ pc[r] = "remove"
  /\ active' = IF r \in cancelled THEN active ELSE [active EXCEPT ![id[r]] = None]
  /\ pc' = [pc EXCEPT ![r] = "count"]
  /\ UNCHANGED <<runVars, cancelled, semVars, counts, journal, audit, chan,
                 mainVars, shutdown>>

\* active.remove(&task_id), whichever run the entry belongs to.
Remove(r) ==
  /\ Alive /\ pc[r] = "remove"
  /\ active' = [active EXCEPT ![id[r]] = None]
  /\ pc' = [pc EXCEPT ![r] = "count"]
  /\ UNCHANGED <<runVars, cancelled, semVars, counts, journal, audit, chan,
                 mainVars, shutdown>>

\* Mutant: the counts are not refreshed after the removal.
CountForgotten(r) ==
  /\ Alive /\ pc[r] = "count"
  /\ pc' = [pc EXCEPT ![r] = IF Gated(kind[r]) THEN "release" ELSE "done"]
  /\ UNCHANGED <<runVars, active, cancelled, semVars, counts, journal, audit, chan,
                 mainVars, shutdown>>

Count(r) ==
  /\ Alive /\ pc[r] = "count"
  /\ counts' = ActiveTaskCounts
  /\ pc' = [pc EXCEPT ![r] = IF Gated(kind[r]) THEN "release" ELSE "done"]
  /\ UNCHANGED <<runVars, active, cancelled, semVars, journal, audit, chan,
                 mainVars, shutdown>>

\* Mutant: the permit is forgotten instead of dropped.
ReleaseForgets(r) ==
  /\ Alive /\ pc[r] = "release"
  /\ pc' = [pc EXCEPT ![r] = "done"]
  /\ UNCHANGED <<runVars, active, cancelled, semVars, counts, journal, audit, chan,
                 mainVars, shutdown>>

\* The permit is dropped: to the head of the queue, else back to the pool.
Release(r) ==
  /\ Alive /\ pc[r] = "release"
  /\ \/ /\ waiters = <<>>
        /\ permits' = permits + 1
        /\ pc' = [pc EXCEPT ![r] = "done"]
        /\ UNCHANGED waiters
     \/ /\ waiters # <<>>
        /\ pc' = [pc EXCEPT ![r] = "done", ![Head(waiters)] = "running"]
        /\ waiters' = Tail(waiters)
        /\ UNCHANGED permits
  /\ UNCHANGED <<runVars, active, cancelled, counts, journal, audit, chan,
                 mainVars, shutdown>>

----------------------------------------------------------------------------

Exited == mpc = "exited" /\ UNCHANGED vars

MainStep ==
  \/ RecvTasks
  \/ \E r \in Runs, i \in Ids, k \in Kinds : Submit(r, i, k)
  \/ \E r \in Runs : Spawn(r)
  \/ \E i \in Ids : HandleCancel(i)
  \/ TakeResult
  \/ SendResult
  \/ ExitLoop
  \/ DrainTake
  \/ DrainEnd
  \/ ProcessExit

RunStep(r) ==
  \/ Acquire(r)
  \/ Finish(r)
  \/ Journal(r)
  \/ Audit(r)
  \/ Send(r)
  \/ Remove(r)
  \/ Count(r)
  \/ Release(r)

Next ==
  \/ MainStep
  \/ \E r \in Runs : RunStep(r) \/ Tick(r)
  \/ Signal
  \/ Exited

Spec == Init /\ [][Next]_vars

\* The main task is always scheduled again and each of its awaits returns.  For
\* the reports and the join of the heartbeat and the forwarder this is the timeout
\* of the HTTP client (30 s).  For the join of the health checker it is assumed that
\* its call_raw returns; the checker calls the units in the store, and nothing in
\* the agent puts any there (Install and Upgrade tasks are answered without it).
\* Nothing is assumed of the executors.
MainFairSpec == Spec /\ WF_vars(MainStep)

\* In addition every run is scheduled and its executor returns (timeout_ms).
FairSpec == MainFairSpec /\ \A r \in Runs : WF_vars(RunStep(r))

----------------------------------------------------------------------------
(* Properties.                                                             *)

Step == Runs \X Nat

\* Type invariant; in particular the batch loop of run never counts below zero.
TypeOK ==
  /\ pc \in [Runs -> RunPC]
  /\ kind \in [Runs -> Kinds \cup {None}]
  /\ id \in [Runs -> Ids \cup {None}]
  /\ active \in [Ids -> Runs \cup {None}]
  /\ cancelled \subseteq Runs
  /\ out \in [Runs -> Seq(TaskResultStatus)]
  /\ sent \in [Runs -> Nat]
  /\ permits \in Nat
  /\ waiters \in Seq(Runs)
  /\ counts \in [oneshot : Nat, continuous : Nat, total : Nat]
  /\ journal \subseteq Step
  /\ audit \subseteq AuditEvents \X (Runs \cup {None})
  /\ chan \in Seq(Step)
  /\ mpc \in MainPC
  /\ batch \in Nat
  /\ inhand \in Step \cup {None}
  /\ delivered \subseteq Step
  /\ failed \subseteq Step
  /\ shutdown \in BOOLEAN

\* Results that left their run, wherever they are now.
Queued   == {chan[n] : n \in 1..Len(chan)}
InHand   == {inhand} \ {None}
Reported == delivered \cup failed
Sent     == UNION {{r} \X (1..sent[r]) : r \in Runs}

\* spawn_exec and submit_chain hold a permit from before the executor starts
\* until after the last bookkeeping step, so no more than max_concurrent gated
\* runs are ever between those points.
ConcurrencyBound ==
  Cardinality(Holders) <= MaxConcurrent

\* A permit is never idle while a run waits for one: a finished run hands its
\* permit on, whatever path its async block took.
NoIdlePermit ==
  Cardinality(Holders) < MaxConcurrent => waiters = <<>>

\* Permits are neither multiplied nor lost: never more holders than
\* max_concurrent, and never fewer while somebody waits.
PermitsExact == ConcurrencyBound /\ NoIdlePermit

\* Once nobody is between changing active_tasks and its update_counts call, the
\* counts the heartbeat reads are those of active_tasks: concurrent updates
\* never leave an older count behind.
CountsAccurate ==
  (\A r \in Runs : pc[r] \notin {"inserted", "count"}) => counts = ActiveTaskCounts

\* An entry of active_tasks always belongs to a run of that id that has not yet
\* removed itself, so a cancel never hits the token of a finished run - also
\* when the same id is submitted again while it runs.
EntryIsLive ==
  \A i \in Ids : active[i] # None => active[i] \in Registered /\ id[active[i]] = i

\* A run that has not finished is reachable by handle_cancel, its id maps to its
\* own token, unless the control plane has submitted that id again.
LiveIsCancellable ==
  \A r \in Registered : (\A q \in Runs \ {r} : id[q] # id[r]) => active[id[r]] = r

\* A result is in the local journal before it is in the channel, and so before
\* the control plane or a failed report can have seen it.
JournalBeforeSend ==
  Queued \cup InHand \cup Reported \subseteq journal

\* Every result a run has sent is in exactly one place - the channel, main's
\* hands, delivered, failed - and main never reports a result twice or invents
\* one, through shutdown and drain included.
SentOnce ==
  /\ Queued \cup InHand \cup Reported = Sent
  /\ Cardinality(Queued) = Len(chan)
  /\ Queued \cap InHand = {}
  /\ (Queued \cup InHand) \cap Reported = {}
  /\ delivered \cap failed = {}

\* The results of a chain are reported in step order.
StepOrder ==
  \A e \in Reported : \A k \in 1..(e[2] - 1) : <<e[1], k>> \in Reported

\* Every permit is with a continuous task that nobody has cancelled.
Starved ==
  Cardinality({r \in Holders : kind[r] = "continuous" /\ r \notin cancelled}) = MaxConcurrent

\* Every submitted task finishes and its results are all reported, unless a
\* shutdown comes first or continuous tasks, which keep their permit for life,
\* keep all permits for ever.
EveryTaskEnds ==
  []<>~Starved =>
    \A r \in Runs :
      pc[r] = "inserted" /\ kind[r] # "continuous"
        ~> shutdown \/ (pc[r] = "done" /\ \A k \in 1..Len(out[r]) : <<r, k>> \in Reported)

\* After a signal the agent exits whatever its executors do: the drain loop
\* waits for nobody.
ShutdownCompletes ==
  shutdown ~> mpc = "exited"

============================================================================
