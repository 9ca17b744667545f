--------------------------- MODULE ContinuousExec ---------------------------
(***************************************************************************)
(* continuous::run (task/continuous.rs): a loop of sleeping, resolving     *)
(* credentials and one call of the executor per tick, each tick's result   *)
(* journaled.  The ticks here are calls of ShellExec; the child token of a *)
(* tick is cancelled with the task's.                                      *)
(***************************************************************************)
EXTENDS ShellExec

CONSTANTS
  MaxTicks,     \* bound: ticks begun
  StoreMayFail  \* may record_task_result fail?

ASSUME ContinuousOK == MaxTicks \in Nat /\ StoreMayFail \in BOOLEAN

VARIABLES
  tpc,       \* where run is
  zero,      \* interval_ms is 0
  shutdown,  \* the agent's shutdown token
  last,      \* last_result
  rows,      \* tick rows of the journal
  lost,      \* a tick row could not be written
  ticks,     \* ticks begun
  late,      \* ticks begun after the cancel request
  stopped    \* what ended the loop

tickVars == <<tpc, zero, last, rows, lost, ticks, late, stopped>>
vars == <<shellVars, tickVars, shutdown>>

TickPC == {"enter", "sleep", "creds", "tick", "done"}

Init ==
  /\ ShellInit
  /\ tpc = "enter"
  /\ zero \in BOOLEAN
  /\ shutdown = FALSE
  /\ last = "Success"
  /\ rows = <<>>
  /\ lost = FALSE
  /\ ticks = 0
  /\ late = 0
  /\ stopped = "no"

\* main cancels the shutdown token.
Shutdown ==
  /\ ~shutdown
  /\ shutdown' = TRUE
  /\ UNCHANGED <<shellVars, tickVars>>

\* The select finds no branch ready and waits.
Wait ==
  /\ tpc = "enter" /\ ~cancelled /\ ~shutdown
  /\ tpc' = "sleep"
  /\ UNCHANGED <<shellVars, zero, last, rows, lost, ticks, late, stopped, shutdown>>

\* Mutant: the loop waits for nothing but the clock and the agent's shutdown.
SelectCancelDeaf ==
  /\ tpc \in {"enter", "sleep"} /\ cancelled /\ shutdown
  /\ tpc' = "done" /\ stopped' = "cancel"
  /\ last' = "Cancelled"
  /\ UNCHANGED <<shellVars, zero, rows, lost, ticks, late, shutdown>>

\* First branch: a fresh result takes the place of last_result.
SelectCancel ==
  /\ tpc \in {"enter", "sleep"} /\ cancelled
  /\ tpc' = "done" /\ stopped' = "cancel"
  /\ last' = "Cancelled"
  /\ UNCHANGED <<shellVars, zero, rows, lost, ticks, late, shutdown>>

\* Second branch: the result is the last tick's.
SelectShutdown ==
  /\ tpc \in {"enter", "sleep"} /\ shutdown
  /\ tpc' = "done" /\ stopped' = "shutdown"
  /\ UNCHANGED <<shellVars, zero, last, rows, lost, ticks, late, shutdown>>

\* Mutant: the interval is slept before the select looks at the tokens.
SelectSleepDeaf ==
  /\ tpc \in {"enter", "sleep"} /\ ticks < MaxTicks
  /\ ticks' = ticks + 1
  /\ late' = IF cancelled THEN late + 1 ELSE late
  /\ tpc' = "creds"
  /\ UNCHANGED <<shellVars, zero, last, rows, lost, stopped, shutdown>>

\* Third branch.  The select is not biased, so it may be taken when a token was
\* cancelled while it slept; an interval of 0 makes it ready at once.
SelectSleep ==
  /\ tpc = "sleep" \/ (tpc = "enter" /\ zero)
  /\ ticks < MaxTicks
  /\ ticks' = ticks + 1
  /\ late' = IF cancelled THEN late + 1 ELSE late
  /\ tpc' = "creds"
  /\ UNCHANGED <<shellVars, zero, last, rows, lost, stopped, shutdown>>

\* Mutant: the row is written, and last_result is not updated.
RecordTickKeepsLast(s) ==
  /\ rows' = Append(rows, s)
  /\ UNCHANGED <<last, lost>>

\* last_result is the tick's result; a failing INSERT is only logged.
RecordTick(s) ==
  /\ last' = s
  /\ \/ rows' = Append(rows, s) /\ lost' = lost
     \/ StoreMayFail /\ rows' = rows /\ lost' = TRUE

TickCredsFail ==
  /\ tpc = "creds"
  /\ RecordTick("Failed")
  /\ tpc' = "enter"
  /\ UNCHANGED <<shellVars, zero, ticks, late, stopped, shutdown>>

\* execute_tick: a new call of the executor, with new pipes.
TickBegins ==
  /\ tpc = "creds"
  /\ tpc' = "tick"
  /\ spc' = "start" /\ child' = "none" /\ exitOk' = FALSE
  /\ descendant' = FALSE /\ expired' = FALSE
  /\ UNCHANGED <<cancelled, status, zero, last, rows, lost, ticks, late, stopped, shutdown>>

TickEnds ==
  /\ tpc = "tick" /\ spc = "done"
  /\ RecordTick(status)
  /\ tpc' = "enter"
  /\ UNCHANGED <<shellVars, zero, ticks, late, stopped, shutdown>>

Tick == tpc = "tick" /\ ShellExecute /\ UNCHANGED <<tickVars, shutdown>>

Run ==
  \/ Wait \/ SelectCancel \/ SelectShutdown \/ SelectSleep
  \/ TickCredsFail \/ TickBegins \/ TickEnds \/ Tick

World ==
  /\ \/ Processes
     \/ tpc = "tick" /\ TimePasses
     \/ tpc # "done" /\ Cancel
  /\ UNCHANGED <<tickVars, shutdown>>

Returned == tpc = "done" /\ UNCHANGED vars

Next == Run \/ World \/ Shutdown \/ Returned

Spec == Init /\ [][Next]_vars

\* The loop runs, credentials are resolved or refused (resolve_sidecar's call has
\* no timeout), killed shells die, descendants end, and a select whose cancel branch
\* stays ready picks it in the end (its branches are polled in random order).
\* Ticks that hang in child.wait() end by their timeout.
FairSpec ==
  /\ Spec
  /\ WF_vars(Run)
  /\ SF_vars(SelectCancel)
  /\ WF_vars(tpc = "tick" /\ TimePasses /\ UNCHANGED <<tickVars, shutdown>>)
  /\ WF_vars(spc = "kill" /\ ChildExits /\ UNCHANGED <<tickVars, shutdown>>)
  /\ WF_vars(child # "running" /\ DescendantEnds /\ UNCHANGED <<tickVars, shutdown>>)

----------------------------------------------------------------------------
(* Properties.                                                             *)

\* Type invariant: run leaves at most one row per tick.
TypeOK ==
  /\ ShellTypeOK
  /\ tpc \in TickPC
  /\ zero \in BOOLEAN /\ shutdown \in BOOLEAN /\ lost \in BOOLEAN
  /\ last \in ExecStatus
  /\ rows \in Seq(ExecStatus) /\ Len(rows) <= MaxTicks
  /\ ticks \in 0..MaxTicks /\ late \in 0..MaxTicks
  /\ stopped \in {"no", "cancel", "shutdown"}

\* A continuous task reports after a shutdown what its last tick journaled, and
\* every tick it ran left its row (unless the store failed).
ReportsLastTick ==
  ~lost /\ tpc = "done" =>
    /\ Len(rows) = ticks
    /\ stopped = "shutdown" /\ ticks > 0 => last = rows[Len(rows)]

\* With a positive interval at most one more tick begins after the cancel
\* request: the one whose sleep ended together with it.
OneLateTick == ~zero => late <= 1

\* Outside a tick no shell runs and no zombie is left: each way out of execute
\* waits for the child, so the task's permit covers at most one shell.
NoTickLeft == tpc # "tick" => child \in {"none", "reaped"}

\* Each tick's status says what happened (HonestStatus of the call), also for a
\* tick started with a token that is already cancelled.
HonestTicks == tpc = "tick" => HonestStatus

\* A cancelled continuous task ends, whatever its scripts do, as long as
\* nothing keeps their pipes open for ever and resolve_eager returns.
CancelledEnds == cancelled ~> tpc = "done"

============================================================================
