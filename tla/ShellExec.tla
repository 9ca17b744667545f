----------------------------- MODULE ShellExec -----------------------------
(***************************************************************************)
(* One call of shell::execute (task/shell.rs) and the processes it starts: *)
(* /bin/sh, and a descendant the script may leave in the background with   *)
(* stdout and stderr inherited.                                            *)
(***************************************************************************)
EXTENDS TaskResults

VARIABLES
  spc,         \* where execute is
  child,       \* the /bin/sh process: none, running, zombie or reaped
  exitOk,      \* its exit status was 0
  descendant,  \* a background process holds the pipes open
  cancelled,   \* the task's token
  expired,     \* timeout_ms have passed since the select began
  status       \* status of the result

shellVars == <<spc, child, exitOk, descendant, cancelled, expired, status>>

ShellPC == {"start", "select", "kill", "output", "done"}

ShellInit ==
  /\ spc = "start"
  /\ child = "none"
  /\ exitOk = FALSE
  /\ descendant = FALSE
  /\ cancelled = FALSE
  /\ expired = FALSE
  /\ status = "Success"

----------------------------------------------------------------------------
(* The environment.                                                        *)

\* handle_cancel cancels the token.
Cancel ==
  /\ ~cancelled
  /\ cancelled' = TRUE
  /\ UNCHANGED <<spc, child, exitOk, descendant, expired, status>>

TimePasses ==
  /\ spc \in {"select", "output"} /\ ~expired
  /\ expired' = TRUE
  /\ UNCHANGED <<spc, child, exitOk, descendant, cancelled, status>>

Fork ==
  /\ child = "running" /\ ~descendant
  /\ descendant' = TRUE
  /\ UNCHANGED <<spc, child, exitOk, cancelled, expired, status>>

DescendantEnds ==
  /\ descendant
  /\ descendant' = FALSE
  /\ UNCHANGED <<spc, child, exitOk, cancelled, expired, status>>

\* The script ends by itself, or dies of start_kill's SIGKILL.
ChildExits ==
  /\ child = "running"
  /\ child' = "zombie"
  /\ exitOk' \in IF spc = "kill" THEN {FALSE} ELSE BOOLEAN
  /\ UNCHANGED <<spc, descendant, cancelled, expired, status>>

----------------------------------------------------------------------------
(* shell::execute.                                                         *)

\* The payload has no script, or the shell cannot be spawned.
SpawnFails ==
  /\ spc = "start"
  /\ status' = "Failed"
  /\ spc' = "done"
  /\ UNCHANGED <<child, exitOk, descendant, cancelled, expired>>

SpawnShell ==
  /\ spc = "start"
  /\ child' = "running"
  /\ expired' = FALSE
  /\ spc' = "select"
  /\ UNCHANGED <<exitOk, descendant, cancelled, status>>

\* Mutant: the child is not waited for.
KillUnwaited(s) ==
  /\ status' = s
  /\ spc' = "done"
  /\ UNCHANGED <<child, exitOk, descendant, cancelled, expired>>

\* start_kill, then child.wait().
Kill(s) ==
  /\ status' = s
  /\ spc' = "kill"
  /\ UNCHANGED <<child, exitOk, descendant, cancelled, expired>>

\* The first two branches of the select, which is not biased.
OnCancel == spc = "select" /\ cancelled /\ Kill("Cancelled")
OnTimeout == spc = "select" /\ expired /\ Kill("Timeout")

Killed ==
  /\ spc = "kill" /\ child = "zombie"
  /\ child' = "reaped"
  /\ spc' = "done"
  /\ UNCHANGED <<exitOk, descendant, cancelled, expired, status>>

\* The third branch: child.wait() returns the exit status.
OnExit ==
  /\ spc = "select" /\ child = "zombie"
  /\ child' = "reaped"
  /\ spc' = "output"
  /\ UNCHANGED <<exitOk, descendant, cancelled, expired, status>>

\* child.wait() returns an error.
WaitFails ==
  /\ spc = "select" /\ child = "zombie"
  /\ child' = "reaped"
  /\ status' = "Failed"
  /\ spc' = "done"
  /\ UNCHANGED <<exitOk, descendant, cancelled, expired>>

\* Mutant: whatever the shell's exit status was, the task succeeded.
OutputReadBlind ==
  /\ spc = "output" /\ ~descendant
  /\ status' = "Success"
  /\ spc' = "done"
  /\ UNCHANGED <<child, exitOk, descendant, cancelled, expired>>

\* Both readers see the end of their pipe: nobody holds it open any more.
\* Neither the token nor the timeout is looked at here.
OutputRead ==
  /\ spc = "output" /\ ~descendant
  /\ status' = IF exitOk THEN "Success" ELSE "Failed"
  /\ spc' = "done"
  /\ UNCHANGED <<child, exitOk, descendant, cancelled, expired>>

ShellExecute ==
  \/ SpawnFails \/ SpawnShell \/ OnCancel \/ OnTimeout \/ Killed
  \/ OnExit \/ WaitFails \/ OutputRead

Processes == Fork \/ DescendantEnds \/ ChildExits

ShellReturned == spc = "done" /\ UNCHANGED shellVars

ShellNext == ShellExecute \/ Processes \/ Cancel \/ TimePasses \/ ShellReturned

\* The executor runs, time passes and a killed shell dies; what the script
\* left in the background may run for ever.
ShellFairSpec ==
  /\ ShellInit
  /\ [][ShellNext]_shellVars
  /\ WF_shellVars(ShellExecute)
  /\ WF_shellVars(TimePasses)
  /\ WF_shellVars(spc = "kill" /\ ChildExits)

----------------------------------------------------------------------------
(* Properties.                                                             *)

\* Type invariant of one call of execute.
ShellTypeOK ==
  /\ spc \in ShellPC
  /\ child \in {"none", "running", "zombie", "reaped"}
  /\ exitOk \in BOOLEAN
  /\ descendant \in BOOLEAN
  /\ cancelled \in BOOLEAN
  /\ expired \in BOOLEAN
  /\ status \in ExecStatus

\* The status says what happened: Success is the exit status 0 of a script that
\* ended by itself, Timeout and Cancelled need their cause.
HonestStatus ==
  spc = "done" =>
    /\ status = "Success" => exitOk /\ child = "reaped"
    /\ status = "Timeout" => expired
    /\ status = "Cancelled" => cancelled

\* shell.rs line 1: the executor "enforces timeouts".
EnforcesTimeouts == expired ~> spc = "done"

============================================================================
