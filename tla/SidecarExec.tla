---------------------------- MODULE SidecarExec ----------------------------
(***************************************************************************)
(* A oneshot task for a sidecar: the eager credentials are resolved        *)
(* (credential.rs), then sidecar::execute (task/sidecar.rs) submits the    *)
(* request and polls until the job the sidecar accepted has ended, the     *)
(* timeout has passed or the task is cancelled.  Every call is a call of   *)
(* SidecarCall, next to the calls of other clients of the same server.     *)
(***************************************************************************)
EXTENDS TaskResults, SidecarCall

CONSTANTS
  CredentialRefs, \* bound: the lists of credential references a task may have
  OthersCall      \* bound: calls other clients may begin, <<where the task is, request>>

ASSUME RefsOK ==
  /\ Callers = Foreign \cup {"exec"} /\ "exec" \notin Foreign
  /\ \A refs \in CredentialRefs : refs \in Seq({"lazy", "http", "sidecar"})

VARIABLES
  xpc,          \* where the task is
  refs,         \* its credential references
  cred,         \* how many of them resolve_eager has gone through
  job,          \* the sidecar's job; "none" before submit and after a restart
  poll_index,   \* saturated at 1: see Delayed
  cancelled,    \* the task's token
  expired,      \* start.elapsed() >= timeout
  status,       \* status of the result
  cancelCalled  \* a "cancel" call was made

execVars == <<xpc, refs, cred, job, poll_index, cancelled, expired, status, cancelCalled>>
vars == <<callVars, execVars>>

\* Of POLL_DELAYS_MS it matters that the first delay is 0 and the others not;
\* poll_index past the end of the table means its last entry.
Delayed == poll_index > 0

SidecarPC == {"creds", "submit", "loop", "sleep", "status", "cancel", "done"}
Ended == {"completed", "failed", "cancelled"}
JobStates == {"none", "running"} \cup Ended

Init ==
  /\ CallInit
  /\ xpc = "creds"
  /\ refs \in CredentialRefs
  /\ cred = 0
  /\ job = "none"
  /\ poll_index = 0
  /\ cancelled = FALSE
  /\ expired = FALSE
  /\ status = "Success"
  /\ cancelCalled = FALSE

\* The executor's call has returned a, and the executor goes on with it.
Got(a) ==
  /\ resp["exec"] = a
  /\ Use("exec")

Return(s) == xpc' = "done" /\ status' = s

----------------------------------------------------------------------------
(* The environment.                                                        *)

Cancel ==
  /\ xpc # "done" /\ ~cancelled
  /\ cancelled' = TRUE
  /\ UNCHANGED <<callVars, xpc, refs, cred, job, poll_index, expired, status, cancelCalled>>

TimePasses ==
  /\ xpc \notin {"creds", "done"} /\ ~expired
  /\ expired' = TRUE
  /\ UNCHANGED <<callVars, xpc, refs, cred, job, poll_index, cancelled, status, cancelCalled>>

\* The job ends in the sidecar.
JobEnds ==
  /\ job = "running"
  /\ job' \in Ended
  /\ UNCHANGED <<callVars, xpc, refs, cred, poll_index, cancelled, expired, status, cancelCalled>>

\* The server goes, and a running job with it.
SidecarStops ==
  /\ ServerStops
  /\ job' = IF job = "running" THEN "none" ELSE job
  /\ UNCHANGED <<xpc, refs, cred, poll_index, cancelled, expired, status, cancelCalled>>

\* Another client, a health probe or one that does not use call_raw, makes a
\* request.
OtherBegins ==
  /\ \E c \in Foreign, r \in Requests \ {"submit", "status", "cancel"} :
       <<xpc, r>> \in OthersCall /\ Begin(c, r)
  /\ UNCHANGED execVars

\* It leaves early, or is done with its call once the server is.
OtherEnds ==
  /\ \E c \in Foreign : Disconnect(c) \/ (hpc[c] \in {"none", "closed"} /\ Use(c))
  /\ UNCHANGED execVars

\* Responses a handler may give.  Of a synchronous sidecar "status" and
\* "cancel" are the trait's defaults, which are errors.
Handle(c) ==
  \E a \in Responses :
    /\ HandlerRuns(c, a)
    /\ UNCHANGED <<xpc, refs, cred, poll_index, cancelled, expired, status, cancelCalled>>
    /\ \/ /\ a \in {"error", "oversized", "other", "garbled"}
          /\ job' \in IF Asked(c) = "submit" THEN JobStates ELSE {job}
       \/ /\ Asked(c) = "submit"
          /\ \/ a = "accepted" /\ job' = "running"
             \/ a \in {"completed", "failed"} /\ job' = a
       \/ /\ Asked(c) = "status" /\ a = job /\ job' = job
       \/ /\ Asked(c) = "cancel" /\ a = "cancelled"
          /\ job' = IF job = "running" THEN "cancelled" ELSE job

----------------------------------------------------------------------------
(* resolve_eager.                                                          *)

InCreds == xpc = "creds" /\ cred < Len(refs)

NextRef ==
  /\ cred' = cred + 1
  /\ UNCHANGED <<xpc, refs, job, poll_index, cancelled, expired, status, cancelCalled>>

CredsFail ==
  /\ Return("Failed")
  /\ UNCHANGED <<refs, cred, job, poll_index, cancelled, expired, cancelCalled>>

\* Left to the sidecar.
CredLazy == InCreds /\ refs[cred + 1] = "lazy" /\ NextRef /\ UNCHANGED callVars

\* resolve_http: any answer of status 2xx is a value.
CredHttp ==
  /\ InCreds /\ refs[cred + 1] = "http"
  /\ NextRef \/ CredsFail
  /\ UNCHANGED callVars

\* resolve_sidecar: a call of a method of the reference's choice.
CredCall ==
  /\ InCreds /\ refs[cred + 1] = "sidecar"
  /\ \E r \in {"health", "unknown"} : Begin("exec", r)
  /\ UNCHANGED execVars

CredReturned ==
  /\ xpc = "creds"
  /\ \E a \in Responses \cup {"Err"} :
       /\ Got(a)
       /\ IF a \in Results THEN NextRef ELSE CredsFail

----------------------------------------------------------------------------
(* sidecar::execute.                                                       *)

\* start is taken and the request sent; the token is not looked at.  The method
\* is the task's, and the parameters may be too long.
Submit ==
  /\ xpc = "creds" /\ cred = Len(refs)
  /\ \E r \in {"submit", "unknown", "oversized"} : Begin("exec", r)
  /\ xpc' = "submit"
  /\ UNCHANGED <<refs, cred, job, poll_index, cancelled, expired, status, cancelCalled>>

\* The call failed, or its answer is an error or no SubmitResponse.  The sidecar
\* may have done the job.
SubmitFails ==
  /\ xpc = "submit"
  /\ \E a \in (Responses \cup {"Err"}) \ {"completed", "failed", "accepted"} : Got(a)
  /\ Return("Failed")
  /\ UNCHANGED <<refs, cred, job, poll_index, cancelled, expired, cancelCalled>>

\* The sidecar answers with the outcome.
SubmitEnded ==
  /\ xpc = "submit"
  /\ \/ Got("completed") /\ Return("Success")
     \/ Got("failed") /\ Return("Failed")
  /\ UNCHANGED <<refs, cred, job, poll_index, cancelled, expired, cancelCalled>>

SubmitAccepted ==
  /\ xpc = "submit"
  /\ Got("accepted")
  /\ xpc' = "loop"
  /\ UNCHANGED <<refs, cred, job, poll_index, cancelled, expired, status, cancelCalled>>

----------------------------------------------------------------------------
(* poll_until_complete.                                                    *)

\* Mutant: the job is left alone when the agent gives up.
CancelJobForgotten(s) ==
  /\ xpc' = "done" /\ status' = s
  /\ UNCHANGED <<callVars, refs, cred, job, poll_index, cancelled, expired, cancelCalled>>

\* Begin the "cancel" call; s is the status returned after it.
CancelJob(s) ==
  /\ xpc' = "cancel" /\ status' = s
  /\ Begin("exec", "cancel")
  /\ cancelCalled' = TRUE
  /\ UNCHANGED <<refs, cred, job, poll_index, cancelled, expired>>

\* Head of the loop.
Timeout == xpc = "loop" /\ expired /\ CancelJob("Timeout")

\* Begin a "status" call.
Poll ==
  /\ xpc' = "status"
  /\ Begin("exec", "status")
  /\ UNCHANGED <<refs, cred, job, poll_index, cancelled, expired, status, cancelCalled>>

\* Without a delay the token is not looked at.
PollAtOnce == xpc = "loop" /\ ~expired /\ ~Delayed /\ Poll

\* Enter the select; a token already cancelled wins at once.
SelectDelay ==
  /\ xpc = "loop" /\ ~expired /\ Delayed /\ ~cancelled
  /\ xpc' = "sleep"
  /\ UNCHANGED <<callVars, refs, cred, job, poll_index, cancelled, expired, status, cancelCalled>>

SelectCancelled ==
  /\ xpc = "sleep" \/ (xpc = "loop" /\ ~expired /\ Delayed)
  /\ cancelled
  /\ CancelJob("Cancelled")

\* The token may have been cancelled just as the sleep ended.
SelectElapsed == xpc = "sleep" /\ Poll

\* poll_index += 1, and back to the head of the loop.
Again ==
  /\ xpc' = "loop"
  /\ poll_index' = 1
  /\ UNCHANGED <<refs, cred, job, cancelled, expired, status, cancelCalled>>

\* The job runs, or the call failed or its result is no StatusResponse: retry.
StatusAgain ==
  /\ xpc = "status"
  /\ \E a \in {"running", "Err", "other"} : Got(a)
  /\ Again

\* An error object: the job is unknown, or the handler failed.  No "cancel".
StatusError ==
  /\ xpc = "status"
  /\ Got("error")
  /\ Return("Failed")
  /\ UNCHANGED <<refs, cred, job, poll_index, cancelled, expired, cancelCalled>>

\* Mutant: every ended job is a success.
StatusEndedBlind ==
  /\ xpc = "status"
  /\ \E a \in Ended : Got(a)
  /\ Return("Success")
  /\ UNCHANGED <<refs, cred, job, poll_index, cancelled, expired, cancelCalled>>

StatusEnded ==
  /\ xpc = "status"
  /\ \E a \in Ended :
       /\ Got(a)
       /\ Return([completed |-> "Success", failed |-> "Failed", cancelled |-> "Cancelled"][a])
  /\ UNCHANGED <<refs, cred, job, poll_index, cancelled, expired, cancelCalled>>

\* Mutant: a "cancel" call that failed is made again.
CancelRetried ==
  /\ xpc = "cancel"
  /\ \E a \in Responses \cup {"Err"} :
       /\ Got(a)
       /\ xpc' = IF a = "Err" THEN "loop" ELSE "done"
  /\ UNCHANGED <<refs, cred, job, poll_index, cancelled, expired, status, cancelCalled>>

\* The "cancel" call returns; what it returns is ignored.
CancelReturns ==
  /\ xpc = "cancel"
  /\ \E a \in Responses \cup {"Err"} : Got(a)
  /\ xpc' = "done"
  /\ UNCHANGED <<refs, cred, job, poll_index, cancelled, expired, status, cancelCalled>>

Execute ==
  \/ CredLazy \/ CredHttp \/ CredCall \/ CredReturned
  \/ Submit \/ SubmitFails \/ SubmitEnded \/ SubmitAccepted
  \/ Timeout \/ PollAtOnce \/ SelectDelay \/ SelectCancelled \/ SelectElapsed
  \/ StatusAgain \/ StatusError \/ StatusEnded \/ CancelReturns

Connections(c) == (CallRaw(c) \/ Serve(c)) /\ UNCHANGED execVars

Returned == xpc = "done" /\ UNCHANGED vars

Next ==
  \/ Execute
  \/ \E c \in Callers : Connections(c) \/ Handle(c)
  \/ Cancel \/ TimePasses \/ JobEnds \/ SidecarStops \/ OtherBegins \/ OtherEnds
  \/ ServerStarts /\ UNCHANGED execVars
  \/ Returned

Spec == Init /\ [][Next]_vars

\* Both ends are scheduled, a handler that is called returns (call_raw has no
\* timeout of its own) and time passes; the job need not end, and a server that
\* has gone need not come back.
FairSpec ==
  /\ Spec
  /\ WF_vars(Execute) /\ WF_vars(TimePasses)
  /\ WF_vars(Connections("exec")) /\ WF_vars(Handle("exec"))

----------------------------------------------------------------------------
(* Properties.                                                             *)

\* Type invariant.
TypeOK ==
  /\ CallTypeOK
  /\ xpc \in SidecarPC
  /\ cred \in 0..Len(refs)
  /\ job \in JobStates
  /\ poll_index \in 0..1
  /\ cancelled \in BOOLEAN /\ expired \in BOOLEAN /\ cancelCalled \in BOOLEAN
  /\ status \in ExecStatus

\* Success is only ever reported for a job the sidecar completed: a job it
\* forgot, cancelled or failed, or one that was never submitted, never counts.
SuccessIsCompleted == xpc = "done" /\ status = "Success" => job = "completed"

\* The agent never walks away from a job by timeout or cancellation without
\* having asked the sidecar to cancel it, unless the sidecar cancelled it itself.
GivesUpByCancelling ==
  xpc = "done" /\ status \in {"Timeout", "Cancelled"} => cancelCalled \/ job = "cancelled"

Calls == INSTANCE RemoteCall WITH effects <- effects["exec"], outcome <- Outcome("exec")

\* The executor's calls keep the promise of RemoteCall: the handler runs at most
\* once for each, before the call returns, and a result means that it ran -
\* although connecting, sending and reading fail at any point, and call_raw
\* neither compares request ids nor has a timeout.
OneEffect == Calls!Spec

\* A task that outlives its timeout, or is cancelled, ends though the job never
\* does, every poll fails and the sidecar goes away in the middle of a call.
GivesUp == <>(xpc = "done")

============================================================================
