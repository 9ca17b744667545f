----------------------------- MODULE RemoteCall ----------------------------
(***************************************************************************)
(* What sidecar::call_raw promises its caller, call after call: the        *)
(* sidecar's handler runs at most once for a call, a result object comes   *)
(* only from a handler that has run, and once the call has returned the    *)
(* handler does not run any more.  An error promises nothing: the handler  *)
(* may or may not have run.                                                *)
(***************************************************************************)
EXTENDS Naturals

VARIABLES
  effects,  \* how many times the handler has run for the current call
  outcome   \* what the caller has: "none", "pending", "result" or "error"

vars == <<effects, outcome>>

Init == effects = 0 /\ outcome = "none"

Begin ==
  /\ outcome = "none"
  /\ outcome' = "pending"
  /\ UNCHANGED effects

Act ==
  /\ outcome = "pending" /\ effects = 0
  /\ effects' = 1
  /\ UNCHANGED outcome

Answer ==
  /\ outcome = "pending" /\ effects = 1
  /\ outcome' = "result"
  /\ UNCHANGED effects

Fail ==
  /\ outcome = "pending"
  /\ outcome' = "error"
  /\ UNCHANGED effects

\* The caller is done with what it got.
Use ==
  /\ outcome \in {"result", "error"}
  /\ outcome' = "none" /\ effects' = 0

Next == Begin \/ Act \/ Answer \/ Fail \/ Use

Spec == Init /\ [][Next]_vars

============================================================================
