--------------------------- MODULE MCSidecarExec ---------------------------
(* SidecarExec for TLC: a task with a credential left to the sidecar, one   *)
(* of an HTTP provider and one a sidecar provides.  A health probe may      *)
(* begin from the submit call on, so that it overlaps the submit, status    *)
(* and cancel calls; other requests come once the task is done.             *)
EXTENDS SidecarExec

MCCredentialRefs == {<<"lazy", "http", "sidecar">>}

MCOthersCall ==
  {<<"submit", "health">>} \cup ({"done"} \X {"health", "garbled", "unknown", "oversized"})

============================================================================
