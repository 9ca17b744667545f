--------------------------- MODULE AuditForwarder ---------------------------
(***************************************************************************)
(* The audit log of state.rs and its forwarder task (audit.rs), with the   *)
(* agent crashing, stopping and restarting on the same database.  Rows are *)
(* numbered by their id; the database survives, the forwarder's locals do  *)
(* not.                                                                    *)
(***************************************************************************)
EXTENDS Integers, FiniteSets

CONSTANTS
  BatchSize,   \* audit.batch_size
  MaxBackoff,  \* max_backoff in seconds (60 in audit.rs)
  MaxRows,     \* bound: rows recorded
  MaxStops     \* bound: crashes and shutdowns of the agent

ASSUME BatchOK == BatchSize \in Nat \ {0}
ASSUME BackoffOK == MaxBackoff \in Nat \ {0}
ASSUME BoundsOK == MaxRows \in Nat /\ MaxStops \in Nat

VARIABLES
  rows,       \* audit_log: ids 1..rows
  forwarded,  \* rows with forwarded = 1
  received,   \* rows the control plane has
  again,      \* rows it got more than once
  fpc,        \* where run_forwarder / flush_once is; "down": no process
  batch,      \* ids of the batch in flight, then those left to mark
  backoff,    \* in seconds
  final,      \* the flush in progress is the one on shutdown
  shutdown,   \* the shutdown token is cancelled
  fault,      \* a POST, a store call or the agent failed at some time
  stops       \* crashes and shutdowns so far

db   == <<rows, forwarded>>
cp   == <<received, again>>
hist == <<fault, stops>>
vars == <<db, cp, fpc, batch, backoff, final, shutdown, hist>>

ForwarderPC == {"sleep", "read", "post", "mark", "backoff", "stopped", "down"}

Pending == (1..rows) \ forwarded

UpTo(n) == {i \in Pending : i <= n}

\* Mutant: the query has no ORDER BY.
FirstPendingUnordered == {i \in Pending : \A j \in Pending : j > i => j - i < BatchSize}

\* Mutant: the newest row is left out.
FirstPendingOffByOne == {i \in Pending : i < rows /\ Cardinality(UpTo(i)) <= BatchSize}

\* pending_audit_events(batch_size): the lowest ids first.
FirstPending == {i \in Pending : Cardinality(UpTo(i)) <= BatchSize}

Init ==
  /\ rows = 0 /\ forwarded = {}
  /\ received = {} /\ again = {}
  /\ fpc = "sleep" /\ batch = {} /\ backoff = 1
  /\ final = FALSE /\ shutdown = FALSE
  /\ fault = FALSE /\ stops = 0

\* audit::record, from any task of the agent, also during the shutdown.
Record ==
  /\ fpc # "down" /\ rows < MaxRows
  /\ rows' = rows + 1
  /\ UNCHANGED <<forwarded, cp, fpc, batch, backoff, final, shutdown, hist>>

Signal ==
  /\ fpc # "down" /\ ~shutdown /\ stops < MaxStops
  /\ shutdown' = TRUE
  /\ stops' = stops + 1
  /\ UNCHANGED <<db, cp, fpc, batch, backoff, final, fault>>

\* The biased select: the shutdown token first, then the flush interval.
Wake ==
  /\ fpc = "sleep"
  /\ final' = shutdown
  /\ fpc' = "read"
  /\ UNCHANGED <<db, cp, batch, backoff, shutdown, hist>>

\* flush_once returned Ok.
FlushOk ==
  /\ backoff' = IF final THEN backoff ELSE 1
  /\ fpc' = IF final THEN "stopped" ELSE "sleep"

\* Mutant: the rows read are taken as done when the POST fails.
FlushErrMarks ==
  /\ fpc' = IF final THEN "stopped" ELSE "backoff"
  /\ forwarded' = forwarded \cup batch
  /\ batch' = {}
  /\ UNCHANGED <<rows, backoff>>

\* flush_once returned Err.
FlushErr ==
  /\ fpc' = IF final THEN "stopped" ELSE "backoff"
  /\ batch' = {}
  /\ UNCHANGED <<db, backoff>>

ReadEmpty ==
  /\ fpc = "read" /\ Pending = {}
  /\ FlushOk
  /\ UNCHANGED <<db, cp, batch, final, shutdown, hist>>

ReadBatch ==
  /\ fpc = "read" /\ Pending # {}
  /\ batch' = FirstPending
  /\ fpc' = "post"
  /\ UNCHANGED <<db, cp, backoff, final, shutdown, hist>>

ReadFails ==
  /\ fpc = "read"
  /\ FlushErr
  /\ fault' = TRUE
  /\ UNCHANGED <<cp, final, shutdown, stops>>

Deliver ==
  /\ received' = received \cup batch
  /\ again' = again \cup (received \cap batch)

PostOk ==
  /\ fpc = "post"
  /\ Deliver
  /\ fpc' = "mark"
  /\ UNCHANGED <<db, batch, backoff, final, shutdown, hist>>

\* The control plane is unreachable or refuses, or its answer is lost.
PostFails ==
  /\ fpc = "post"
  /\ Deliver \/ UNCHANGED cp
  /\ FlushErr
  /\ fault' = TRUE
  /\ UNCHANGED <<final, shutdown, stops>>

\* One UPDATE of mark_forwarded, each committed on its own, in id order.
MarkRow ==
  /\ fpc = "mark"
  /\ \E i \in batch :
       /\ \A j \in batch : i <= j
       /\ forwarded' = forwarded \cup {i}
       /\ batch' = batch \ {i}
  /\ UNCHANGED <<rows, cp, fpc, backoff, final, shutdown, hist>>

MarkFails ==
  /\ fpc = "mark" /\ batch # {}
  /\ FlushErr
  /\ fault' = TRUE
  /\ UNCHANGED <<cp, final, shutdown, stops>>

MarkDone ==
  /\ fpc = "mark" /\ batch = {}
  /\ FlushOk
  /\ UNCHANGED <<db, cp, batch, final, shutdown, hist>>

\* The sleep after a failure; it does not listen to the shutdown token.
BackoffEnd ==
  /\ fpc = "backoff"
  /\ backoff' = IF 2 * backoff < MaxBackoff THEN 2 * backoff ELSE MaxBackoff
  /\ fpc' = "sleep"
  /\ UNCHANGED <<db, cp, batch, final, shutdown, hist>>

\* main has joined the forwarder and returns.
Exit ==
  /\ fpc = "stopped" /\ shutdown
  /\ fpc' = "down"
  /\ UNCHANGED <<db, cp, batch, backoff, final, shutdown, hist>>

Crash ==
  /\ fpc # "down" /\ stops < MaxStops
  /\ fpc' = "down"
  /\ batch' = {}
  /\ fault' = TRUE
  /\ stops' = stops + 1
  /\ UNCHANGED <<db, cp, backoff, final, shutdown>>

\* The service manager starts the agent again on the same database.
Restart ==
  /\ fpc = "down"
  /\ fpc' = "sleep"
  /\ backoff' = 1
  /\ final' = FALSE
  /\ shutdown' = FALSE
  /\ UNCHANGED <<db, cp, batch, hist>>

\* Steps the forwarder takes by itself.
Forward ==
  \/ Wake \/ ReadEmpty \/ ReadBatch \/ MarkRow \/ MarkDone
  \/ BackoffEnd \/ Exit \/ Restart

Next ==
  \/ Forward
  \/ Record \/ Signal \/ Crash
  \/ ReadFails \/ PostOk \/ PostFails \/ MarkFails

Spec == Init /\ [][Next]_vars

\* The forwarder is scheduled, the agent is started again after a crash (vasal.service
\* restarts it on failure) and after a shutdown (by the operator, or the next boot),
\* the control plane is reachable again and again and the store does not fail for ever.
FairSpec ==
  /\ Spec
  /\ WF_vars(Forward)
  /\ SF_vars(ReadBatch) /\ SF_vars(PostOk) /\ SF_vars(MarkRow)

----------------------------------------------------------------------------
(* Properties.                                                             *)

\* Type invariant: the backoff stays between one second and its cap, and only
\* recorded rows are sent or marked.
TypeOK ==
  /\ rows \in 0..MaxRows
  /\ forwarded \subseteq 1..rows
  /\ received \subseteq 1..rows
  /\ again \subseteq received
  /\ fpc \in ForwarderPC
  /\ batch \subseteq 1..rows
  /\ backoff \in 1..MaxBackoff
  /\ final \in BOOLEAN
  /\ shutdown \in BOOLEAN
  /\ fault \in BOOLEAN
  /\ stops \in 0..MaxStops

\* "Events are never lost": a row is marked as forwarded only after the control
\* plane has it, whatever fails or crashes in between.
ForwardedIsReceived ==
  forwarded \subseteq received

\* rows and received of the abstract log are those of this module.
AtLeastOnce == INSTANCE AuditLog

\* The log promises at-least-once delivery in order (AuditLog): no crash, lost
\* answer or half-marked batch lets a row arrive before an earlier one.
InOrderDelivery == AtLeastOnce!Spec

\* As long as nothing fails, no row is sent twice: a batch is marked completely
\* before the next one is read.
OnceWithoutFaults ==
  ~fault => again = {}

\* Every recorded row reaches the control plane, over any shutdown or crash.
EventuallyReceived ==
  \A n \in 1..MaxRows : n \in 1..rows ~> n \in received

============================================================================
