----------------------------- MODULE Transport -----------------------------
(***************************************************************************)
(* The main loop (main.rs) and the transport it drives: HTTP polling       *)
(* (transport/poll.rs) or one gRPC stream at a time (transport/grpc.rs).   *)
(* The loop's biased select drops the recv_tasks future at whatever await  *)
(* it has reached as soon as a result or the shutdown is ready.  The main  *)
(* loop is the only user of GrpcTransport's mutex, and a dropped future    *)
(* has released it.                                                        *)
(***************************************************************************)
EXTENDS Naturals, Sequences, Functions

CONSTANTS
  Modes,       \* transport modes to consider, of "poll" and "grpc"
  MaxItems,    \* bound: offers of work
  MaxBatch,    \* bound: items in one answer to a poll
  MaxConns,    \* bound: gRPC streams opened
  QueueCap,    \* capacity of a stream's outbound queue (64)
  MAX_BACKOFF  \* longest pause after a failed connect (30 s)

ASSUME TransportOK ==
  /\ Modes \subseteq {"poll", "grpc"}
  /\ MaxItems \in Nat /\ MaxBatch \in Nat \ {0} /\ MaxConns \in Nat
  /\ QueueCap \in Nat \ {0}
  /\ MAX_BACKOFF \in Nat \ {0}

INITIAL_BACKOFF == 1
Items == 1..MaxItems
Conns == 1..MaxConns
Hello == 0    \* the first message of a stream to the control plane
NoWork == 0   \* a message or item that is no work: an ack, or undecodable

VARIABLES
  mode,      \* config: transport.mode
  mpc,       \* where main is
  rpc,       \* the await recv_tasks is at; "none" without a future
  shutdown,  \* the shutdown token
  work,      \* received, being submitted
  runs,      \* submitted, result still to come
  results,   \* result channel
  sending,   \* result send_result works on
  oks        \* results whose send_result returned Ok

VARIABLES
  stream,    \* inbound_stream: its connection, 0 for None
  tx,        \* outbound_tx: its connection, 0 for None
  backoff,   \* pause after the next failed connect
  conns,     \* connections made so far; the newest one's name
  outq       \* outq[c]: what the agent queued on c and is not yet delivered

VARIABLES
  offered,   \* control plane: offers made
  via,       \* via[n]: connection offer n was written to, 0 for a poll answer
  taken,     \* offers submitted, in order
  answer,    \* body of the answer to the GET
  inq,       \* inq[c]: what the control plane wrote on c and is not yet read
  life,      \* life[c]: open, or how the control plane's side of c went away
  seen       \* seen[c]: what the control plane received on c; 0 for POSTs

mainVars == <<mode, mpc, rpc, shutdown, work, runs, results, sending, oks>>
grpcVars == <<stream, tx, backoff, conns, outq>>
cpVars == <<offered, via, taken, answer, inq, life, seen>>
vars == <<mainVars, grpcVars, cpVars>>

Init ==
  /\ mode \in Modes
  /\ mpc = "select" /\ rpc = "none"
  /\ shutdown = FALSE
  /\ work = <<>> /\ runs = {} /\ results = <<>>
  /\ sending = 0 /\ oks = {}
  /\ stream = 0 /\ tx = 0 /\ backoff = INITIAL_BACKOFF
  /\ conns = 0
  /\ outq = [c \in Conns |-> <<>>]
  /\ offered = 0 /\ via = <<>> /\ taken = <<>> /\ answer = <<>>
  /\ inq = [c \in Conns |-> <<>>]
  /\ life = [c \in Conns |-> "open"]
  /\ seen = [c \in 0..MaxConns |-> <<>>]

----------------------------------------------------------------------------
(* The control plane and the network.                                      *)

\* The next k offers, with an item that is no task at position "at", if any.
Body(k, at) ==
  IF at = 0
  THEN [i \in 1..k |-> offered + i]
  ELSE [i \in 1..(k + 1) |-> IF i = at THEN NoWork ELSE IF i < at THEN offered + i ELSE offered + i - 1]

\* The GET is answered.
CPAnswers ==
  /\ rpc = "get"
  /\ \E k \in 0..MaxBatch : \E at \in 0..(k + 1) :
       /\ offered + k <= MaxItems
       /\ offered' = offered + k
       /\ via' = via \o [i \in 1..k |-> 0]
       /\ answer' = Body(k, at)
  /\ rpc' = "body"
  /\ UNCHANGED <<mode, mpc, shutdown, work, runs, results, sending, oks>>
  /\ UNCHANGED <<grpcVars, taken, inq, life, seen>>

\* A connection the agent has made and whose control plane side is alive.  It
\* may be one the agent has already dropped.
Open(c) == c <= conns /\ life[c] = "open"

\* The agent is known, and a task is pushed to it.
CPWrites(c) ==
  /\ Open(c) /\ seen[c] # <<>> /\ offered < MaxItems
  /\ offered' = offered + 1
  /\ via' = Append(via, c)
  /\ inq' = [inq EXCEPT ![c] = Append(@, offered')]
  /\ UNCHANGED <<mainVars, grpcVars, taken, answer, life, seen>>

\* Hello is acknowledged, before anything else is written.
CPAcks(c) ==
  /\ Open(c) /\ seen[c] = <<Hello>> /\ inq[c] = <<>> /\ c \notin Range(via)
  /\ inq' = [inq EXCEPT ![c] = <<NoWork>>]
  /\ UNCHANGED <<mainVars, grpcVars, offered, via, taken, answer, life, seen>>

CPReceives(c) ==
  /\ Open(c) /\ outq[c] # <<>>
  /\ seen' = [seen EXCEPT ![c] = Append(@, Head(outq[c]))]
  /\ outq' = [outq EXCEPT ![c] = Tail(@)]
  /\ UNCHANGED <<mainVars, stream, tx, backoff, conns>>
  /\ UNCHANGED <<offered, via, taken, answer, inq, life>>

\* The control plane ends the stream, or the connection breaks.
CPCloses(c) ==
  /\ Open(c)
  /\ \E how \in {"ended", "error"} : life' = [life EXCEPT ![c] = how]
  /\ UNCHANGED <<mainVars, grpcVars, offered, via, taken, answer, inq, seen>>

ControlPlane ==
  CPAnswers \/ \E c \in Conns : CPWrites(c) \/ CPAcks(c) \/ CPReceives(c) \/ CPCloses(c)

----------------------------------------------------------------------------
(* The other tasks of the agent.                                           *)

\* Mutant: a run goes on after it sent a result, as if each tick reported one.
RunEndsNot(n) ==
  /\ n \in runs /\ mpc # "done" /\ n \notin Range(results)
  /\ results' = Append(results, n)
  /\ UNCHANGED <<mode, mpc, rpc, shutdown, work, runs, sending, oks>>
  /\ UNCHANGED <<grpcVars, cpVars>>

\* A submitted task's run sends its result.
RunEnds(n) ==
  /\ n \in runs /\ mpc # "done"
  /\ runs' = runs \ {n}
  /\ results' = Append(results, n)
  /\ UNCHANGED <<mode, mpc, rpc, shutdown, work, sending, oks>>
  /\ UNCHANGED <<grpcVars, cpVars>>

Shutdown ==
  /\ ~shutdown
  /\ shutdown' = TRUE
  /\ UNCHANGED <<mode, mpc, rpc, work, runs, results, sending, oks>>
  /\ UNCHANGED <<grpcVars, cpVars>>

----------------------------------------------------------------------------
(* recv_tasks, the last branch of the biased select: it makes a step only  *)
(* when neither the shutdown nor a result is ready.                        *)

Polled == mpc = "select" /\ ~shutdown /\ results = <<>>

\* recv_tasks goes on to its next await.
AwaitAt(p) ==
  /\ rpc' = p
  /\ UNCHANGED <<mode, mpc, shutdown, work, runs, results, sending, oks>>

\* recv_tasks returns; Err and an empty batch both start the loop over.
RecvReturns(items) ==
  /\ rpc' = "none"
  /\ work' = items
  /\ mpc' = IF items = <<>> THEN "select" ELSE "submit"
  /\ UNCHANGED <<mode, shutdown, runs, results, sending, oks>>

\* poll: the interval is slept before the GET.
PollStart ==
  /\ Polled /\ mode = "poll" /\ rpc \in {"none", "sleep"}
  /\ AwaitAt(IF rpc = "none" THEN "sleep" ELSE "get")
  /\ UNCHANGED <<grpcVars, cpVars>>

\* The request fails, its status is no success, or the body is no list.
PollFails ==
  /\ Polled /\ rpc \in {"get", "body"}
  /\ RecvReturns(<<>>)
  /\ answer' = <<>>
  /\ UNCHANGED <<grpcVars, offered, via, taken, inq, life, seen>>

\* The loop over the items pushes each that parses as a task or as a chain;
\* the others are left out.
Parsed(items) ==
  LET pushed[i \in 0..Len(items)] ==
        IF i = 0 THEN <<>>
        ELSE IF items[i] = NoWork THEN pushed[i - 1] ELSE Append(pushed[i - 1], items[i])
  IN  pushed[Len(items)]

\* Mutant: the items are collected last to first.
PollParseReversed ==
  /\ Polled /\ rpc = "body"
  /\ LET p == Parsed(answer) IN RecvReturns([i \in DOMAIN p |-> p[Len(p) + 1 - i]])
  /\ answer' = <<>>
  /\ UNCHANGED <<grpcVars, offered, via, taken, inq, life, seen>>

PollParse ==
  /\ Polled /\ rpc = "body"
  /\ RecvReturns(Parsed(answer))
  /\ answer' = <<>>
  /\ UNCHANGED <<grpcVars, offered, via, taken, inq, life, seen>>

\* Mutant: every call of recv_tasks opens a stream.
GrpcStartAnew ==
  /\ Polled /\ mode = "grpc" /\ rpc = "none"
  /\ AwaitAt("connect")
  /\ UNCHANGED <<grpcVars, cpVars>>

GrpcStart ==
  /\ Polled /\ mode = "grpc" /\ rpc = "none"
  /\ AwaitAt(IF stream = 0 \/ tx = 0 THEN "connect" ELSE "read")
  /\ UNCHANGED <<grpcVars, cpVars>>

\* connect: the channel is up, hello is queued and the stream is requested.
GrpcConnect ==
  /\ Polled /\ rpc = "connect" /\ conns < MaxConns
  /\ conns' = conns + 1
  /\ outq' = [outq EXCEPT ![conns'] = <<Hello>>]
  /\ AwaitAt("open")
  /\ UNCHANGED <<stream, tx, backoff, cpVars>>

GrpcConnected ==
  /\ Polled /\ rpc = "open"
  /\ stream' = conns /\ tx' = conns
  /\ backoff' = INITIAL_BACKOFF
  /\ AwaitAt("read")
  /\ UNCHANGED <<conns, outq, cpVars>>

\* connect fails at either await; the pause is what backoff was before.
GrpcConnectFails ==
  /\ Polled /\ rpc \in {"connect", "open"}
  /\ backoff' = IF 2 * backoff < MAX_BACKOFF THEN 2 * backoff ELSE MAX_BACKOFF
  /\ AwaitAt("backoff")
  /\ UNCHANGED <<stream, tx, conns, outq, cpVars>>

GrpcSlept ==
  /\ Polled /\ rpc = "backoff"
  /\ RecvReturns(<<>>)
  /\ UNCHANGED <<grpcVars, cpVars>>

\* stream.message() yields a message, which decode_work may find to be no work.
GrpcMessage ==
  /\ Polled /\ rpc = "read" /\ inq[stream] # <<>>
  /\ LET m == Head(inq[stream])
     IN  RecvReturns(IF m = NoWork THEN <<>> ELSE <<m>>)
  /\ inq' = [inq EXCEPT ![stream] = Tail(@)]
  /\ UNCHANGED <<grpcVars, offered, via, taken, answer, life, seen>>

\* stream.message() finds the stream ended, or broken.
GrpcClosed ==
  /\ Polled /\ rpc = "read"
  /\ life[stream] = "error" \/ (life[stream] = "ended" /\ inq[stream] = <<>>)
  /\ stream' = 0 /\ tx' = 0
  /\ RecvReturns(<<>>)
  /\ UNCHANGED <<backoff, conns, outq, cpVars>>

RecvTasks ==
  \/ PollStart \/ PollFails \/ PollParse
  \/ GrpcStart \/ GrpcConnect \/ GrpcConnected \/ GrpcConnectFails
  \/ GrpcSlept \/ GrpcMessage \/ GrpcClosed

----------------------------------------------------------------------------
(* The rest of the main loop.                                              *)

\* Mutant: a message that recv_tasks was waiting for goes with its future.
DropRecvLossy ==
  /\ rpc' = "none" /\ answer' = <<>>
  /\ inq' = IF rpc = "read" /\ inq[stream] # <<>> THEN [inq EXCEPT ![stream] = Tail(@)] ELSE inq

\* Another branch of the select wins: the recv_tasks future is dropped, with
\* the answer it may be reading.  Streaming::message loses nothing.
DropRecv == rpc' = "none" /\ answer' = <<>> /\ inq' = inq

SelectShutdown ==
  /\ mpc = "select" /\ shutdown
  /\ DropRecv
  /\ mpc' = "drain"
  /\ UNCHANGED <<mode, shutdown, work, runs, results, sending, oks>>
  /\ UNCHANGED <<grpcVars, offered, via, taken, life, seen>>

SelectResult ==
  /\ mpc = "select" /\ ~shutdown /\ results # <<>>
  /\ DropRecv
  /\ sending' = Head(results) /\ results' = Tail(results)
  /\ mpc' = "send"
  /\ UNCHANGED <<mode, shutdown, work, runs, oks>>
  /\ UNCHANGED <<grpcVars, offered, via, taken, life, seen>>

\* One item of the batch is submitted.
Submit ==
  /\ mpc = "submit"
  /\ taken' = Append(taken, Head(work))
  /\ runs' = runs \cup {Head(work)}
  /\ work' = Tail(work)
  /\ mpc' = IF Len(work) = 1 THEN "select" ELSE "submit"
  /\ UNCHANGED <<mode, rpc, shutdown, results, sending, oks>>
  /\ UNCHANGED <<grpcVars, offered, via, answer, inq, life, seen>>

\* send_result returns, to the select or to the drain; Err is only logged.
SendReturns(ok) ==
  /\ oks' = IF ok THEN oks \cup {sending} ELSE oks
  /\ sending' = 0
  /\ mpc' = IF mpc = "send" THEN "select" ELSE "drain"
  /\ UNCHANGED <<mode, rpc, shutdown, work, runs, results>>

\* The POST arrives or not; Ok needs it to have arrived, an Err proves nothing.
Post ==
  /\ mpc \in {"send", "flush"} /\ mode = "poll"
  /\ \/ /\ seen' = [seen EXCEPT ![0] = Append(@, sending)]
        /\ \E ok \in BOOLEAN : SendReturns(ok)
     \/ SendReturns(FALSE) /\ UNCHANGED seen
  /\ UNCHANGED <<grpcVars, offered, via, taken, answer, inq, life>>

SendUnconnected ==
  /\ mpc \in {"send", "flush"} /\ mode = "grpc" /\ tx = 0
  /\ SendReturns(FALSE)
  /\ UNCHANGED <<grpcVars, cpVars>>

\* Ok means queued: the connection may be gone, or go before it is delivered.
SendQueued ==
  /\ mpc \in {"send", "flush"} /\ mode = "grpc" /\ tx # 0
  /\ Len(outq[tx]) < QueueCap
  /\ outq' = [outq EXCEPT ![tx] = Append(@, sending)]
  /\ SendReturns(TRUE)
  /\ UNCHANGED <<stream, tx, backoff, conns, cpVars>>

\* The stream's end of the queue is gone.
SendClosed ==
  /\ mpc \in {"send", "flush"} /\ mode = "grpc" /\ tx # 0 /\ life[tx] # "open"
  /\ SendReturns(FALSE)
  /\ UNCHANGED <<grpcVars, cpVars>>

SendResult == Post \/ SendUnconnected \/ SendQueued \/ SendClosed

\* Mutant: recv instead of try_recv, which waits for the runs that go on.
DrainWaits ==
  /\ mpc = "drain"
  /\ IF results = <<>>
     THEN runs = {} /\ mpc' = "done" /\ UNCHANGED <<sending, results>>
     ELSE mpc' = "flush" /\ sending' = Head(results) /\ results' = Tail(results)
  /\ UNCHANGED <<mode, rpc, shutdown, work, runs, oks>>
  /\ UNCHANGED <<grpcVars, cpVars>>

\* try_recv until the channel is empty, then leave.
Drain ==
  /\ mpc = "drain"
  /\ IF results = <<>>
     THEN mpc' = "done" /\ UNCHANGED <<sending, results>>
     ELSE mpc' = "flush" /\ sending' = Head(results) /\ results' = Tail(results)
  /\ UNCHANGED <<mode, rpc, shutdown, work, runs, oks>>
  /\ UNCHANGED <<grpcVars, cpVars>>

Main == RecvTasks \/ SelectShutdown \/ SelectResult \/ Submit \/ SendResult \/ Drain

Stopped == mpc = "done" /\ UNCHANGED vars

Next == Main \/ ControlPlane \/ (\E n \in Items : RunEnds(n)) \/ Shutdown \/ Stopped

Spec == Init /\ [][Next]_vars

\* The main task is scheduled and its awaits end: timers, connects and requests
\* (the client's timeout is 30 s).  The control plane's side of a stream keeps
\* taking what was queued, or goes away.
FairSpec ==
  /\ Spec
  /\ WF_vars(Main)
  /\ \A c \in Conns : WF_vars(CPReceives(c))

----------------------------------------------------------------------------
(* Properties.                                                             *)

\* Type invariant; the pause between connects stays within its limits.
TypeOK ==
  /\ mode \in Modes
  /\ mpc \in {"select", "submit", "send", "drain", "flush", "done"}
  /\ rpc \in {"none", "sleep", "get", "body", "connect", "open", "backoff", "read"}
  /\ shutdown \in BOOLEAN
  /\ work \in Seq(Items) /\ runs \subseteq Items /\ results \in Seq(Items)
  /\ sending \in 0..MaxItems /\ oks \subseteq Items
  /\ stream \in 0..conns /\ tx \in 0..conns /\ conns \in 0..MaxConns
  /\ backoff \in 1..MAX_BACKOFF
  /\ offered \in 0..MaxItems /\ via \in Seq(0..MaxConns) /\ taken \in Seq(Items)
  /\ answer \in Seq(0..MaxItems)
  /\ outq \in [Conns -> Seq(0..MaxItems)] /\ inq \in [Conns -> Seq(0..MaxItems)]
  /\ life \in [Conns -> {"open", "ended", "error"}]
  /\ seen \in [0..MaxConns -> Seq(0..MaxItems)]

Link == INSTANCE WorkLink WITH offered <- offered, taken <- taken

\* The main loop submits a subsequence of what the control plane offered: work
\* in flight on a dropped recv_tasks, on a broken stream or after a reconnect is
\* never submitted twice or out of order.
InOrderWork == Link!Spec

\* While a stream is up, dropping recv_tasks for each result costs no work: all
\* that was written to the stream is still in it or has been received.
NoWorkSkipped ==
  stream # 0 =>
    \A n \in 1..offered :
      via[n] = stream => n \in Range(inq[stream]) \cup Range(work) \cup Range(taken)

\* A result send_result accepted has arrived, or waits on the current stream,
\* or its stream has gone: nothing is queued on a stream the agent abandoned.
OkIsOnItsWay ==
  \A n \in oks :
    \/ \E c \in 0..MaxConns : n \in Range(seen[c])
    \/ \E c \in Conns : n \in Range(outq[c]) /\ (c = tx \/ life[c] # "open")

\* Results take precedence over recv_tasks and restart its sleep, yet until the
\* shutdown the agent goes on fetching work: each task reports once.
KeepsFetching == []<>(rpc \in {"get", "connect", "read"}) \/ <>shutdown

\* After a shutdown request the main loop ends, also when it was about to queue
\* a result on a full or broken stream.
Stops == shutdown ~> mpc = "done"

============================================================================
