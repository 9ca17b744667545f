-------------------------- MODULE TransportProofs --------------------------
(***************************************************************************)
(* Proofs about Transport, for any number of offers, streams and results,  *)
(* and poll answers of any length.                                         *)
(***************************************************************************)
EXTENDS Transport, SequenceTheorems, WellFoundedInduction, TLAPS

----------------------------------------------------------------------------
(* The invariants.                                                         *)

\* Types, of everything but the work that was received.
LinkType ==
  /\ mode \in {"poll", "grpc"}
  /\ mpc \in {"select", "submit", "send", "drain", "flush", "done"}
  /\ results \in Seq(Items) /\ sending \in 0..MaxItems
  /\ conns \in 0..MaxConns /\ stream \in 0..conns
  /\ offered \in 0..MaxItems /\ via \in Seq(0..MaxConns)
  /\ outq \in [Conns -> Seq(0..MaxItems)] /\ inq \in [Conns -> Seq(0..MaxItems)]
  /\ life \in [Conns -> {"open", "ended", "error"}]
  /\ seen \in [0..MaxConns -> Seq(0..MaxItems)]

\* recv_tasks stays in its own transport.  connect is only called without a
\* stream, and the stream and its sender come and go together.
RecvInv ==
  /\ mode = "poll" => stream = 0 /\ rpc \in {"none", "sleep", "get", "body"}
  /\ mode = "grpc" => rpc \in {"none", "connect", "open", "backoff", "read"}
  /\ tx = stream
  /\ rpc = "read" => stream # 0
  /\ rpc \in {"connect", "open"} => stream = 0
  /\ rpc = "open" => conns # 0
  /\ rpc # "none" => mpc = "select"

\* Nothing is on a connection before it is made.
FreshInv ==
  /\ Len(via) = offered
  /\ \A n \in 1..offered : via[n] <= conns
  /\ \A c \in Conns : c > conns => outq[c] = <<>> /\ inq[c] = <<>>

\* The connection whose messages recv_tasks reads now, or will once it is open.
Live(c) == c = stream \/ (rpc = "open" /\ c = conns)

\* With gRPC there is one item of work at a time.
WorkType ==
  /\ taken \in Seq(Items)
  /\ IF mpc = "submit" THEN \E m \in Items : work = <<m>> ELSE work = <<>>

\* What was written to the live connection is in it or was received.
SkipInv ==
  \A c \in Conns : Live(c) =>
    \A n \in 1..offered : via[n] = c => n \in Range(inq[c]) \cup Range(work) \cup Range(taken)

\* The offers on the live connection rise, above the work in hand, and that
\* is above everything submitted before.
OrderInv ==
  /\ Link!Newest <= offered
  /\ \A m \in Range(work) : m \in (Link!Newest + 1)..offered
  /\ \A c \in Conns : Live(c) =>
       /\ \A i \in DOMAIN inq[c] : inq[c][i] # NoWork =>
            /\ inq[c][i] \in (Link!Newest + 1)..offered
            /\ \A m \in Range(work) : m < inq[c][i]
       /\ \A i, j \in DOMAIN inq[c] :
            i < j /\ inq[c][i] # NoWork /\ inq[c][j] # NoWork => inq[c][i] < inq[c][j]

GrpcInv == WorkType /\ SkipInv /\ OrderInv

\* The work among the items of s rises, from lo to hi at most.
Rising(s, lo, hi) ==
  \A i \in 1..Len(s) : s[i] # NoWork =>
    /\ s[i] \in lo..hi
    /\ \A j \in 1..Len(s) : i < j /\ s[j] # NoWork => s[i] < s[j]

\* With polling, the answer in flight and the batch being submitted rise, and
\* are above everything submitted before.
PollInv ==
  /\ conns = 0
  /\ taken \in Seq(Items) /\ work \in Seq(Items) /\ answer \in Seq(0..MaxItems)
  /\ mpc = "submit" <=> work # <<>>
  /\ answer # <<>> => rpc = "body"
  /\ Link!Newest <= offered
  /\ Rising(work, Link!Newest + 1, offered) /\ Rising(answer, Link!Newest + 1, offered)

IInv ==
  /\ LinkType /\ RecvInv /\ FreshInv
  /\ OkIsOnItsWay
  /\ mode = "grpc" => GrpcInv
  /\ mode = "poll" => PollInv

----------------------------------------------------------------------------
(* Sequences.                                                              *)

LEMMA RangeAppend ==
  ASSUME NEW S, NEW s \in Seq(S), NEW e \in S
  PROVE  Append(s, e) \in Seq(S) /\ Range(Append(s, e)) = Range(s) \cup {e}
<1>1. Append(s, e) \in Seq(S) /\ DOMAIN Append(s, e) = 1..(Len(s) + 1) /\ DOMAIN s = 1..Len(s)
  OBVIOUS
<1>2. \A i \in 1..Len(s) : Append(s, e)[i] = s[i]
  OBVIOUS
<1>3. Append(s, e)[Len(s) + 1] = e /\ Len(s) \in Nat
  OBVIOUS
<1>4. \A i \in 1..(Len(s) + 1) : i \in 1..Len(s) \/ i = Len(s) + 1
  BY <1>3
<1>. QED
  BY <1>1, <1>2, <1>3, <1>4 DEF Range

LEMMA UpTo ==
  ASSUME NEW n \in Nat, NEW i \in 1..(n + 1)
  PROVE  i \in 1..n \/ i = n + 1
OBVIOUS

LEMMA AppendAt ==
  ASSUME NEW s \in Seq(0..MaxItems), NEW e \in 0..MaxItems
  PROVE  /\ Len(s) \in Nat /\ DOMAIN s = 1..Len(s) /\ DOMAIN Append(s, e) = 1..(Len(s) + 1)
         /\ \A i \in 1..Len(s) : Append(s, e)[i] = s[i]
         /\ Append(s, e)[Len(s) + 1] = e
OBVIOUS

LEMMA MsgAppend ==
  ASSUME NEW s \in Seq(0..MaxItems), NEW e \in 0..MaxItems
  PROVE  Range(Append(s, e)) = Range(s) \cup {e}
<1> DEFINE Msgs == 0..MaxItems
<1>1. s \in Seq(Msgs) /\ e \in Msgs
  OBVIOUS
<1> HIDE DEF Msgs
<1>. QED
  BY <1>1, RangeAppend

LEMMA RangeHeadTail ==
  ASSUME NEW S, NEW s \in Seq(S), s # <<>>
  PROVE  /\ Head(s) \in S /\ Tail(s) \in Seq(S)
         /\ Range(s) = {Head(s)} \cup Range(Tail(s))
<1>1. /\ Head(s) = s[1] /\ Len(s) \in Nat \ {0} /\ Tail(s) \in Seq(S)
      /\ DOMAIN s = 1..Len(s) /\ DOMAIN Tail(s) = 1..(Len(s) - 1) /\ Head(s) \in S
  OBVIOUS
<1>2. \A i \in 1..(Len(s) - 1) : Tail(s)[i] = s[i + 1]
  OBVIOUS
<1>3. ASSUME NEW i \in 1..Len(s) PROVE i = 1 \/ (i - 1 \in 1..(Len(s) - 1) /\ Tail(s)[i - 1] = s[i])
  BY <1>1, <1>2
<1>4. \A i \in 1..(Len(s) - 1) : i + 1 \in 1..Len(s)
  BY <1>1
<1>5. 1 \in 1..Len(s)
  BY <1>1
<1>6. ASSUME NEW x \in Range(s) PROVE x = Head(s) \/ x \in Range(Tail(s))
  <2>1. PICK i \in 1..Len(s) : x = s[i]
    BY <1>1 DEF Range
  <2>. QED
    BY <1>1, <1>3, <2>1, Zenon DEF Range
<1>7. ASSUME NEW x \in Range(Tail(s)) PROVE x \in Range(s)
  <2>1. PICK i \in 1..(Len(s) - 1) : x = Tail(s)[i]
    BY <1>1 DEF Range
  <2>. QED
    BY <1>1, <1>2, <1>4, <2>1 DEF Range
<1>8. Head(s) \in Range(s)
  BY <1>1, <1>5 DEF Range
<1>. QED
  BY <1>1, <1>6, <1>7, <1>8

LEMMA RangeShort == Range(<<>>) = {} /\ \A m : Range(<<m>>) = {m}
BY DEF Range

----------------------------------------------------------------------------
(* Types.                                                                  *)

LEMMA IInvInit == Init => IInv
<1> SUFFICES ASSUME Init PROVE IInv
  OBVIOUS
<1> USE TransportOK DEF Init
<1>1. LinkType
  BY DEF LinkType, Conns, Items
<1>2. RecvInv /\ FreshInv
  BY DEF RecvInv, FreshInv, Conns
<1>3. OkIsOnItsWay
  BY DEF OkIsOnItsWay
<1>4. GrpcInv
  <2>1. Link!Newest = 0 /\ WorkType
    BY DEF Link!Newest, WorkType
  <2>2. SkipInv
    BY DEF SkipInv
  <2>3. OrderInv
    BY <2>1, RangeShort DEF OrderInv, Conns
  <2>. QED
    BY <2>1, <2>2, <2>3 DEF GrpcInv
<1>5. PollInv
  BY DEF PollInv, Link!Newest, Rising, Items
<1>. QED
  BY <1>1, <1>2, <1>3, <1>4, <1>5 DEF IInv

LEMMA LinkTypeNext == LinkType /\ RecvInv /\ [Next]_vars => LinkType'
<1> SUFFICES ASSUME LinkType, RecvInv, [Next]_vars PROVE LinkType'
  OBVIOUS
<1> USE TransportOK DEF LinkType, mainVars, grpcVars, cpVars
<1>1. CASE CPAnswers
  <2>1. PICK k \in 0..MaxBatch : /\ offered + k <= MaxItems /\ offered' = offered + k
                                 /\ via' = via \o [i \in 1..k |-> 0]
    BY <1>1, Zenon DEF CPAnswers
  <2>2. offered' \in 0..MaxItems
    BY <2>1
  <2>3. [i \in 1..k |-> 0] \in Seq(0..MaxConns)
    OBVIOUS
  <2>4. via' \in Seq(0..MaxConns)
    BY <2>1, <2>3
  <2>. QED
    BY <1>1, <2>2, <2>4 DEF CPAnswers
<1>2. ASSUME NEW c \in Conns, CPWrites(c) PROVE LinkType'
  <2>1. offered' \in 0..MaxItems
    BY <1>2 DEF CPWrites
  <2>2. via' \in Seq(0..MaxConns)
    BY <1>2 DEF CPWrites, Conns
  <2>3. inq' \in [Conns -> Seq(0..MaxItems)]
    BY <1>2, <2>1 DEF CPWrites
  <2>. QED
    BY <1>2, <2>1, <2>2, <2>3, Zenon DEF CPWrites
<1>3. ASSUME NEW c \in Conns, CPAcks(c) \/ CPReceives(c) \/ CPCloses(c) PROVE LinkType'
  <2>1. CASE CPAcks(c)
    <3>1. <<NoWork>> \in Seq(0..MaxItems)
      BY DEF NoWork
    <3>. QED
      BY <2>1, <3>1 DEF CPAcks
  <2>2. CASE CPReceives(c)
    <3>1. outq[c] \in Seq(0..MaxItems) /\ outq[c] # <<>> /\ c \in 0..MaxConns
      BY <2>2 DEF CPReceives, Conns
    <3>2. Head(outq[c]) \in 0..MaxItems /\ Tail(outq[c]) \in Seq(0..MaxItems)
      BY <3>1, RangeHeadTail
    <3>3. seen' \in [0..MaxConns -> Seq(0..MaxItems)]
      BY <2>2, <3>1, <3>2 DEF CPReceives
    <3>. QED
      BY <2>2, <3>2, <3>3, Zenon DEF CPReceives
  <2>3. CASE CPCloses(c)
    BY <2>3 DEF CPCloses
  <2>. QED
    BY <1>3, <2>1, <2>2, <2>3, Zenon
<1>4. CASE Shutdown
  BY <1>4 DEF Shutdown
<1>10. ASSUME NEW n \in Items, RunEnds(n) PROVE LinkType'
  <2>1. results' = Append(results, n)
    BY <1>10 DEF RunEnds
  <2>2. results' \in Seq(Items)
    BY <2>1, RangeAppend
  <2>. QED
    BY <1>10, <2>2 DEF RunEnds
<1>5. CASE RecvTasks
  <2> USE DEF AwaitAt, RecvReturns
  <2>1. CASE PollStart \/ GrpcStart \/ GrpcSlept
    BY <2>1, Zenon DEF PollStart, GrpcStart, GrpcSlept
  <2>2. CASE PollFails \/ PollParse
    BY <2>2 DEF PollFails, PollParse
  <2>3. CASE GrpcConnect
    <3>1. conns' \in 0..MaxConns /\ stream' \in 0..conns'
      BY <2>3 DEF GrpcConnect
    <3>2. <<Hello>> \in Seq(0..MaxItems)
      BY DEF Hello
    <3>3. outq' \in [Conns -> Seq(0..MaxItems)]
      BY <2>3, <3>2, Zenon DEF GrpcConnect
    <3>. QED
      BY <2>3, <3>1, <3>3 DEF GrpcConnect
  <2>4. CASE GrpcConnected \/ GrpcConnectFails \/ GrpcClosed
    <3>1. conns' = conns /\ stream' \in {conns, stream, 0}
      BY <2>4 DEF GrpcConnected, GrpcConnectFails, GrpcClosed
    <3>2. mpc' \in {"select", "submit", "send", "drain", "flush", "done"}
      BY <2>4 DEF GrpcConnected, GrpcConnectFails, GrpcClosed
    <3>3. CASE GrpcConnected
      BY <3>1, <3>2, <3>3 DEF GrpcConnected
    <3>4. CASE GrpcConnectFails
      BY <3>1, <3>2, <3>4 DEF GrpcConnectFails
    <3>5. CASE GrpcClosed
      BY <3>1, <3>2, <3>5 DEF GrpcClosed
    <3>. QED
      BY <2>4, <3>3, <3>4, <3>5, Zenon
  <2>5. CASE GrpcMessage
    <3>1. stream \in Conns
      BY <2>5 DEF GrpcMessage, RecvInv, Conns
    <3>2. Tail(inq[stream]) \in Seq(0..MaxItems)
      BY <2>5, <3>1, RangeHeadTail DEF GrpcMessage
    <3>. QED
      BY <2>5, <3>2, Zenon DEF GrpcMessage
  <2>. QED
    BY <1>5, <2>1, <2>2, <2>3, <2>4, <2>5, Zenon DEF RecvTasks
<1>6. CASE SelectShutdown \/ SelectResult \/ Drain
  <2>1. ASSUME results # <<>> PROVE Head(results) \in 0..MaxItems /\ Tail(results) \in Seq(Items)
    BY <2>1, RangeHeadTail DEF Items
  <2>. QED
    BY <1>6, <2>1, Zenon DEF SelectShutdown, SelectResult, Drain, DropRecv
<1>7. CASE Submit
  BY <1>7 DEF Submit
<1>8. CASE SendResult
  <2> USE DEF SendReturns
  <2>1. CASE Post
    <3>0. Append(seen[0], sending) \in Seq(0..MaxItems)
      BY RangeAppend
    <3>1. seen' \in [0..MaxConns -> Seq(0..MaxItems)]
      BY <2>1, <3>0, Zenon DEF Post
    <3>2. sending' = 0 /\ mpc' \in {"select", "drain"}
      BY <2>1 DEF Post
    <3>. QED
      BY <2>1, <3>1, <3>2 DEF Post
  <2>2. CASE SendUnconnected \/ SendClosed
    BY <2>2 DEF SendUnconnected, SendClosed
  <2>3. CASE SendQueued
    <3>1. tx \in Conns
      BY <2>3 DEF SendQueued, RecvInv, Conns
    <3>2. Append(outq[tx], sending) \in Seq(0..MaxItems)
      BY <3>1
    <3>3. outq' \in [Conns -> Seq(0..MaxItems)]
      BY <2>3, <3>2, Zenon DEF SendQueued
    <3>. QED
      BY <2>3, <3>3 DEF SendQueued
  <2>. QED
    BY <1>8, <2>1, <2>2, <2>3, Zenon DEF SendResult
<1>9. CASE UNCHANGED vars
  BY <1>9 DEF vars
<1>. QED
  BY <1>1, <1>2, <1>3, <1>4, <1>5, <1>6, <1>7, <1>8, <1>9, <1>10, Zenon DEF Next, Main, ControlPlane,
     Stopped

----------------------------------------------------------------------------
(* recv_tasks and its connections.                                         *)

LEMMA RecvNext == LinkType /\ RecvInv /\ [Next]_vars => RecvInv'
<1> SUFFICES ASSUME LinkType, RecvInv, [Next]_vars PROVE RecvInv'
  OBVIOUS
<1> USE DEF LinkType, RecvInv, mainVars, grpcVars, cpVars
<1>1. CASE ControlPlane
  BY <1>1 DEF ControlPlane, CPAnswers, CPWrites, CPAcks, CPReceives, CPCloses
<1>2. CASE Shutdown \/ \E n \in Items : RunEnds(n)
  BY <1>2 DEF Shutdown, RunEnds
<1>3. CASE RecvTasks
  <2> USE DEF AwaitAt, RecvReturns, Polled
  <2>1. CASE PollStart \/ PollFails \/ PollParse
    BY <2>1 DEF PollStart, PollFails, PollParse
  <2>2. CASE GrpcStart \/ GrpcSlept \/ GrpcMessage \/ GrpcClosed
    BY <2>2 DEF GrpcStart, GrpcSlept, GrpcMessage, GrpcClosed
  <2>3. CASE GrpcConnect \/ GrpcConnected \/ GrpcConnectFails
    BY <2>3 DEF GrpcConnect, GrpcConnected, GrpcConnectFails
  <2>. QED
    BY <1>3, <2>1, <2>2, <2>3 DEF RecvTasks
<1>4. CASE SelectShutdown \/ SelectResult \/ Submit \/ Drain
  BY <1>4 DEF SelectShutdown, SelectResult, Submit, Drain, DropRecv
<1>5. CASE SendResult
  BY <1>5 DEF SendResult, Post, SendUnconnected, SendQueued, SendClosed, SendReturns
<1>6. CASE UNCHANGED vars
  BY <1>6 DEF vars
<1>. QED
  BY <1>1, <1>2, <1>3, <1>4, <1>5, <1>6 DEF Next, Main, Stopped

LEMMA FreshNext == LinkType /\ RecvInv /\ FreshInv /\ [Next]_vars => FreshInv'
<1> SUFFICES ASSUME LinkType, RecvInv, FreshInv, [Next]_vars PROVE FreshInv'
  OBVIOUS
<1>t. /\ conns \in Nat /\ stream \in 0..conns /\ offered \in Nat /\ Conns \subseteq Nat
      /\ via \in Seq(0..MaxConns) /\ Conns \subseteq 0..MaxConns
      /\ outq \in [Conns -> Seq(0..MaxItems)] /\ inq \in [Conns -> Seq(0..MaxItems)]
  BY TransportOK DEF LinkType, Conns
<1>f. /\ Len(via) = offered
      /\ \A n \in 1..offered : via[n] <= conns /\ via[n] \in Nat
      /\ \A c \in Conns : c > conns => outq[c] = <<>> /\ inq[c] = <<>>
  BY <1>t, TransportOK DEF FreshInv
<1>0. ASSUME UNCHANGED <<offered, via>>, conns' \in {conns, conns + 1},
             \A c \in Conns : c > conns' => outq'[c] = outq[c] /\ inq'[c] = inq[c]
      PROVE  FreshInv'
  <2>1. \A n \in 1..offered : via[n] <= conns'
    BY <1>0, <1>f, <1>t
  <2>2. \A c \in Conns : c > conns' => c > conns
    BY <1>0, <1>t
  <2>. QED
    BY <1>0, <1>f, <2>1, <2>2 DEF FreshInv
<1>1. CASE CPAnswers
  <2>1. PICK k \in 0..MaxBatch : offered' = offered + k /\ via' = via \o [i \in 1..k |-> 0]
    BY <1>1, Zenon DEF CPAnswers
  <2> DEFINE polled == [i \in 1..k |-> 0]
  <2>2. UNCHANGED <<conns, outq, inq>>
    BY <1>1 DEF CPAnswers, grpcVars
  <2>3. /\ k \in Nat /\ polled \in Seq(0..MaxConns) /\ Len(polled) = k
        /\ \A i \in 1..k : polled[i] = 0
    BY TransportOK
  <2>6. via' = via \o polled
    BY <2>1
  <2> HIDE DEF polled
  <2>4. Len(via') = offered'
    BY <1>t, <1>f, <2>1, <2>3, <2>6, ConcatProperties, Zenon
  <2>5. ASSUME NEW n \in 1..offered' PROVE via'[n] <= conns
    <3>1. CASE n \in 1..offered
      BY <1>t, <1>f, <2>1, <2>3, <2>6, <3>1, ConcatProperties
    <3>2. CASE n \notin 1..offered
      <4>1. n - offered \in 1..k /\ via'[n] = polled[n - offered]
        BY <1>t, <1>f, <2>1, <2>3, <2>6, <3>2, ConcatProperties
      <4>. QED
        BY <1>t, <2>3, <4>1
    <3>. QED
      BY <3>1, <3>2
  <2>. QED
    BY <1>f, <2>2, <2>4, <2>5 DEF FreshInv
<1>2. ASSUME NEW c \in Conns, CPWrites(c) PROVE FreshInv'
  <2>1. /\ c <= conns /\ offered' = offered + 1 /\ via' = Append(via, c)
        /\ UNCHANGED <<conns, outq>>
        /\ \A d \in Conns : d # c => inq'[d] = inq[d]
    BY <1>2, <1>t DEF CPWrites, Open, grpcVars
  <2>2. Len(via') = offered'
    BY <1>t, <1>f, <2>1
  <2>3. ASSUME NEW n \in 1..offered' PROVE via'[n] <= conns
    BY <1>t, <1>f, <2>1
  <2>4. \A d \in Conns : d > conns => d # c
    BY <1>t, <2>1
  <2>. QED
    BY <1>f, <2>1, <2>2, <2>3, <2>4 DEF FreshInv
<1>3. ASSUME NEW c \in Conns, CPAcks(c) \/ CPReceives(c) \/ CPCloses(c) PROVE FreshInv'
  <2>1. /\ c <= conns /\ UNCHANGED <<offered, via, conns>>
        /\ \A d \in Conns : d # c => inq'[d] = inq[d] /\ outq'[d] = outq[d]
    BY <1>3, <1>t DEF CPAcks, CPReceives, CPCloses, Open, grpcVars
  <2>2. \A d \in Conns : d > conns => d # c
    BY <1>t, <2>1
  <2>. QED
    BY <1>0, <2>1, <2>2
<1>4. CASE GrpcConnect
  <2>1. /\ conns' = conns + 1 /\ UNCHANGED <<offered, via, inq>>
        /\ \A d \in Conns : d # conns' => outq'[d] = outq[d]
    BY <1>4, <1>t DEF GrpcConnect, cpVars
  <2>2. \A d \in Conns : d > conns' => d # conns'
    BY <1>t, <2>1
  <2>. QED
    BY <1>0, <2>1, <2>2
<1>5. CASE GrpcMessage
  <2>1. /\ UNCHANGED <<offered, via, conns, outq>>
        /\ \A d \in Conns : d # stream => inq'[d] = inq[d]
    BY <1>5, <1>t DEF GrpcMessage, grpcVars
  <2>2. \A d \in Conns : d > conns => d # stream
    BY <1>t
  <2>. QED
    BY <1>0, <2>1, <2>2
<1>6. CASE SendQueued
  <2>1. /\ UNCHANGED <<offered, via, conns, inq>>
        /\ \A d \in Conns : d # stream => outq'[d] = outq[d]
    BY <1>6, <1>t DEF SendQueued, cpVars, RecvInv
  <2>2. \A d \in Conns : d > conns => d # stream
    BY <1>t
  <2>. QED
    BY <1>0, <2>1, <2>2
<1>7. CASE \/ Shutdown \/ SelectShutdown \/ SelectResult \/ Submit \/ Drain \/ UNCHANGED vars
           \/ \E n \in Items : RunEnds(n)
  BY <1>0, <1>7 DEF Shutdown, SelectShutdown, SelectResult, Submit, Drain, RunEnds, DropRecv,
     vars, grpcVars, cpVars
<1>8. CASE Post \/ SendUnconnected \/ SendClosed
  BY <1>0, <1>8, Zenon DEF Post, SendUnconnected, SendClosed, grpcVars, cpVars
<1>9. CASE \/ PollStart \/ PollFails \/ PollParse \/ GrpcStart \/ GrpcConnected
           \/ GrpcConnectFails \/ GrpcSlept \/ GrpcClosed
  BY <1>0, <1>9, Zenon DEF PollStart, PollFails, PollParse, GrpcStart, GrpcConnected,
     GrpcConnectFails, GrpcSlept, GrpcClosed, grpcVars, cpVars
<1>. QED
  BY <1>1, <1>2, <1>3, <1>4, <1>5, <1>6, <1>7, <1>8, <1>9
  DEF Next, Main, RecvTasks, SendResult, ControlPlane, Stopped

----------------------------------------------------------------------------
(* Results.                                                                *)

LEMMA OkNext == LinkType /\ RecvInv /\ FreshInv /\ OkIsOnItsWay /\ [Next]_vars => OkIsOnItsWay'
<1> SUFFICES ASSUME LinkType, RecvInv, FreshInv, OkIsOnItsWay, [Next]_vars
             PROVE  OkIsOnItsWay'
  OBVIOUS
<1>t. /\ conns \in 0..MaxConns /\ stream \in 0..conns /\ Conns \subseteq Nat \ {0}
      /\ Conns \subseteq 0..MaxConns /\ tx = stream /\ sending \in 0..MaxItems
      /\ outq \in [Conns -> Seq(0..MaxItems)]
      /\ seen \in [0..MaxConns -> Seq(0..MaxItems)]
      /\ life \in [Conns -> {"open", "ended", "error"}]
  BY TransportOK DEF LinkType, RecvInv, Conns
<1>0. ASSUME UNCHANGED <<oks, seen, outq>>, tx' = tx \/ tx = 0 \/ life[tx] # "open",
             \A c \in Conns : life[c] # "open" => life'[c] # "open"
      PROVE  OkIsOnItsWay'
  BY <1>0, <1>t DEF OkIsOnItsWay
<1>1. CASE CPAnswers \/ Shutdown \/ (\E n \in Items : RunEnds(n)) \/ UNCHANGED vars
  BY <1>0, <1>1 DEF CPAnswers, Shutdown, RunEnds, vars, mainVars, grpcVars, cpVars
<1>2. ASSUME NEW c \in Conns, CPWrites(c) \/ CPAcks(c) PROVE OkIsOnItsWay'
  BY <1>0, <1>2, Zenon DEF CPWrites, CPAcks, mainVars, grpcVars
<1>3. ASSUME NEW c \in Conns, CPCloses(c) PROVE OkIsOnItsWay'
  <2>1. PICK how \in {"ended", "error"} : life' = [life EXCEPT ![c] = how]
    BY <1>3, Zenon DEF CPCloses
  <2>2. \A d \in Conns : life[d] # "open" => life'[d] # "open"
    BY <1>t, <2>1
  <2>. QED
    BY <1>0, <1>3, <2>2 DEF CPCloses, mainVars, grpcVars
<1>4. ASSUME NEW c \in Conns, CPReceives(c) PROVE OkIsOnItsWay'
  <2>1. /\ UNCHANGED <<oks, tx, life>>
        /\ outq[c] # <<>>
        /\ seen'[c] = Append(seen[c], Head(outq[c])) /\ outq'[c] = Tail(outq[c])
        /\ \A d \in 0..MaxConns : d # c => seen'[d] = seen[d]
        /\ \A d \in Conns : d # c => outq'[d] = outq[d]
    BY <1>4, <1>t DEF CPReceives, mainVars
  <2>2. Range(outq[c]) = {Head(outq[c])} \cup Range(outq'[c]) /\ Head(outq[c]) \in 0..MaxItems
    BY <1>t, <2>1, RangeHeadTail, Zenon
  <2>3. Range(seen'[c]) = Range(seen[c]) \cup {Head(outq[c])}
    <3>1. seen[c] \in Seq(0..MaxItems)
      BY <1>t
    <3>. QED
      BY <2>1, <2>2, <3>1, MsgAppend
  <2>4. \A d \in 0..MaxConns : Range(seen[d]) \subseteq Range(seen'[d])
    BY <2>1, <2>3, Zenon
  <2>5. \A d \in Conns : Range(outq[d]) \subseteq Range(outq'[d]) \cup Range(seen'[c])
    BY <2>1, <2>2, <2>3
  <2>. QED
    BY <1>t, <2>1, <2>4, <2>5, Zenon DEF OkIsOnItsWay
<1>5. CASE GrpcConnect
  <2>1. /\ UNCHANGED <<oks, seen, tx, life>>
        /\ \A d \in Conns : d # conns' => outq'[d] = outq[d]
    BY <1>5, <1>t DEF GrpcConnect, AwaitAt, cpVars
  <2>2. conns' \in Conns /\ conns' > conns
    BY <1>5, TransportOK DEF GrpcConnect, LinkType, Conns
  <2>3. Range(outq[conns']) = {}
    BY <2>2, RangeShort DEF FreshInv
  <2>. QED
    BY <2>1, <2>3 DEF OkIsOnItsWay
<1>6. CASE GrpcConnected \/ GrpcClosed
  BY <1>0, <1>6 DEF GrpcConnected, GrpcClosed, AwaitAt, RecvReturns, RecvInv, cpVars
<1>7. CASE PollStart \/ PollFails \/ PollParse \/ GrpcStart
  BY <1>0, <1>7 DEF PollStart, PollFails, PollParse, GrpcStart, AwaitAt, RecvReturns,
     grpcVars, cpVars
<1>8. CASE GrpcConnectFails \/ GrpcSlept \/ GrpcMessage
  BY <1>0, <1>8 DEF GrpcConnectFails, GrpcSlept, GrpcMessage, AwaitAt, RecvReturns,
     grpcVars, cpVars
<1>9. CASE SelectShutdown \/ SelectResult \/ Submit \/ Drain
  BY <1>0, <1>9 DEF SelectShutdown, SelectResult, Submit, Drain, DropRecv, grpcVars, cpVars
<1>10. CASE SendUnconnected \/ SendClosed
  BY <1>0, <1>10 DEF SendUnconnected, SendClosed, SendReturns, grpcVars, cpVars
<1>11. CASE Post
  <2>1. UNCHANGED <<tx, outq, life>>
    BY <1>11 DEF Post, grpcVars
  <2>2. CASE seen' = [seen EXCEPT ![0] = Append(@, sending)] /\ oks' \subseteq oks \cup {sending}
    <3>3. 0 \in 0..MaxConns
      BY TransportOK
    <3>0. /\ seen[0] \in Seq(0..MaxItems) /\ seen'[0] = Append(seen[0], sending)
          /\ \A d \in 0..MaxConns : d # 0 => seen'[d] = seen[d]
      BY <1>t, <2>2, <3>3
    <3>1. Range(seen'[0]) = Range(seen[0]) \cup {sending}
      BY <1>t, <3>0, MsgAppend
    <3>2. \A d \in 0..MaxConns : Range(seen[d]) \subseteq Range(seen'[d])
      BY <3>0, <3>1, Zenon
    <3>. QED
      BY <2>1, <2>2, <3>1, <3>2, <3>3 DEF OkIsOnItsWay
  <2>3. CASE seen' = seen /\ oks' = oks
    BY <1>0, <2>1, <2>3
  <2>. QED
    BY <1>11, <2>2, <2>3 DEF Post, SendReturns
<1>12. CASE SendQueued
  <2>0. tx \in Conns
    BY <1>12, TransportOK DEF SendQueued, LinkType, RecvInv, Conns
  <2>1. /\ UNCHANGED <<tx, seen, life>> /\ outq[tx] \in Seq(0..MaxItems)
        /\ oks' = oks \cup {sending}
        /\ outq'[tx] = Append(outq[tx], sending)
        /\ \A d \in Conns : d # tx => outq'[d] = outq[d]
    BY <1>12, <1>t, <2>0 DEF SendQueued, SendReturns, cpVars
  <2>2. Range(outq'[tx]) = Range(outq[tx]) \cup {sending}
    BY <1>t, <2>1, MsgAppend
  <2>. QED
    BY <2>0, <2>1, <2>2, Zenon DEF OkIsOnItsWay
<1>. QED
  BY <1>1, <1>2, <1>3, <1>4, <1>5, <1>6, <1>7, <1>8, <1>9, <1>10, <1>11, <1>12
  DEF Next, Main, RecvTasks, SendResult, ControlPlane, Stopped

----------------------------------------------------------------------------
(* The work of a stream.                                                   *)

\* Steps that leave the work, the offers and the inbound messages alone, and
\* make no other connection live.
LEMMA GrpcQuiet ==
  ASSUME GrpcInv, UNCHANGED <<offered, via, inq, work, taken>>,
         mpc' = "submit" <=> mpc = "submit",
         \A c \in Conns : Live(c)' => Live(c)
  PROVE  GrpcInv'
<1>1. WorkType'
  BY DEF GrpcInv, WorkType
<1>2. SkipInv'
  BY DEF GrpcInv, SkipInv
<1>3. OrderInv'
  <2>1. Link!Newest' = Link!Newest
    BY DEF Link!Newest
  <2>. QED
    BY <2>1 DEF GrpcInv, OrderInv
<1>. QED
  BY <1>1, <1>2, <1>3 DEF GrpcInv

LEMMA NewestType ==
  ASSUME taken \in Seq(Items)
  PROVE  Link!Newest \in Nat
<1>1. Items \subseteq Nat
  BY TransportOK DEF Items
<1>2. taken # <<>> => taken[Len(taken)] \in Items
  OBVIOUS
<1>. QED
  BY <1>1, <1>2, Zenon DEF Link!Newest

\* A push is the newest offer, at the end of its connection.
LEMMA GrpcWrites ==
  ASSUME LinkType, FreshInv, GrpcInv, NEW c \in Conns, CPWrites(c)
  PROVE  GrpcInv'
<1>t. /\ offered \in Nat /\ via \in Seq(0..MaxConns) /\ Conns \subseteq 0..MaxConns
      /\ inq \in [Conns -> Seq(0..MaxItems)] /\ Len(via) = offered
  BY TransportOK DEF LinkType, Conns, FreshInv
<1>1. /\ offered' = offered + 1 /\ offered' \in 0..MaxItems /\ via' = Append(via, c)
      /\ inq'[c] = Append(inq[c], offered')
      /\ \A d \in Conns : d # c => inq'[d] = inq[d]
      /\ UNCHANGED <<work, taken, mpc, rpc, stream, conns>>
  <2>1. offered' = offered + 1 /\ offered' \in 0..MaxItems
    BY TransportOK DEF CPWrites, LinkType
  <2>. QED
    BY <1>t, <2>1 DEF CPWrites, mainVars, grpcVars
<1>2. Link!Newest' = Link!Newest /\ \A d : Live(d)' <=> Live(d)
  BY <1>1 DEF Link!Newest, Live
<1>3. WorkType'
  BY <1>1 DEF GrpcInv, WorkType
<1>4. SkipInv'
  <2>1. Range(inq'[c]) = Range(inq[c]) \cup {offered'}
    BY <1>t, <1>1, MsgAppend
  <2>2. \A n \in 1..offered : via'[n] = via[n]
    BY <1>t, <1>1
  <2>3. via'[offered'] = c /\ \A n \in 1..offered' : n \in 1..offered \/ n = offered'
    BY <1>t, <1>1
  <2> SUFFICES ASSUME NEW d \in Conns, Live(d), NEW n \in 1..offered', via'[n] = d
               PROVE  n \in Range(inq'[d]) \cup Range(work) \cup Range(taken)
    BY <1>1, <1>2, Zenon DEF SkipInv
  <2>4. CASE n = offered'
    BY <2>1, <2>3, <2>4
  <2>5. CASE n \in 1..offered
    <3>1. n \in Range(inq[d]) \cup Range(work) \cup Range(taken)
      BY <2>2, <2>5 DEF GrpcInv, SkipInv
    <3>. QED
      BY <1>1, <2>1, <3>1, Zenon
  <2>. QED
    BY <2>3, <2>4, <2>5
<1>5. OrderInv'
  <2>w. WorkType
    BY DEF GrpcInv
  <2>n. /\ Link!Newest <= offered /\ Link!Newest \in Nat
        /\ \A m \in Range(work) : m \in (Link!Newest + 1)..offered
    <3>1. Link!Newest \in Nat
      BY <2>w, NewestType DEF WorkType
    <3>. QED
      BY <3>1, Zenon DEF GrpcInv, OrderInv
  <2>o. offered \in Nat /\ offered' = offered + 1
    BY <1>t, <1>1, Zenon
  <2>1. \A m \in Range(work) : m \in (Link!Newest + 1)..offered'
    BY <2>o, <2>n
  <2>a. /\ offered + 1 \in (Link!Newest + 1)..offered'
        /\ \A m \in Range(work) : m < offered + 1
    BY <2>o, <2>n
  <2>2. ASSUME NEW d \in Conns, Live(d)
        PROVE  /\ \A i \in DOMAIN inq'[d] : inq'[d][i] # NoWork =>
                    /\ inq'[d][i] \in (Link!Newest + 1)..offered'
                    /\ \A m \in Range(work) : m < inq'[d][i]
               /\ \A i, j \in DOMAIN inq'[d] :
                    i < j /\ inq'[d][i] # NoWork /\ inq'[d][j] # NoWork =>
                      inq'[d][i] < inq'[d][j]
    <3>1. /\ \A i \in DOMAIN inq[d] : inq[d][i] # NoWork =>
               /\ inq[d][i] \in (Link!Newest + 1)..offered
               /\ \A m \in Range(work) : m < inq[d][i]
          /\ \A i, j \in DOMAIN inq[d] :
               i < j /\ inq[d][i] # NoWork /\ inq[d][j] # NoWork => inq[d][i] < inq[d][j]
      BY <2>2, Zenon DEF GrpcInv, OrderInv
    <3>2. CASE d # c
      <4>1. inq'[d] = inq[d]
        BY <1>1, <3>2
      <4>2. (Link!Newest + 1)..offered \subseteq (Link!Newest + 1)..offered'
        BY <2>o, <2>n
      <4>. QED
        BY <3>1, <4>1, <4>2, Zenon
    <3>3. CASE d = c
      <4>1. /\ Len(inq[c]) \in Nat /\ DOMAIN inq[c] = 1..Len(inq[c])
            /\ DOMAIN inq'[c] = 1..(Len(inq[c]) + 1)
            /\ \A i \in 1..Len(inq[c]) : inq'[c][i] = inq[c][i]
            /\ inq'[c][Len(inq[c]) + 1] = offered + 1
        <5>1. inq[c] \in Seq(0..MaxItems)
          BY <1>t
        <5>2. inq'[c] = Append(inq[c], offered + 1) /\ offered + 1 \in 0..MaxItems
          BY <1>1, Zenon
        <5>3. /\ Len(inq[c]) \in Nat /\ DOMAIN inq[c] = 1..Len(inq[c])
              /\ DOMAIN Append(inq[c], offered + 1) = 1..(Len(inq[c]) + 1)
              /\ \A i \in 1..Len(inq[c]) : Append(inq[c], offered + 1)[i] = inq[c][i]
              /\ Append(inq[c], offered + 1)[Len(inq[c]) + 1] = offered + 1
          BY <5>1, <5>2, AppendAt, Zenon
        <5>. QED
          BY <5>2, <5>3, Zenon
      <4>d. \A i \in DOMAIN inq'[c] : i \in 1..Len(inq[c]) \/ i = Len(inq[c]) + 1
        BY <4>1, UpTo, Zenon
      <4>2. ASSUME NEW i \in DOMAIN inq'[c], inq'[c][i] # NoWork
            PROVE  /\ inq'[c][i] \in (Link!Newest + 1)..offered'
                   /\ \A m \in Range(work) : m < inq'[c][i]
        <5>1. CASE i \in 1..Len(inq[c])
          <6>1. (Link!Newest + 1)..offered \subseteq (Link!Newest + 1)..offered'
            BY <2>o, <2>n
          <6>2. i \in DOMAIN inq[d] /\ inq'[c][i] = inq[d][i]
            BY <3>3, <4>1, <5>1
          <6>3. inq[d][i] # NoWork
            BY <4>2, <6>2
          <6>4. /\ inq[d][i] \in (Link!Newest + 1)..offered
                /\ \A m \in Range(work) : m < inq[d][i]
            BY <3>1, <6>2, <6>3, Zenon
          <6>. QED
            BY <6>1, <6>2, <6>4, Zenon
        <5>2. CASE i = Len(inq[c]) + 1
          <6>1. inq'[c][i] = offered + 1
            BY <4>1, <5>2
          <6>. QED
            BY <2>a, <6>1
        <5>. QED
          BY <4>d, <4>2, <5>1, <5>2, Zenon
      <4>3. ASSUME NEW i \in DOMAIN inq'[c], NEW j \in DOMAIN inq'[c], i < j,
                   inq'[c][i] # NoWork, inq'[c][j] # NoWork
            PROVE  inq'[c][i] < inq'[c][j]
        <5>0. i \in 1..Len(inq[c])
          BY <4>1, <4>3
        <5>1. CASE j \in 1..Len(inq[c])
          <6>1. /\ i \in DOMAIN inq[d] /\ inq'[c][i] = inq[d][i]
                /\ j \in DOMAIN inq[d] /\ inq'[c][j] = inq[d][j]
            BY <3>3, <4>1, <5>0, <5>1, Zenon
          <6>. QED
            BY <3>1, <4>3, <6>1, Zenon
        <5>2. CASE j = Len(inq[c]) + 1
          <6>1. inq[c][i] \in (Link!Newest + 1)..offered
            BY <3>1, <3>3, <4>1, <4>3, <5>0
          <6>2. inq'[c][i] = inq[c][i] /\ inq'[c][j] = offered + 1
            BY <4>1, <5>0, <5>2, Zenon
          <6>. QED
            BY <2>o, <2>n, <6>1, <6>2
        <5>. QED
          BY <4>d, <4>3, <5>1, <5>2, Zenon
      <4>. QED
        BY <3>3, <4>2, <4>3, Zenon
    <3>. QED
      BY <3>2, <3>3
  <2>3. Link!Newest <= offered'
    BY <1>t, <1>1, <2>n
  <2>. QED
    BY <1>1, <1>2, <2>1, <2>2, <2>3, Zenon DEF OrderInv
<1>. QED
  BY <1>3, <1>4, <1>5 DEF GrpcInv

\* Only the acknowledgement of hello is put on an empty connection.
LEMMA GrpcAcks ==
  ASSUME LinkType, GrpcInv, NEW c \in Conns, CPAcks(c)
  PROVE  GrpcInv'
<1>1. /\ inq[c] = <<>> /\ inq'[c] = <<NoWork>>
      /\ \A d \in Conns : d # c => inq'[d] = inq[d]
      /\ UNCHANGED <<offered, via, work, taken, mpc, rpc, stream, conns>>
  BY DEF CPAcks, LinkType, mainVars, grpcVars
<1>2. Link!Newest' = Link!Newest /\ \A d : Live(d)' <=> Live(d)
  BY <1>1 DEF Link!Newest, Live
<1>3. WorkType'
  BY <1>1 DEF GrpcInv, WorkType
<1>4. SkipInv'
  <2>1. \A d \in Conns : Range(inq[d]) \subseteq Range(inq'[d])
    BY <1>1, RangeShort
  <2>. QED
    BY <1>1, <1>2, <2>1 DEF GrpcInv, SkipInv
<1>5. OrderInv'
  <2>1. \A i \in DOMAIN inq'[c] : i = 1 /\ inq'[c][i] = NoWork
    BY <1>1
  <2>2. ASSUME NEW d \in Conns, Live(d)
        PROVE  /\ \A i \in DOMAIN inq'[d] : inq'[d][i] # NoWork =>
                    /\ inq'[d][i] \in (Link!Newest + 1)..offered
                    /\ \A m \in Range(work) : m < inq'[d][i]
               /\ \A i, j \in DOMAIN inq'[d] :
                    i < j /\ inq'[d][i] # NoWork /\ inq'[d][j] # NoWork =>
                      inq'[d][i] < inq'[d][j]
    <3>1. CASE d = c
      BY <2>1, <3>1, Zenon
    <3>2. CASE d # c
      <4>1. inq'[d] = inq[d]
        BY <1>1, <3>2
      <4>. QED
        BY <2>2, <4>1 DEF GrpcInv, OrderInv
    <3>. QED
      BY <3>1, <3>2, Zenon
  <2>. QED
    BY <1>1, <1>2, <2>2, Zenon DEF GrpcInv, OrderInv
<1>. QED
  BY <1>3, <1>4, <1>5 DEF GrpcInv

\* A new connection is empty, and nothing was written to it.
LEMMA GrpcConnects ==
  ASSUME LinkType, RecvInv, FreshInv, GrpcInv, GrpcConnect
  PROVE  GrpcInv'
<1>1. /\ UNCHANGED <<offered, via, inq, work, taken, mpc, stream>>
      /\ stream = 0 /\ rpc' = "open"
  BY DEF GrpcConnect, AwaitAt, RecvInv, cpVars
<1>2. /\ conns \in Nat /\ conns' = conns + 1 /\ conns' \in Conns /\ 0 \notin Conns
      /\ offered \in Nat
  BY TransportOK DEF GrpcConnect, LinkType, Conns
<1>3. \A d \in Conns : Live(d)' => d = conns'
  BY <1>1, <1>2 DEF Live
<1>4. inq[conns'] = <<>>
  BY <1>2 DEF FreshInv
<1>5. \A n \in 1..offered : via[n] # conns'
  <2>1. via \in Seq(0..MaxConns) /\ Len(via) = offered
    BY DEF LinkType, FreshInv
  <2>2. \A n \in 1..offered : via[n] \in Nat
    BY <1>2, <2>1, TransportOK
  <2>. QED
    BY <1>2, <2>2 DEF FreshInv
<1>6. Link!Newest' = Link!Newest /\ WorkType'
  BY <1>1 DEF GrpcInv, WorkType, Link!Newest
<1>7. SkipInv'
  BY <1>1, <1>3, <1>5 DEF SkipInv
<1>8. OrderInv'
  <2>1. (Link!Newest <= offered)' /\ (\A m \in Range(work) : m \in (Link!Newest + 1)..offered)'
    BY <1>1, <1>6 DEF GrpcInv, OrderInv
  <2>2. DOMAIN inq[conns'] = {}
    BY <1>4
  <2>3. \A d \in Conns : Live(d)' => DOMAIN inq'[d] = {}
    BY <1>1, <1>3, <2>2
  <2>. QED
    BY <2>1, <2>3, Zenon DEF OrderInv
<1>. QED
  BY <1>6, <1>7, <1>8 DEF GrpcInv

\* The message that is read goes to the main loop, and is below the rest.
LEMMA GrpcReads ==
  ASSUME LinkType, RecvInv, GrpcInv, GrpcMessage
  PROVE  GrpcInv'
<1> DEFINE q == inq[stream]
<1>1. /\ stream \in Conns /\ q \in Seq(0..MaxItems) /\ q # <<>>
      /\ mpc = "select" /\ rpc = "read" /\ rpc' = "none"
  BY TransportOK DEF GrpcMessage, LinkType, RecvInv, Conns, RecvReturns
<1>2. /\ inq'[stream] = Tail(q)
      /\ UNCHANGED <<offered, via, taken, stream, conns>>
  BY <1>1 DEF GrpcMessage, LinkType, grpcVars
<1>3. \A d \in Conns : Live(d)' => d = stream
  BY <1>1, <1>2 DEF Live
<1>4. Live(stream) /\ Link!Newest' = Link!Newest
  BY <1>2 DEF Live, Link!Newest
<1>5. work = <<>>
  BY <1>1 DEF GrpcInv, WorkType
<1>6. IF Head(q) = NoWork THEN work' = <<>> /\ mpc' = "select"
                          ELSE work' = <<Head(q)>> /\ mpc' = "submit"
  BY DEF GrpcMessage, RecvReturns
<1>7. /\ Len(q) \in Nat \ {0} /\ DOMAIN q = 1..Len(q) /\ Head(q) = q[1] /\ 1 \in DOMAIN q
      /\ DOMAIN Tail(q) = 1..(Len(q) - 1) /\ \A i \in 1..(Len(q) - 1) : Tail(q)[i] = q[i + 1]
      /\ Head(q) \in 0..MaxItems /\ Range(q) = {Head(q)} \cup Range(Tail(q))
  <2> HIDE DEF q
  <2>1. /\ Len(q) \in Nat \ {0} /\ DOMAIN q = 1..Len(q) /\ Head(q) = q[1] /\ 1 \in DOMAIN q
        /\ DOMAIN Tail(q) = 1..(Len(q) - 1)
    BY <1>1
  <2>2. \A i \in 1..(Len(q) - 1) : Tail(q)[i] = q[i + 1]
    BY <1>1
  <2>. QED
    BY <1>1, <2>1, <2>2, RangeHeadTail, Zenon
<1>w. Range(work) = {} /\ Range(work') = IF Head(q) = NoWork THEN {} ELSE {Head(q)}
  BY <1>5, <1>6, RangeShort
<1>8. WorkType'
  <2>1. Head(q) # NoWork => Head(q) \in Items
    BY <1>7, TransportOK DEF NoWork, Items
  <2>. QED
    BY <1>2, <1>6, <2>1 DEF GrpcInv, WorkType
<1>9. SkipInv'
  <2> SUFFICES ASSUME NEW n \in 1..offered, via[n] = stream
               PROVE  n \in Range(Tail(q)) \cup Range(work') \cup Range(taken)
    BY <1>2, <1>3 DEF SkipInv
  <2>1. n \in Range(q) \cup Range(taken)
    BY <1>1, <1>4, <1>w DEF GrpcInv, SkipInv
  <2>2. n # NoWork
    BY DEF NoWork
  <2>. QED
    BY <1>7, <1>w, <2>1, <2>2
<1>10. OrderInv'
  <2>1. /\ \A i \in DOMAIN q : q[i] # NoWork => q[i] \in (Link!Newest + 1)..offered
        /\ \A i, j \in DOMAIN q : i < j /\ q[i] # NoWork /\ q[j] # NoWork => q[i] < q[j]
        /\ Link!Newest <= offered
    BY <1>1, <1>4 DEF GrpcInv, OrderInv
  <2>2. \A m \in Range(work') : m = q[1] /\ m # NoWork
    BY <1>7, <1>w
  <2>3. \A i \in 1..(Len(q) - 1) : i + 1 \in DOMAIN q /\ 1 < i + 1
    BY <1>7
  <2>4. ASSUME NEW i \in DOMAIN Tail(q), Tail(q)[i] # NoWork
        PROVE  /\ Tail(q)[i] \in (Link!Newest + 1)..offered
               /\ \A m \in Range(work') : m < Tail(q)[i]
    BY <1>7, <2>1, <2>2, <2>3, <2>4
  <2>5. ASSUME NEW i \in DOMAIN Tail(q), NEW j \in DOMAIN Tail(q), i < j,
               Tail(q)[i] # NoWork, Tail(q)[j] # NoWork
        PROVE  Tail(q)[i] < Tail(q)[j]
    <3>1. i \in 1..(Len(q) - 1) /\ j \in 1..(Len(q) - 1)
      BY <1>7, <2>5, Zenon
    <3>2. i + 1 < j + 1
      <4>0. Len(q) \in Nat
        BY <1>7, Zenon
      <4>1. i \in Nat /\ j \in Nat
        BY <3>1, <4>0
      <4>2. i < j
        BY <2>5
      <4>. QED
        BY <4>1, <4>2
    <3>3. i + 1 \in DOMAIN q /\ j + 1 \in DOMAIN q
      BY <2>3, <3>1
    <3>4. Tail(q)[i] = q[i + 1] /\ Tail(q)[j] = q[j + 1]
      BY <1>7, <3>1
    <3>. QED
      BY <2>1, <2>5, <3>2, <3>3, <3>4, Zenon
  <2>6. \A m \in Range(work') : m \in (Link!Newest + 1)..offered
    BY <1>7, <2>1, <2>2
  <2>. QED
    BY <1>2, <1>3, <1>4, <2>1, <2>4, <2>5, <2>6, Zenon DEF OrderInv
<1>. QED
  BY <1>8, <1>9, <1>10 DEF GrpcInv

\* What is submitted is above all that was submitted before, and below what is
\* still on the stream.
LEMMA GrpcSubmits ==
  ASSUME LinkType, RecvInv, GrpcInv, Submit
  PROVE  /\ GrpcInv'
         /\ \E m \in (Link!Newest + 1)..offered : taken' = Append(taken, m)
<1>1. PICK m \in Items : work = <<m>>
  BY DEF GrpcInv, WorkType, Submit
<1>2. /\ taken' = Append(taken, m) /\ work' = <<>> /\ mpc' = "select"
      /\ UNCHANGED <<offered, via, inq, rpc, stream, conns>>
  BY <1>1 DEF Submit, grpcVars
<1>3. /\ taken \in Seq(Items) /\ taken' \in Seq(Items)
      /\ Range(taken') = Range(taken) \cup {m}
      /\ Range(work) = {m} /\ Range(work') = {}
  <2>1. taken \in Seq(Items)
    BY DEF GrpcInv, WorkType
  <2>. QED
    BY <1>1, <1>2, <2>1, RangeAppend, RangeShort
<1>4. Link!Newest' = m
  <2>1. taken' # <<>> /\ taken'[Len(taken')] = m
    BY <1>2, <1>3
  <2>. QED
    BY <2>1 DEF Link!Newest
<1>5. m \in (Link!Newest + 1)..offered
  BY <1>3 DEF GrpcInv, OrderInv
<1>6. Link!Newest \in Nat /\ offered \in Nat /\ m <= offered /\ m \in Nat
  BY <1>3, <1>5, NewestType, TransportOK DEF LinkType
<1>7. \A d : Live(d)' <=> Live(d)
  BY <1>2 DEF Live
<1>8. WorkType' /\ SkipInv'
  BY <1>2, <1>3, <1>7 DEF GrpcInv, WorkType, SkipInv
<1>9. OrderInv'
  <2>1. ASSUME NEW d \in Conns, Live(d), NEW i \in DOMAIN inq[d], inq[d][i] # NoWork
        PROVE  inq[d][i] \in (m + 1)..offered
    <3>1. inq[d][i] \in (Link!Newest + 1)..offered /\ m < inq[d][i]
      BY <1>3, <2>1, Zenon DEF GrpcInv, OrderInv
    <3>. QED
      BY <1>6, <3>1
  <2>2. \A d \in Conns : Live(d) =>
          \A i, j \in DOMAIN inq[d] :
            i < j /\ inq[d][i] # NoWork /\ inq[d][j] # NoWork => inq[d][i] < inq[d][j]
    BY DEF GrpcInv, OrderInv
  <2>. QED
    BY <1>2, <1>3, <1>4, <1>6, <1>7, <2>1, <2>2, Zenon DEF OrderInv
<1>. QED
  BY <1>2, <1>5, <1>8, <1>9 DEF GrpcInv

\* With gRPC every step keeps the invariant of the work, and is an offer, a
\* submission of the next item, or leaves both alone.
LEMMA GrpcNext ==
  ASSUME LinkType, RecvInv, FreshInv, mode = "grpc", GrpcInv, [Next]_vars
  PROVE  GrpcInv' /\ [Link!Next]_(Link!linkVars)
<1>0. ASSUME UNCHANGED <<offered, via, inq, work, taken>>,
             mpc' = "submit" <=> mpc = "submit",
             \A c \in Conns : Live(c)' => Live(c)
      PROVE  GrpcInv' /\ [Link!Next]_(Link!linkVars)
  BY <1>0, GrpcQuiet DEF Link!linkVars
<1>s. rpc = "none" \/ mpc = "select"
  BY DEF RecvInv
<1>w. mpc = "select" => work = <<>>
  BY DEF GrpcInv, WorkType
<1>1. ASSUME NEW c \in Conns, CPWrites(c) PROVE GrpcInv' /\ [Link!Next]_(Link!linkVars)
  <2>1. offered' \in Nat /\ offered' > offered /\ taken' = taken
    BY <1>1, TransportOK DEF CPWrites, LinkType
  <2>. QED
    BY <1>1, <2>1, GrpcWrites DEF Link!Next, Link!Offer
<1>2. ASSUME NEW c \in Conns, CPAcks(c) PROVE GrpcInv' /\ [Link!Next]_(Link!linkVars)
  BY <1>2, GrpcAcks, Zenon DEF CPAcks, Link!linkVars
<1>3. ASSUME NEW c \in Conns, CPReceives(c) \/ CPCloses(c)
      PROVE  GrpcInv' /\ [Link!Next]_(Link!linkVars)
  BY <1>0, <1>3 DEF CPReceives, CPCloses, mainVars, grpcVars, Live
<1>4. CASE CPAnswers \/ PollStart \/ PollFails \/ PollParse \/ Post
  BY <1>4 DEF CPAnswers, PollStart, PollFails, PollParse, Post, RecvInv
<1>5. CASE Shutdown \/ (\E n \in Items : RunEnds(n)) \/ UNCHANGED vars
  BY <1>0, <1>5 DEF Shutdown, RunEnds, vars, mainVars, grpcVars, cpVars, Live
<1>6. CASE GrpcStart \/ GrpcConnected \/ GrpcConnectFails
  BY <1>0, <1>6 DEF GrpcStart, GrpcConnected, GrpcConnectFails, AwaitAt, grpcVars, cpVars, Live
<1>7. CASE GrpcSlept
  BY <1>0, <1>7, <1>w DEF GrpcSlept, Polled, RecvReturns, grpcVars, cpVars, Live
<1>8. CASE GrpcClosed
  <2>1. \A c \in Conns : c # 0
    BY TransportOK DEF Conns
  <2>. QED
    BY <1>0, <1>8, <1>w, <2>1, Zenon DEF GrpcClosed, Polled, RecvReturns, cpVars, Live
<1>9. CASE GrpcConnect
  BY <1>9, GrpcConnects DEF GrpcConnect, AwaitAt, cpVars, Link!linkVars
<1>10. CASE GrpcMessage
  BY <1>10, GrpcReads DEF GrpcMessage, Link!linkVars
<1>11. CASE SelectShutdown \/ SelectResult
  BY <1>0, <1>11 DEF SelectShutdown, SelectResult, DropRecv, grpcVars, Live
<1>12. CASE Submit
  BY <1>12, GrpcSubmits DEF Submit, Link!Next, Link!Take
<1>13. CASE SendUnconnected \/ SendQueued \/ SendClosed
  BY <1>0, <1>13, Zenon DEF SendUnconnected, SendQueued, SendClosed, SendReturns, grpcVars, cpVars, Live
<1>14. CASE Drain
  BY <1>0, <1>14 DEF Drain, grpcVars, cpVars, Live
<1>. QED
  BY <1>1, <1>2, <1>3, <1>4, <1>5, <1>6, <1>7, <1>8, <1>9, <1>10, <1>11, <1>12, <1>13, <1>14
  DEF Next, Main, RecvTasks, SendResult, ControlPlane, Stopped

----------------------------------------------------------------------------
(* Polling.                                                                *)

\* A set of natural numbers has a least one: what the inductions below rest on.
LEMMA LeastNat ==
  ASSUME NEW T, T \subseteq Nat, T # {}
  PROVE  \E x \in T : \A y \in T : x <= y
<1> DEFINE R == {ss \in Nat \X Nat : ss[1] < ss[2]}
<1>1. IsWellFoundedOn(R, Nat)
  BY NatLessThanWellFounded DEF OpToRel
<1>2. \A x, y \in Nat : x < y => <<x, y>> \in R
  OBVIOUS
<1> HIDE DEF R
<1>3. PICK x \in T : \A y \in T : ~(<<y, x>> \in R)
  BY <1>1, WFMin, Zenon
<1>4. \A y \in T : x \in Nat /\ y \in Nat /\ ~(y < x)
  BY <1>2, <1>3, Zenon
<1>. QED
  BY <1>4

\* g[i] is what the loop over the items has pushed after i of them, up to n.
Upto(items, g, n) ==
  g = [i \in 0..n |->
        IF i = 0 THEN <<>>
        ELSE IF items[i] = NoWork THEN g[i - 1] ELSE Append(g[i - 1], items[i])]

\* The loop has a result for every list of items.
LEMMA LoopRuns ==
  ASSUME NEW items \in Seq(0..MaxItems)
  PROVE  \E g : Upto(items, g, Len(items)) /\ Parsed(items) = g[Len(items)]
<1>1. ASSUME NEW g, Upto(items, g, Len(items)) 
      PROVE \E g1 : Upto(items, g1, Len(items)) /\ Parsed(items) = g1[Len(items)]
  BY <1>1, Zenon DEF Upto, Parsed
<1>2. \E g : Upto(items, g, Len(items))
  <2> DEFINE T == {n \in 0..Len(items) : ~\E g : Upto(items, g, n)}
  <2>0. Len(items) \in 0..Len(items)
    OBVIOUS
  <2> SUFFICES ASSUME T # {} PROVE FALSE
    BY <2>0
  <2>1. PICK n \in T : \A m \in T : n <= m
    <3>1. T \subseteq Nat
      OBVIOUS
    <3> HIDE DEF T
    <3>. QED
      BY <3>1, LeastNat, Zenon
  <2>2. n \in 0..Len(items) /\ ~\E g : Upto(items, g, n)
    OBVIOUS
  <2>3. n # 0
    <3>1. Upto(items, [i \in 0..0 |-> <<>>], 0)
      BY DEF Upto
    <3>. QED
      BY <2>2, <3>1
  <2>4. n - 1 \in 0..Len(items) /\ n - 1 \notin T
    BY <2>1, <2>2, <2>3
  <2>5. PICK g : Upto(items, g, n - 1)
    BY <2>4
  <2> DEFINE h == [i \in 0..n |-> IF i < n THEN g[i]
                    ELSE IF items[i] = NoWork THEN g[i - 1] ELSE Append(g[i - 1], items[i])]
  <2>6. ASSUME NEW i \in 0..n
        PROVE  h[i] = IF i = 0 THEN <<>>
                      ELSE IF items[i] = NoWork THEN h[i - 1] ELSE Append(h[i - 1], items[i])
    <3>1. n \in Nat /\ i \in Nat /\ (i < n <=> i \in 0..(n - 1))
      BY <2>2
    <3>2. CASE i = 0
      <4>1. g[0] = <<>>
        BY <2>2, <2>3, <2>5 DEF Upto
      <4>2. 0 \in 0..n /\ 0 < n
        BY <2>3, <3>1
      <4>3. h[0] = g[0]
        BY <4>2
      <4>. QED
        BY <3>2, <4>1, <4>3, Zenon
    <3>3. CASE i # 0
      <4>1. i - 1 \in 0..n /\ i - 1 < n
        BY <3>1, <3>3
      <4>2. h[i - 1] = g[i - 1]
        BY <4>1
      <4>3. i < n => g[i] = IF items[i] = NoWork THEN g[i - 1] ELSE Append(g[i - 1], items[i])
        BY <2>5, <3>1, <3>3, Zenon DEF Upto
      <4>. QED
        BY <3>3, <4>2, <4>3
    <3>. QED
      BY <3>2, <3>3, Zenon
  <2>7. Upto(items, h, n)
    <3> HIDE DEF h
    <3>1. h = [i \in 0..n |-> h[i]]
      BY DEF h
    <3>. QED
      BY <2>6, <3>1, Zenon DEF Upto
  <2>. QED
    BY <2>2, <2>7
<1>. QED
  BY <1>1, <1>2

\* Of items that rise, the loop keeps a list of work that rises.
LEMMA ParsedRises ==
  ASSUME NEW items \in Seq(0..MaxItems), NEW lo \in Nat, NEW hi \in Nat, Rising(items, lo, hi)
  PROVE  Parsed(items) \in Seq(Items) /\ Rising(Parsed(items), lo, hi)
<1>1. PICK g : Upto(items, g, Len(items)) /\ Parsed(items) = g[Len(items)]
  BY LoopRuns
<1> DEFINE Good(n) ==
             /\ g[n] \in Seq(Items) /\ Rising(g[n], lo, hi)
             /\ \A x \in 1..Len(g[n]), j \in 1..Len(items) :
                  n < j /\ items[j] # NoWork => g[n][x] < items[j]
           T == {n \in 0..Len(items) : ~Good(n)}
<1>2. Len(items) \in Nat
  OBVIOUS
<1>3. g[0] = <<>>
  BY <1>1, <1>2 DEF Upto
<1>4. Good(0)
  BY <1>3 DEF Rising
<1>5. ASSUME NEW n \in 1..Len(items), Good(n - 1) PROVE Good(n)
  <2>0. n \in 0..Len(items) /\ n # 0
    BY <1>2
  <2>1. g[n] = IF items[n] = NoWork THEN g[n - 1] ELSE Append(g[n - 1], items[n])
    <3>1. g = [i \in 0..Len(items) |->
                IF i = 0 THEN <<>>
                ELSE IF items[i] = NoWork THEN g[i - 1] ELSE Append(g[i - 1], items[i])]
      BY <1>1, Zenon DEF Upto
    <3> HIDE DEF Good
    <3>. QED
      BY <2>0, <3>1, Zenon
  <2>2. CASE items[n] = NoWork
    BY <1>2, <1>5, <2>1, <2>2
  <2>3. CASE items[n] # NoWork
    <3> DEFINE s == g[n - 1]
               m == items[n]
    <3>1. m \in Items /\ m \in lo..hi /\ m \in Nat
      BY <1>2, <2>3, TransportOK DEF Rising, Items, NoWork
    <3>2. s \in Seq(Items) /\ Len(s) \in Nat
      BY <1>5
    <3>3. /\ g[n] = Append(s, m) /\ g[n] \in Seq(Items) /\ Len(g[n]) = Len(s) + 1
          /\ \A x \in 1..Len(s) : g[n][x] = s[x]
          /\ g[n][Len(s) + 1] = m
      BY <2>1, <2>3, <3>1, <3>2
    <3>4. \A x \in 1..Len(s) : s[x] < m
      BY <1>2, <1>5, <2>3
    <3>5. \A x \in 1..Len(g[n]) : x \in 1..Len(s) \/ x = Len(s) + 1
      BY <3>2, <3>3
    <3>6. \A x \in 1..Len(s) : s[x] \in lo..hi /\ s[x] # NoWork
      BY <1>5, <3>2, TransportOK DEF Rising, Items, NoWork
    <3>7. \A x, y \in 1..Len(s) : x < y => s[x] < s[y]
      BY <1>5, <3>6 DEF Rising
    <3>8. \A x \in 1..Len(g[n]) : g[n][x] \in lo..hi
      BY <3>1, <3>3, <3>5, <3>6
    <3>9. \A x, y \in 1..Len(g[n]) : x < y => x \in 1..Len(s)
      BY <3>2, <3>3
    <3>10. \A x, y \in 1..Len(g[n]) : x < y => g[n][x] < g[n][y]
      BY <3>3, <3>4, <3>5, <3>7, <3>9
    <3>11. Rising(g[n], lo, hi)
      BY <3>8, <3>10 DEF Rising
    <3>12. \A j \in 1..Len(items) : n < j /\ items[j] # NoWork =>
             m < items[j] /\ \A x \in 1..Len(s) : s[x] < items[j]
      BY <1>2, <1>5, <2>3 DEF Rising
    <3>. QED
      BY <3>3, <3>5, <3>11, <3>12
  <2>. QED
    BY <2>2, <2>3, Zenon
<1>6. Good(Len(items))
  <2>0. T \subseteq Nat /\ (Len(items) \notin T => Good(Len(items)))
    <3> HIDE DEF Good
    <3>. QED
      BY <1>2
  <2> SUFFICES ASSUME T # {} PROVE FALSE
    <3> HIDE DEF Good, T
    <3>. QED
      BY <2>0
  <2>1. PICK n \in T : \A k \in T : n <= k
    <3> HIDE DEF T
    <3>. QED
      BY <2>0, LeastNat, Zenon
  <2>2. n \in 0..Len(items) /\ ~Good(n)
    <3> HIDE DEF Good
    <3>. QED
      OBVIOUS
  <2>3. n \in 1..Len(items) /\ n - 1 \in 0..Len(items)
    <3> HIDE DEF Good
    <3>. QED
      BY <1>2, <1>4, <2>2
  <2>4. n - 1 \notin T
    <3> HIDE DEF T
    <3>. QED
      BY <1>2, <2>1, <2>3
  <2>5. Good(n - 1)
    <3> HIDE DEF Good
    <3>. QED
      BY <2>3, <2>4
  <2>. QED
    BY <1>5, <2>2, <2>3, <2>5, Zenon
<1>. QED
  BY <1>1, <1>6

\* An answer holds the next offers, which are above all that came before.
LEMMA BodyRises ==
  ASSUME LinkType, NEW k \in 0..MaxBatch, NEW at \in 0..(k + 1), offered + k <= MaxItems,
         NEW lo \in Nat, lo <= offered + 1
  PROVE  Body(k, at) \in Seq(0..MaxItems) /\ Rising(Body(k, at), lo, offered + k)
<1>1. k \in Nat /\ at \in Nat /\ offered \in Nat /\ MaxItems \in Nat
  BY TransportOK DEF LinkType
<1>2. CASE at = 0
  <2> DEFINE s == [i \in 1..k |-> offered + i]
  <2>1. s \in Seq(0..MaxItems) /\ Len(s) = k
    BY <1>1
  <2>2. Rising(s, lo, offered + k)
    BY <1>1, <2>1 DEF Rising
  <2>. QED
    BY <1>2, <2>1, <2>2 DEF Body
<1>3. CASE at # 0
  <2> DEFINE s == [i \in 1..(k + 1) |->
                    IF i = at THEN NoWork ELSE IF i < at THEN offered + i ELSE offered + i - 1]
  <2>1. ASSUME NEW i \in 1..(k + 1)
        PROVE  s[i] \in 0..MaxItems /\ (i # at => s[i] \in lo..(offered + k))
    <3>1. CASE i = at
      BY <1>1, <3>1 DEF NoWork
    <3>2. CASE i < at
      <4>1. s[i] = offered + i /\ i <= k
        BY <1>1, <3>2
      <4>. QED
        BY <1>1, <4>1
    <3>3. CASE i > at
      <4>1. s[i] = offered + i - 1 /\ i > 1
        BY <1>1, <1>3, <3>3
      <4>. QED
        BY <1>1, <4>1
    <3>4. i = at \/ i < at \/ i > at
      BY <1>1
    <3>. QED
      BY <3>1, <3>2, <3>3, <3>4, Zenon
  <2>2. s \in Seq(0..MaxItems) /\ Len(s) = k + 1
    BY <1>1, <2>1
  <2>3. \A i, j \in 1..(k + 1) : i < j /\ i # at /\ j # at => s[i] < s[j]
    BY <1>1
  <2>4. \A i \in 1..(k + 1) : s[i] # NoWork => i # at
    OBVIOUS
  <2>5. Rising(s, lo, offered + k)
    <3> HIDE DEF s
    <3>. QED
      BY <2>1, <2>2, <2>3, <2>4 DEF Rising
  <2>. QED
    BY <1>3, <2>2, <2>5 DEF Body
<1>. QED
  BY <1>2, <1>3

\* Steps that leave the work, the offers and the answer alone.
LEMMA PollQuiet ==
  ASSUME PollInv, UNCHANGED <<offered, work, taken, answer, conns>>,
         mpc' = "submit" <=> mpc = "submit",
         rpc' = rpc \/ answer = <<>>
  PROVE  PollInv'
<1>1. Link!Newest' = Link!Newest
  BY DEF Link!Newest
<1>. QED
  BY <1>1 DEF PollInv, Rising

\* The future is gone, or returns nothing; with it goes the answer.
LEMMA PollForgets ==
  ASSUME PollInv, UNCHANGED <<offered, work, taken, conns>>, answer' = <<>>,
         mpc' = "submit" <=> mpc = "submit"
  PROVE  PollInv'
<1>1. Link!Newest' = Link!Newest
  BY DEF Link!Newest
<1>2. answer' \in Seq(0..MaxItems) /\ \A lo, hi : Rising(answer', lo, hi)
  BY DEF Rising
<1>. QED
  BY <1>1, <1>2 DEF PollInv, Rising

\* The offers of an answer are above all that was submitted, and nothing waits
\* to be submitted while recv_tasks runs.
LEMMA PollAnswered ==
  ASSUME LinkType, RecvInv, PollInv, CPAnswers
  PROVE  PollInv' /\ [Link!Next]_(Link!linkVars)
<1>1. PICK k \in 0..MaxBatch : \E at \in 0..(k + 1) :
        /\ offered + k <= MaxItems /\ offered' = offered + k /\ answer' = Body(k, at)
  BY Zenon DEF CPAnswers
<1>2. PICK at \in 0..(k + 1) :
        /\ offered + k <= MaxItems /\ offered' = offered + k /\ answer' = Body(k, at)
  BY <1>1
<1>3. UNCHANGED <<work, taken, mpc, conns>> /\ rpc = "get" /\ rpc' = "body"
  BY DEF CPAnswers, grpcVars
<1>4. mpc = "select" /\ work = <<>>
  BY <1>3 DEF RecvInv, PollInv
<1>5. Link!Newest' = Link!Newest /\ Link!Newest \in Nat /\ offered \in Nat /\ k \in Nat
  BY <1>3, NewestType, TransportOK DEF Link!Newest, PollInv, LinkType
<1>6. answer' \in Seq(0..MaxItems) /\ Rising(answer', Link!Newest + 1, offered')
  BY <1>2, <1>5, BodyRises DEF PollInv
<1>7. \A lo, hi : Rising(work, lo, hi)
  BY <1>4 DEF Rising
<1>8. PollInv'
  BY <1>2, <1>3, <1>4, <1>5, <1>6, <1>7 DEF PollInv
<1>9. [Link!Next]_(Link!linkVars)
  BY <1>2, <1>3, <1>5 DEF Link!Next, Link!Offer, Link!linkVars
<1>. QED
  BY <1>8, <1>9

LEMMA PollParses ==
  ASSUME LinkType, RecvInv, PollInv, PollParse
  PROVE  PollInv' /\ taken' = taken /\ offered' = offered
<1>1. /\ UNCHANGED <<taken, offered, conns>> /\ answer' = <<>> /\ work' = Parsed(answer)
      /\ mpc' = IF work' = <<>> THEN "select" ELSE "submit"
  BY DEF PollParse, RecvReturns, grpcVars
<1>2. Link!Newest' = Link!Newest /\ Link!Newest \in Nat /\ offered \in Nat
  BY <1>1, NewestType, TransportOK DEF Link!Newest, PollInv, LinkType
<1>3. work' \in Seq(Items) /\ Rising(work', Link!Newest + 1, offered)
  BY <1>1, <1>2, ParsedRises DEF PollInv
<1>4. answer' \in Seq(0..MaxItems) /\ \A lo, hi : Rising(answer', lo, hi)
  BY <1>1 DEF Rising
<1>. QED
  BY <1>1, <1>2, <1>3, <1>4 DEF PollInv

\* The head of the batch is the newest work; the rest is above it.
LEMMA PollSubmits ==
  ASSUME LinkType, RecvInv, PollInv, Submit
  PROVE  /\ PollInv'
         /\ \E m \in (Link!Newest + 1)..offered : taken' = Append(taken, m)
<1> DEFINE m == Head(work)
<1>1. /\ taken' = Append(taken, m) /\ work' = Tail(work) /\ UNCHANGED <<offered, conns, answer>>
      /\ mpc' = IF Len(work) = 1 THEN "select" ELSE "submit"
  BY DEF Submit, grpcVars
<1>2. work \in Seq(Items) /\ work # <<>> /\ taken \in Seq(Items) /\ answer = <<>>
  BY DEF Submit, PollInv, RecvInv
<1>3. /\ m = work[1] /\ m \in Items /\ Len(work) \in Nat \ {0} /\ work' \in Seq(Items)
      /\ Len(work') = Len(work) - 1 /\ \A i \in 1..(Len(work) - 1) : work'[i] = work[i + 1]
  BY <1>1, <1>2
<1>4. Items \subseteq Nat /\ 0 \notin Items /\ offered \in Nat /\ Link!Newest \in Nat
  BY <1>2, NewestType, TransportOK DEF Items, LinkType
<1>5. m \in (Link!Newest + 1)..offered /\ m <= offered
  BY <1>3, <1>4 DEF PollInv, Rising, NoWork
<1>6. taken' \in Seq(Items) /\ Link!Newest' = m
  <2>1. taken' \in Seq(Items) /\ taken' # <<>> /\ taken'[Len(taken')] = m
    BY <1>1, <1>2, <1>3
  <2>. QED
    BY <2>1 DEF Link!Newest
<1>7. \A i \in 1..(Len(work) - 1) :
        /\ work[i + 1] \in (m + 1)..offered
        /\ \A j \in 1..(Len(work) - 1) : i < j => work[i + 1] < work[j + 1]
  <2>1. \A i \in 1..Len(work) : /\ work[i] \in Items /\ work[i] # NoWork
                                /\ work[i] \in (Link!Newest + 1)..offered
                                /\ \A j \in 1..Len(work) : i < j => work[i] < work[j]
    BY <1>2, <1>4 DEF PollInv, Rising, NoWork
  <2>. QED
    BY <1>3, <1>4, <1>5, <2>1
<1>8. Rising(work', m + 1, offered)
  BY <1>3, <1>7 DEF Rising
<1>9. mpc' = "submit" <=> work' # <<>>
  BY <1>1, <1>3
<1>10. \A lo, hi : Rising(answer, lo, hi)
  BY <1>2 DEF Rising
<1>11. PollInv'
  BY <1>1, <1>2, <1>3, <1>5, <1>6, <1>8, <1>9, <1>10 DEF PollInv
<1>. QED
  BY <1>1, <1>5, <1>11

\* With polling, too, every step keeps the invariant of the work, and is an
\* offer, a submission of the next item, or leaves both alone.
LEMMA PollNext ==
  ASSUME LinkType, RecvInv, mode = "poll", PollInv, [Next]_vars
  PROVE  PollInv' /\ [Link!Next]_(Link!linkVars)
<1>s. (rpc = "none" \/ mpc = "select") /\ (mpc = "select" => work = <<>>)
  BY DEF RecvInv, PollInv
<1>a. rpc # "body" => answer = <<>>
  BY DEF PollInv
<1>0. ASSUME UNCHANGED <<offered, work, taken, answer, conns>>,
             mpc' = "submit" <=> mpc = "submit",
             rpc' = rpc \/ answer = <<>>
      PROVE  PollInv' /\ [Link!Next]_(Link!linkVars)
  BY <1>0, PollQuiet DEF Link!linkVars
<1>1. CASE CPAnswers
  BY <1>1, PollAnswered
<1>2. ASSUME NEW c \in Conns, CPWrites(c) \/ CPAcks(c) \/ CPReceives(c) \/ CPCloses(c) PROVE FALSE
  <2>1. Open(c)
    BY <1>2, Zenon DEF CPWrites, CPAcks, CPReceives, CPCloses
  <2>. QED
    BY <2>1, TransportOK DEF Open, PollInv, Conns
<1>3. CASE Shutdown \/ (\E n \in Items : RunEnds(n)) \/ UNCHANGED vars
  BY <1>0, <1>3, Zenon DEF Shutdown, RunEnds, vars, mainVars, grpcVars, cpVars
<1>4. CASE PollStart
  BY <1>0, <1>4, <1>a DEF PollStart, AwaitAt, grpcVars, cpVars
<1>5. CASE PollFails \/ SelectShutdown \/ SelectResult
  <2>1. /\ UNCHANGED <<offered, work, taken, conns>> /\ answer' = <<>>
        /\ mpc' = "submit" <=> mpc = "submit"
    BY <1>5, <1>s DEF PollFails, SelectShutdown, SelectResult, DropRecv, RecvReturns, Polled, grpcVars
  <2>. QED
    BY <2>1, PollForgets DEF Link!linkVars
<1>6. CASE PollParse
  BY <1>6, PollParses DEF Link!linkVars
<1>7. CASE Submit
  <2>1. offered' = offered
    BY <1>7 DEF Submit
  <2>. QED
    BY <1>7, <2>1, PollSubmits DEF Link!Next, Link!Take
<1>8. CASE Post \/ Drain
  BY <1>0, <1>8 DEF Post, Drain, SendReturns, grpcVars, cpVars
<1>9. CASE GrpcStart \/ SendUnconnected \/ SendQueued \/ SendClosed
  BY <1>9 DEF GrpcStart, SendUnconnected, SendQueued, SendClosed
<1>10. CASE GrpcConnect \/ GrpcConnected \/ GrpcConnectFails \/ GrpcSlept \/ GrpcMessage \/ GrpcClosed
  BY <1>10 DEF GrpcConnect, GrpcConnected, GrpcConnectFails, GrpcSlept, GrpcMessage, GrpcClosed, RecvInv
<1>. QED
  BY <1>1, <1>2, <1>3, <1>4, <1>5, <1>6, <1>7, <1>8, <1>9, <1>10
  DEF Next, Main, RecvTasks, SendResult, ControlPlane, Stopped

LEMMA ModeNext == [Next]_vars => mode' = mode
BY Zenon DEF Next, Main, RecvTasks, SendResult, ControlPlane, Stopped, CPAnswers, CPWrites, CPAcks,
   CPReceives, CPCloses, RunEnds, Shutdown, PollStart, PollFails, PollParse, GrpcStart,
   GrpcConnect, GrpcConnected, GrpcConnectFails, GrpcSlept, GrpcMessage, GrpcClosed,
   SelectShutdown, SelectResult, Submit, Post, SendUnconnected, SendQueued, SendClosed, Drain,
   AwaitAt, RecvReturns, SendReturns, vars, mainVars

----------------------------------------------------------------------------
(* The rest of the types.                                                  *)

\* What LinkType leaves out.  A result that is being sent is one of a run.
RestType ==
  /\ mode \in Modes
  /\ rpc \in {"none", "sleep", "get", "body", "connect", "open", "backoff", "read"}
  /\ shutdown \in BOOLEAN
  /\ runs \subseteq Items /\ oks \subseteq Items
  /\ mpc \in {"send", "flush"} => sending \in Items
  /\ backoff \in 1..MAX_BACKOFF
  /\ answer \in Seq(0..MaxItems)

LEMMA RestInit == Init => RestType
<1>1. <<>> \in Seq(0..MaxItems) /\ 1 \in 1..MAX_BACKOFF
  BY TransportOK
<1>. QED
  BY <1>1, Zenon DEF Init, RestType, INITIAL_BACKOFF

LEMMA RestNext == IInv /\ RestType /\ [Next]_vars => RestType'
<1> SUFFICES ASSUME IInv, RestType, [Next]_vars PROVE RestType'
  OBVIOUS
<1> USE DEF mainVars, grpcVars, cpVars
<1>e. <<>> \in Seq(0..MaxItems)
  OBVIOUS
<1>1. CASE CPAnswers
  <2>1. answer' \in Seq(0..MaxItems)
    <3>1. PICK k \in 0..MaxBatch : \E at \in 0..(k + 1) :
            offered + k <= MaxItems /\ answer' = Body(k, at)
      BY <1>1, Zenon DEF CPAnswers
    <3>2. 0 \in Nat /\ 0 <= offered + 1
      BY TransportOK DEF IInv, LinkType
    <3>. QED
      BY <3>1, <3>2, BodyRises, Zenon DEF IInv
  <2>. QED
    BY <1>1, <2>1 DEF CPAnswers, RestType
<1>2. ASSUME NEW c \in Conns, CPWrites(c) \/ CPAcks(c) \/ CPReceives(c) \/ CPCloses(c)
      PROVE  RestType'
  BY <1>2, Zenon DEF CPWrites, CPAcks, CPReceives, CPCloses, RestType
<1>3. CASE Shutdown \/ (\E n \in Items : RunEnds(n)) \/ UNCHANGED vars
  BY <1>3, Zenon DEF Shutdown, RunEnds, vars, RestType
<1>4. CASE PollStart \/ PollFails \/ PollParse \/ GrpcStart
  BY <1>4, <1>e, Zenon DEF PollStart, PollFails, PollParse, GrpcStart, AwaitAt, RecvReturns, RestType
<1>5. CASE GrpcConnected \/ GrpcConnectFails
  <2>1. backoff' \in 1..MAX_BACKOFF
    BY <1>5, TransportOK DEF GrpcConnected, GrpcConnectFails, INITIAL_BACKOFF, RestType
  <2>2. rpc' \in {"read", "backoff"} /\ UNCHANGED <<mode, shutdown, runs, oks, mpc, sending, answer>>
    BY <1>5 DEF GrpcConnected, GrpcConnectFails, AwaitAt
  <2>. QED
    BY <2>1, <2>2 DEF RestType
<1>6. CASE GrpcConnect \/ GrpcSlept \/ GrpcMessage \/ GrpcClosed
  BY <1>6, Zenon DEF GrpcConnect, GrpcSlept, GrpcMessage, GrpcClosed, AwaitAt, RecvReturns, RestType
<1>7. CASE SelectShutdown \/ SelectResult \/ Drain
  <2>1. results # <<>> => Head(results) \in Items
    BY RangeHeadTail DEF IInv, LinkType
  <2>. QED
    BY <1>7, <1>e, <2>1, Zenon DEF SelectShutdown, SelectResult, Drain, DropRecv, RestType
<1>8. CASE Submit
  <2>1. work \in Seq(Items) /\ work # <<>>
    <3>1. CASE mode = "grpc"
      <4>1. PICK m \in Items : work = <<m>>
        BY <1>8, <3>1 DEF IInv, GrpcInv, WorkType, Submit
      <4>. QED
        BY <4>1
    <3>2. CASE mode = "poll"
      BY <1>8, <3>2 DEF IInv, PollInv, Submit
    <3>. QED
      BY <3>1, <3>2, Zenon DEF IInv, LinkType
  <2>2. Head(work) \in Items
    BY <2>1, RangeHeadTail
  <2>. QED
    BY <1>8, <2>2 DEF Submit, RestType
<1>9. CASE SendResult
  <2>1. mpc \in {"send", "flush"}
    BY <1>9, Zenon DEF SendResult, Post, SendUnconnected, SendQueued, SendClosed
  <2>2. \E ok \in BOOLEAN : SendReturns(ok)
    BY <1>9, Zenon DEF SendResult, Post, SendUnconnected, SendQueued, SendClosed
  <2>3. UNCHANGED <<backoff, answer>>
    BY <1>9, Zenon DEF SendResult, Post, SendUnconnected, SendQueued, SendClosed
  <2>. QED
    BY <2>1, <2>2, <2>3 DEF SendReturns, RestType
<1>. QED
  BY <1>1, <1>2, <1>3, <1>4, <1>5, <1>6, <1>7, <1>8, <1>9, Zenon
  DEF Next, Main, RecvTasks, ControlPlane, Stopped

----------------------------------------------------------------------------
(* Theorems.                                                               *)

LEMMA IInvNext == IInv /\ [Next]_vars => IInv' /\ [Link!Next]_(Link!linkVars)
<1> SUFFICES ASSUME IInv, [Next]_vars PROVE IInv' /\ [Link!Next]_(Link!linkVars)
  OBVIOUS
<1>1. LinkType' /\ RecvInv' /\ FreshInv' /\ OkIsOnItsWay'
  BY LinkTypeNext, RecvNext, FreshNext, OkNext DEF IInv
<1>2. CASE mode = "grpc"
  BY <1>1, <1>2, GrpcNext, ModeNext DEF IInv
<1>3. CASE mode = "poll"
  BY <1>1, <1>3, PollNext, ModeNext DEF IInv
<1>. QED
  BY <1>2, <1>3, Zenon DEF IInv, LinkType

LEMMA Invariance == Spec => []IInv
BY IInvInit, IInvNext, PTL DEF Spec

\* Type correctness; the pause between connects stays within its limits.
THEOREM TypeCorrect == Spec => []TypeOK
<1>1. IInv /\ RestType => TypeOK
  <2> SUFFICES ASSUME IInv, RestType PROVE TypeOK
    OBVIOUS
  <2>1. work \in Seq(Items) /\ taken \in Seq(Items)
    <3>1. CASE mode = "grpc"
      <4>1. work = <<>> \/ \E m \in Items : work = <<m>>
        BY <3>1 DEF IInv, GrpcInv, WorkType
      <4>2. <<>> \in Seq(Items) /\ \A m \in Items : <<m>> \in Seq(Items)
        OBVIOUS
      <4>3. work \in Seq(Items)
        BY <4>1, <4>2, Zenon
      <4>. QED
        BY <3>1, <4>3 DEF IInv, GrpcInv, WorkType
    <3>2. CASE mode = "poll"
      BY <3>2 DEF IInv, PollInv
    <3>. QED
      BY <3>1, <3>2, Zenon DEF IInv, LinkType
  <2>2. tx \in 0..conns
    BY DEF IInv, LinkType, RecvInv
  <2>. QED
    BY <2>1, <2>2, Zenon DEF IInv, LinkType, RestType, TypeOK
<1>. QED
  BY <1>1, IInvInit, IInvNext, RestInit, RestNext, PTL DEF Spec

\* A result that send_result accepted is never queued on a stream that the agent
\* left while it was open, however many streams and results there are.
THEOREM AcceptedOnItsWay == Spec => []OkIsOnItsWay
<1>1. IInv => OkIsOnItsWay
  BY DEF IInv
<1>. QED
  BY Invariance, <1>1, PTL

\* Dropping recv_tasks at any of its awaits, any number of times, takes no work
\* from the stream that is up.
THEOREM NoneSkipped == Spec => []NoWorkSkipped
<1>1. IInv => NoWorkSkipped
  <2> SUFFICES ASSUME IInv, stream # 0, NEW n \in 1..offered, via[n] = stream
               PROVE  n \in Range(inq[stream]) \cup Range(work) \cup Range(taken)
    BY DEF NoWorkSkipped
  <2>1. mode = "grpc"
    BY DEF IInv, LinkType, RecvInv
  <2>2. stream \in Conns
    BY TransportOK DEF IInv, LinkType, Conns
  <2>. QED
    BY <2>1, <2>2 DEF IInv, GrpcInv, SkipInv, Live
<1>. QED
  BY Invariance, <1>1, PTL

\* Either transport implements WorkLink: over any sequence of polls and streams,
\* dropped, broken or abandoned, and answers of any length, the main loop submits
\* a subsequence of the offers.
THEOREM WorkInOrder == Spec => InOrderWork
<1>1. Init => Link!Init
  BY DEF Init, Link!Init
<1>. QED
  BY <1>1, IInvInit, IInvNext, PTL DEF Spec, InOrderWork, Link!Spec

============================================================================
