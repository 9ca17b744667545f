---------------------------- MODULE SidecarCall ----------------------------
(***************************************************************************)
(* Calls over a sidecar's Unix socket: call_raw (task/sidecar.rs) on one   *)
(* end, the SDK's SidecarServer with one handle_connection task per        *)
(* connection (server.rs) on the other.  Bytes arrive one at a time, so    *)
(* each end decodes every prefix of a frame; the server may stop or crash  *)
(* between any two steps.  The JSON of a message is abstracted to its      *)
(* name, and each name has its bytes.                                      *)
(***************************************************************************)
EXTENDS Codec

CONSTANTS
  Callers,       \* who calls, each with one call at a time
  Foreign,       \* callers that are not call_raw: they may also send or leave as they like
  MaxServerStops \* bound: times the server stops

\* The messages below are made of the bytes 0 to 3.
ASSUME CallOK == Foreign \subseteq Callers /\ MaxServerStops \in Nat /\ Base > 3

VARIABLES
  up,       \* the server listens
  stops,    \* times it stopped
  cpc,      \* where a caller's call_raw is
  req,      \* its request
  resp,     \* what it returned, "Err" for an error of its own
  hpc,      \* where the call's handle_connection is
  open,     \* the caller's end of the connection is open
  c2s, s2c, \* bytes in the socket, in each direction
  sbuf,     \* what the server's Framed has read
  cbuf,     \* what the caller's Framed has read
  ans,      \* the response handle_connection sends
  effects   \* times the handler ran for this call

connVars == <<hpc, open, c2s, s2c, sbuf, cbuf, ans, effects>>
callVars == <<up, stops, cpc, req, resp, connVars>>

CallPC == {"idle", "connect", "send", "wait", "returned"}
HandlerPC == {"none", "frame", "handle", "respond", "closed"}

\* Requests and their bytes.  "oversized" exceeds the limit, "garbled" is no
\* JSON-RPC request or not of version 2.0, and "unknown" is no method or lacks
\* the task_id that status and cancel need.
RequestBytes ==
  [submit |-> <<1>>, status |-> <<2>>, cancel |-> <<3>>, health |-> <<1, 1>>,
   garbled |-> <<>>, unknown |-> <<0>>, oversized |-> [n \in 1..(MAX_MESSAGE_SIZE + 1) |-> 0]]

Requests == DOMAIN RequestBytes
Methods == {"submit", "status", "cancel", "health"}

\* Responses: a result object (with what it says), an error object, a payload
\* that is no Response, and one that exceeds the limit.
Results == {"completed", "failed", "accepted", "running", "cancelled", "other"}
ResponseBytes ==
  [completed |-> <<1>>, failed |-> <<2>>, accepted |-> <<3>>, running |-> <<1, 1>>,
   cancelled |-> <<1, 2>>, other |-> <<1, 3>>, error |-> <<0>>, garbled |-> <<>>,
   oversized |-> [n \in 1..(MAX_MESSAGE_SIZE + 1) |-> 0]]

Responses == DOMAIN ResponseBytes

RequestOf(data) == CHOOSE r \in Requests : RequestBytes[r] = data
ResponseOf(data) == CHOOSE r \in Responses : ResponseBytes[r] = data

CallInit ==
  /\ up = TRUE /\ stops = 0
  /\ cpc = [c \in Callers |-> "idle"]
  /\ req = [c \in Callers |-> "garbled"]
  /\ resp = [c \in Callers |-> "Err"]
  /\ hpc = [c \in Callers |-> "none"]
  /\ open = [c \in Callers |-> FALSE]
  /\ c2s = [c \in Callers |-> <<>>] /\ s2c = [c \in Callers |-> <<>>]
  /\ sbuf = [c \in Callers |-> <<>>] /\ cbuf = [c \in Callers |-> <<>>]
  /\ ans = [c \in Callers |-> "error"]
  /\ effects = [c \in Callers |-> 0]

----------------------------------------------------------------------------
(* call_raw.                                                               *)

Begin(c, r) ==
  /\ cpc[c] = "idle"
  /\ cpc' = [cpc EXCEPT ![c] = "connect"]
  /\ req' = [req EXCEPT ![c] = r]
  /\ UNCHANGED <<up, stops, resp, connVars>>

\* The call returns; its Framed, and with it the socket, is dropped.
Returns(c, a) ==
  /\ cpc' = [cpc EXCEPT ![c] = "returned"]
  /\ resp' = [resp EXCEPT ![c] = a]
  /\ open' = [open EXCEPT ![c] = FALSE]
  /\ s2c' = [s2c EXCEPT ![c] = <<>>] /\ cbuf' = [cbuf EXCEPT ![c] = <<>>]

\* The caller has used what the call returned.
Use(c) ==
  /\ cpc[c] = "returned"
  /\ cpc' = [cpc EXCEPT ![c] = "idle"]
  /\ req' = [req EXCEPT ![c] = "garbled"]
  /\ resp' = [resp EXCEPT ![c] = "Err"]
  /\ hpc' = [hpc EXCEPT ![c] = IF @ = "closed" THEN "none" ELSE @]
  /\ ans' = [ans EXCEPT ![c] = "error"]
  /\ effects' = [effects EXCEPT ![c] = 0]
  /\ UNCHANGED <<up, stops, open, c2s, s2c, sbuf, cbuf>>

\* UnixStream::connect; the listener's backlog takes the connection.  (A caller's
\* last connection has ended by then.)
Connect(c) ==
  /\ cpc[c] = "connect" /\ up /\ hpc[c] \in {"none", "closed"}
  /\ cpc' = [cpc EXCEPT ![c] = "send"]
  /\ open' = [open EXCEPT ![c] = TRUE]
  /\ hpc' = [hpc EXCEPT ![c] = "frame"]
  /\ UNCHANGED <<up, stops, req, resp, c2s, s2c, sbuf, cbuf, ans, effects>>

ConnectRefused(c) ==
  /\ cpc[c] = "connect" /\ ~up
  /\ Returns(c, "Err")
  /\ UNCHANGED <<up, stops, req, hpc, c2s, sbuf, ans, effects>>

Send(c) ==
  /\ cpc[c] = "send" /\ hpc[c] # "closed" /\ Encodable(RequestBytes[req[c]])
  /\ c2s' = [c2s EXCEPT ![c] = Encode(RequestBytes[req[c]])]
  /\ cpc' = [cpc EXCEPT ![c] = "wait"]
  /\ UNCHANGED <<up, stops, req, resp, hpc, open, s2c, sbuf, cbuf, ans, effects>>

\* A caller with a codec of its own sends the header of an oversized frame.
SendRaw(c) ==
  /\ cpc[c] = "send" /\ hpc[c] # "closed" /\ c \in Foreign
  /\ ~Encodable(RequestBytes[req[c]])
  /\ c2s' = [c2s EXCEPT ![c] = Header(MAX_MESSAGE_SIZE + 1)]
  /\ cpc' = [cpc EXCEPT ![c] = "wait"]
  /\ UNCHANGED <<up, stops, req, resp, hpc, open, s2c, sbuf, cbuf, ans, effects>>

\* The request is too long for encode, or the server has gone.
SendFails(c) ==
  /\ cpc[c] = "send"
  /\ hpc[c] = "closed" \/ ~Encodable(RequestBytes[req[c]])
  /\ Returns(c, "Err")
  /\ UNCHANGED <<up, stops, req, hpc, c2s, sbuf, ans, effects>>

CallerReads(c) ==
  /\ cpc[c] = "wait" /\ s2c[c] # <<>>
  /\ cbuf' = [cbuf EXCEPT ![c] = Append(@, Head(s2c[c]))]
  /\ s2c' = [s2c EXCEPT ![c] = Tail(@)]
  /\ UNCHANGED <<up, stops, cpc, req, resp, hpc, open, c2s, sbuf, ans, effects>>

\* A frame is complete: a Response, or an error of from_slice.
Answered(c) ==
  /\ cpc[c] = "wait"
  /\ LET d == Decode(cbuf[c])
         a == ResponseOf(d.data)
     IN /\ d.kind = "frame"
        /\ Returns(c, IF a = "garbled" THEN "Err" ELSE a)
  /\ UNCHANGED <<up, stops, req, hpc, c2s, sbuf, ans, effects>>

\* The stream ends without a complete frame, or with an invalid header.
Unanswered(c) ==
  /\ cpc[c] = "wait"
  /\ \/ hpc[c] = "closed" /\ s2c[c] = <<>> /\ Decode(cbuf[c]).kind = "none"
     \/ Decode(cbuf[c]).kind = "error"
  /\ Returns(c, "Err")
  /\ UNCHANGED <<up, stops, req, hpc, c2s, sbuf, ans, effects>>

\* A caller that is not bound to wait drops its connection.
Disconnect(c) ==
  /\ c \in Foreign /\ cpc[c] \in {"send", "wait"}
  /\ Returns(c, "Err")
  /\ UNCHANGED <<up, stops, req, hpc, c2s, sbuf, ans, effects>>

CallRaw(c) ==
  \/ Connect(c) \/ ConnectRefused(c) \/ Send(c) \/ SendRaw(c) \/ SendFails(c)
  \/ CallerReads(c) \/ Answered(c) \/ Unanswered(c)

----------------------------------------------------------------------------
(* SidecarServer.                                                          *)

ServerReads(c) ==
  /\ hpc[c] = "frame" /\ c2s[c] # <<>>
  /\ sbuf' = [sbuf EXCEPT ![c] = Append(@, Head(c2s[c]))]
  /\ c2s' = [c2s EXCEPT ![c] = Tail(@)]
  /\ UNCHANGED <<up, stops, cpc, req, resp, hpc, open, s2c, cbuf, ans, effects>>

\* A complete request: an error response for what cannot be parsed or is no
\* method, the handler for the rest.
Dispatch(c) ==
  /\ hpc[c] = "frame"
  /\ LET d == Decode(sbuf[c])
     IN /\ d.kind = "frame"
        /\ IF RequestOf(d.data) \in Methods
             THEN hpc' = [hpc EXCEPT ![c] = "handle"] /\ UNCHANGED ans
             ELSE /\ hpc' = [hpc EXCEPT ![c] = "respond"]
                  /\ ans' = [ans EXCEPT ![c] = "error"]
  /\ UNCHANGED <<up, stops, cpc, req, resp, open, c2s, s2c, sbuf, cbuf, effects>>

\* The header is invalid, or the caller closed before a whole frame: no answer.
NoFrame(c) ==
  /\ hpc[c] = "frame"
  /\ LET d == Decode(sbuf[c])
     IN d.kind = "error" \/ (d.kind = "none" /\ ~open[c] /\ c2s[c] = <<>>)
  /\ hpc' = [hpc EXCEPT ![c] = "closed"]
  /\ sbuf' = [sbuf EXCEPT ![c] = <<>>] /\ c2s' = [c2s EXCEPT ![c] = <<>>]
  /\ UNCHANGED <<up, stops, cpc, req, resp, open, s2c, cbuf, ans, effects>>

\* Mutant: the handler is called again when it fails.
HandlerRunsAgain(c, a) ==
  /\ hpc[c] = "handle"
  /\ effects' = [effects EXCEPT ![c] = @ + 1]
  /\ ans' = [ans EXCEPT ![c] = a]
  /\ hpc' = [hpc EXCEPT ![c] = IF a = "error" /\ effects[c] = 0 THEN "handle" ELSE "respond"]
  /\ UNCHANGED <<up, stops, cpc, req, resp, open, c2s, s2c, sbuf, cbuf>>

\* The request handle_connection got.
Asked(c) == RequestOf(Decode(sbuf[c]).data)

\* The handler's method does its work and gives the response a.
HandlerRuns(c, a) ==
  /\ hpc[c] = "handle"
  /\ effects' = [effects EXCEPT ![c] = @ + 1]
  /\ ans' = [ans EXCEPT ![c] = a]
  /\ hpc' = [hpc EXCEPT ![c] = "respond"]
  /\ UNCHANGED <<up, stops, cpc, req, resp, open, c2s, s2c, sbuf, cbuf>>

\* send_response, after which the connection is dropped; a response that
\* encode refuses, or whose caller has gone, is not sent.
SendResponse(c) ==
  /\ hpc[c] = "respond"
  /\ s2c' = [s2c EXCEPT ![c] =
               IF Encodable(ResponseBytes[ans[c]]) /\ open[c] THEN Encode(ResponseBytes[ans[c]]) ELSE <<>>]
  /\ hpc' = [hpc EXCEPT ![c] = "closed"]
  /\ sbuf' = [sbuf EXCEPT ![c] = <<>>] /\ c2s' = [c2s EXCEPT ![c] = <<>>]
  /\ UNCHANGED <<up, stops, cpc, req, resp, open, cbuf, ans, effects>>

Serve(c) == ServerReads(c) \/ Dispatch(c) \/ NoFrame(c) \/ SendResponse(c)

\* run leaves its loop and its main ends, or the process dies: every connection
\* task goes with it, wherever it is.  What was sent can still be read.
ServerStops ==
  /\ up /\ stops < MaxServerStops
  /\ up' = FALSE /\ stops' = stops + 1
  /\ hpc' = [c \in Callers |-> IF hpc[c] = "none" THEN "none" ELSE "closed"]
  /\ c2s' = [c \in Callers |-> <<>>] /\ sbuf' = [c \in Callers |-> <<>>]
  /\ UNCHANGED <<cpc, req, resp, open, s2c, cbuf, ans, effects>>

ServerStarts ==
  /\ ~up /\ up' = TRUE
  /\ UNCHANGED <<stops, cpc, req, resp, connVars>>

----------------------------------------------------------------------------

CallTypeOK ==
  /\ up \in BOOLEAN /\ stops \in 0..MaxServerStops
  /\ cpc \in [Callers -> CallPC]
  /\ req \in [Callers -> Requests]
  /\ resp \in [Callers -> Responses \cup {"Err"}]
  /\ hpc \in [Callers -> HandlerPC]
  /\ open \in [Callers -> BOOLEAN]
  /\ c2s \in [Callers -> Seq(Byte)] /\ s2c \in [Callers -> Seq(Byte)]
  /\ sbuf \in [Callers -> Seq(Byte)] /\ cbuf \in [Callers -> Seq(Byte)]
  /\ ans \in [Callers -> Responses]
  /\ effects \in [Callers -> Nat]

\* However the bytes are cut up, the handler gets the request that was made and
\* the caller the response that was given: decode waits for a whole frame and
\* takes no byte more, over restarts of the server included.
FrameIntact ==
  \A c \in Callers :
    /\ hpc[c] = "handle" => Asked(c) = req[c]
    /\ cpc[c] = "returned" /\ resp[c] # "Err" => resp[c] = ans[c] /\ hpc[c] = "closed"

\* The caller's view of a call, for RemoteCall.
Outcome(c) ==
  CASE cpc[c] = "idle" -> "none"
    [] cpc[c] = "returned" -> IF resp[c] \in Results THEN "result" ELSE "error"
    [] OTHER -> "pending"

============================================================================
