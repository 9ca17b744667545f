------------------------- MODULE SidecarExecProofs -------------------------
(***************************************************************************)
(* Proofs about SidecarExec: the codec gives back what was encoded however *)
(* the stream is cut, each connection carries one frame each way, and the  *)
(* executor's conclusions follow.                                          *)
(***************************************************************************)
EXTENDS SidecarExec, SequenceTheorems, TLAPS

----------------------------------------------------------------------------
(* The codec.                                                              *)

\* Division by the number of values of a byte.
LEMMA Division ==
  ASSUME NEW n \in Nat
  PROVE  /\ n \div Base \in Nat /\ n % Base \in Byte
         /\ n = (n \div Base) * Base + (n % Base)
  BY CodecOK, Z3 DEF Byte

\* One byte less to write.
LEMMA Quotient ==
  ASSUME NEW n \in Nat, NEW m \in Nat, n < Base * m
  PROVE  n \div Base < m
<1> DEFINE q == n \div Base
           r == n % Base
<1>1. q \in Nat /\ r \in Nat /\ n = q * Base + r
  BY Division, CodecOK DEF Byte
<1> HIDE DEF q, r
<1>2. q * Base < Base * m
  BY <1>1, CodecOK, Z3
<1>3. q < m
  BY <1>1, <1>2, CodecOK, Z3
<1>4. QED
  BY <1>3 DEF q

\* put_u32 writes HEADER_LEN bytes, and from_be_bytes reads the same number.
LEMMA HeaderValue ==
  ASSUME NEW n \in Nat, n < Base * (Base * (Base * Base))
  PROVE  /\ Header(n) \in Seq(Byte) /\ Len(Header(n)) = HEADER_LEN
         /\ FromBeBytes(Header(n)) = n
<1> DEFINE q1 == n \div Base
           q2 == q1 \div Base
           q3 == q2 \div Base
<1>1. q1 \in Nat /\ n % Base \in Byte /\ n = q1 * Base + (n % Base)
  BY Division
<1>2. q2 \in Nat /\ q1 % Base \in Byte /\ q1 = q2 * Base + (q1 % Base)
  BY <1>1, Division
<1>3. q3 \in Nat /\ q2 % Base \in Byte /\ q2 = q3 * Base + (q2 % Base)
  BY <1>2, Division
<1>4. q1 < Base * (Base * Base)
  BY Quotient, CodecOK
<1>5. q2 < Base * Base
  BY <1>1, <1>4, Quotient, CodecOK
<1>6. q3 < Base
  BY <1>2, <1>5, Quotient, CodecOK
<1>7. q3 % Base = q3 /\ q3 \in Byte
  BY <1>3, <1>6, CodecOK, Z3 DEF Byte
<1>8. Header(n) = <<q3 % Base, q2 % Base, q1 % Base, n % Base>>
  BY DEF Header
<1> HIDE DEF q1, q2, q3
<1>9. Header(n) = <<q3, q2 % Base, q1 % Base, n % Base>>
  BY <1>7, <1>8
<1>10. FromBeBytes(Header(n)) = ((q3 * Base + (q2 % Base)) * Base + (q1 % Base)) * Base + (n % Base)
  BY <1>9 DEF FromBeBytes
<1>11. FromBeBytes(Header(n)) = n
  BY <1>1, <1>2, <1>3, <1>10
<1>12. QED
  BY <1>1, <1>2, <1>3, <1>7, <1>9, <1>11 DEF HEADER_LEN

\* What a stream of two parts holds.
LEMMA Joined ==
  ASSUME NEW a \in Seq(Byte), NEW b \in Seq(Byte)
  PROVE  /\ a \o b \in Seq(Byte) /\ Len(a \o b) = Len(a) + Len(b)
         /\ Len(a) \in Nat /\ Len(b) \in Nat
         /\ \A i \in 1..Len(a) : (a \o b)[i] = a[i]
         /\ \A i \in 1..Len(b) : (a \o b)[Len(a) + i] = b[i]
         /\ b = <<>> <=> Len(b) = 0
         /\ b = <<>> => a \o b = a
<1>1. Len(a) \in Nat /\ Len(b) \in Nat
  BY LenProperties
<1>2. /\ a \o b \in Seq(Byte) /\ Len(a \o b) = Len(a) + Len(b)
      /\ \A i \in 1..(Len(a) + Len(b)) : (a \o b)[i] = IF i <= Len(a) THEN a[i] ELSE b[i - Len(a)]
  BY ConcatProperties
<1>3. \A i \in 1..Len(a) : (a \o b)[i] = a[i]
  BY <1>1, <1>2
<1>4. ASSUME NEW i \in 1..Len(b)
      PROVE  (a \o b)[Len(a) + i] = b[i]
  <2>1. Len(a) + i \in 1..(Len(a) + Len(b)) /\ ~(Len(a) + i <= Len(a)) /\ (Len(a) + i) - Len(a) = i
    BY <1>1
  <2>2. QED
    BY <1>2, <2>1
<1>5. b = <<>> <=> Len(b) = 0
  BY EmptySeq
<1>6. b = <<>> => a \o b = a
  BY ConcatEmptySeq
<1>7. QED
  BY <1>1, <1>2, <1>3, <1>4, <1>5, <1>6

\* The parts of a frame.
LEMMA FrameParts ==
  ASSUME NEW d \in Seq(Byte), Len(d) < Base * (Base * (Base * Base))
  PROVE  /\ Encode(d) \in Seq(Byte) /\ Len(d) \in Nat
         /\ Len(Encode(d)) = HEADER_LEN + Len(d)
         /\ \A i \in 1..HEADER_LEN : Encode(d)[i] = Header(Len(d))[i]
         /\ \A i \in 1..Len(d) : Encode(d)[HEADER_LEN + i] = d[i]
<1>1. Len(d) \in Nat
  OBVIOUS
<1>2. Header(Len(d)) \in Seq(Byte) /\ Len(Header(Len(d))) = HEADER_LEN
  BY <1>1, HeaderValue
<1> DEFINE h == Header(Len(d))
<1>3. h \in Seq(Byte) /\ Len(h) = 4 /\ Encode(d) = h \o d
  BY <1>2 DEF Encode, HEADER_LEN
<1> HIDE DEF h
<1>4. /\ h \o d \in Seq(Byte) /\ Len(h \o d) = Len(h) + Len(d)
      /\ \A i \in 1..Len(h) : (h \o d)[i] = h[i]
      /\ \A i \in 1..Len(d) : (h \o d)[Len(h) + i] = d[i]
  BY <1>3, Joined, Zenon
<1>5. QED
  BY <1>1, <1>3, <1>4 DEF h, HEADER_LEN

\* from_be_bytes looks at the header only.
LEMMA FirstBytes ==
  ASSUME NEW a, NEW b, \A i \in 1..HEADER_LEN : a[i] = b[i]
  PROVE  FromBeBytes(a) = FromBeBytes(b)
<1>1. a[1] = b[1] /\ a[2] = b[2] /\ a[3] = b[3] /\ a[4] = b[4]
  BY DEF HEADER_LEN
<1>2. QED
  BY <1>1 DEF FromBeBytes

\* The length that decode reads at the head of a frame.
LEMMA FrameLength ==
  ASSUME NEW d \in Seq(Byte), Encodable(d),
         NEW a, \A i \in 1..HEADER_LEN : a[i] = Encode(d)[i]
  PROVE  FromBeBytes(a) = Len(d)
<1>1. Len(d) \in Nat /\ Len(d) <= MAX_MESSAGE_SIZE
  BY DEF Encodable
<1> DEFINE top == Base * (Base * (Base * Base))
<1>t. top \in Nat /\ MAX_MESSAGE_SIZE \in Nat /\ MAX_MESSAGE_SIZE + 1 < top
  BY CodecOK
<1>2. Len(d) < top
  <2> HIDE DEF top
  <2>1. QED
    BY <1>1, <1>t
<1>3. \A i \in 1..HEADER_LEN : a[i] = Header(Len(d))[i]
  BY <1>2, FrameParts
<1>4. FromBeBytes(a) = FromBeBytes(Header(Len(d)))
  BY <1>3, FirstBytes
<1>5. QED
  BY <1>1, <1>2, <1>4, HeaderValue

\* The same facts for a payload that encode takes.
LEMMA FrameOf ==
  ASSUME NEW d \in Seq(Byte), Encodable(d)
  PROVE  /\ Encode(d) \in Seq(Byte) /\ Len(d) \in Nat /\ Len(d) <= MAX_MESSAGE_SIZE
         /\ Len(Encode(d)) = HEADER_LEN + Len(d)
         /\ \A i \in 1..HEADER_LEN : Encode(d)[i] = Header(Len(d))[i]
         /\ \A i \in 1..Len(d) : Encode(d)[HEADER_LEN + i] = d[i]
<1>1. Len(d) \in Nat /\ Len(d) <= MAX_MESSAGE_SIZE
  BY DEF Encodable
<1> DEFINE top == Base * (Base * (Base * Base))
<1>t. top \in Nat /\ MAX_MESSAGE_SIZE \in Nat /\ MAX_MESSAGE_SIZE + 1 < top
  BY CodecOK
<1>2. Len(d) < top
  <2> HIDE DEF top
  <2>1. QED
    BY <1>1, <1>t
<1>3. QED
  BY <1>1, <1>2, FrameParts

\* A whole frame at the head of the buffer is taken, and no byte more: whatever
\* follows it, decode gives the payload that was encoded.
THEOREM DecodeFirst ==
  ASSUME NEW d \in Seq(Byte), Encodable(d), NEW rest \in Seq(Byte)
  PROVE  Decode(Encode(d) \o rest) = [kind |-> "frame", data |-> d]
<1> DEFINE src == Encode(d) \o rest
<1>1. /\ Encode(d) \in Seq(Byte) /\ Len(d) \in Nat /\ Len(d) <= MAX_MESSAGE_SIZE
      /\ Len(Encode(d)) = HEADER_LEN + Len(d)
      /\ \A i \in 1..Len(d) : Encode(d)[HEADER_LEN + i] = d[i]
  BY FrameOf
<1>2. /\ Len(src) = HEADER_LEN + Len(d) + Len(rest) /\ Len(rest) \in Nat
      /\ \A i \in 1..(HEADER_LEN + Len(d)) : src[i] = Encode(d)[i]
      /\ src \in Seq(Byte)
  <2> DEFINE e == Encode(d)
  <2>1. e \in Seq(Byte) /\ Len(e) = HEADER_LEN + Len(d) /\ src = e \o rest
    BY <1>1
  <2> HIDE DEF e, src
  <2>2. Len(rest) \in Nat
    BY LenProperties
  <2>3. /\ e \o rest \in Seq(Byte) /\ Len(e \o rest) = Len(e) + Len(rest)
        /\ \A i \in 1..Len(e) : (e \o rest)[i] = e[i]
    BY <2>1, Joined, Zenon
  <2>4. QED
    BY <2>1, <2>2, <2>3 DEF e
<1>3. \A i \in 1..HEADER_LEN : src[i] = Encode(d)[i]
  BY <1>1, <1>2 DEF HEADER_LEN
<1> HIDE DEF src
<1>4. FromBeBytes(src) = Len(d)
  BY <1>3, FrameLength
<1>5. Decode(src) = [kind |-> "frame", data |-> SubSeq(src, HEADER_LEN + 1, HEADER_LEN + Len(d))]
  BY <1>1, <1>2, <1>4, CodecOK DEF Decode, HEADER_LEN
<1>6. SubSeq(src, HEADER_LEN + 1, HEADER_LEN + Len(d)) = d
  BY <1>1, <1>2 DEF HEADER_LEN
<1>7. QED
  BY <1>5, <1>6, Zenon DEF src

\* However the stream is cut, decode waits: of a part a of a frame, with b still
\* to come, it makes nothing until b is empty, and then the payload.
THEOREM DecodeWaits ==
  ASSUME NEW d \in Seq(Byte), Encodable(d),
         NEW a \in Seq(Byte), NEW b \in Seq(Byte), a \o b = Encode(d)
  PROVE  /\ b # <<>> => Decode(a) = Incomplete
         /\ b = <<>> => Decode(a) = [kind |-> "frame", data |-> d]
<1>1. /\ Encode(d) \in Seq(Byte) /\ Len(d) \in Nat /\ Len(d) <= MAX_MESSAGE_SIZE
      /\ Len(Encode(d)) = HEADER_LEN + Len(d)
  BY FrameOf
<1>2. /\ HEADER_LEN + Len(d) = Len(a) + Len(b) /\ Len(a) \in Nat /\ Len(b) \in Nat
      /\ \A i \in 1..Len(a) : a[i] = Encode(d)[i]
      /\ b = <<>> <=> Len(b) = 0
      /\ b = <<>> => a = Encode(d)
  <2>1. /\ Len(a \o b) = Len(a) + Len(b) /\ Len(a) \in Nat /\ Len(b) \in Nat
        /\ \A i \in 1..Len(a) : (a \o b)[i] = a[i]
        /\ b = <<>> <=> Len(b) = 0
        /\ b = <<>> => a \o b = a
    BY Joined, Zenon
  <2>2. QED
    BY <1>1, <2>1, Zenon
<1>3. ASSUME b # <<>>
      PROVE  Decode(a) = Incomplete
  <2>1. CASE Len(a) < HEADER_LEN
    BY <2>1 DEF Decode
  <2>2. CASE ~(Len(a) < HEADER_LEN)
    <3>a. Len(a) \in Nat /\ Len(a) >= 4
      BY <1>2, <2>2 DEF HEADER_LEN
    <3>b. \A i \in 1..4 : i \in 1..Len(a)
      BY <3>a
    <3>1. \A i \in 1..HEADER_LEN : a[i] = Encode(d)[i]
      BY <1>2, <3>b DEF HEADER_LEN
    <3>2. FromBeBytes(a) = Len(d)
      BY <3>1, FrameLength
    <3>3. Len(a) < HEADER_LEN + Len(d)
      BY <1>1, <1>2, <1>3 DEF HEADER_LEN
    <3>4. QED
      BY <1>1, <2>2, <3>2, <3>3, CodecOK DEF Decode
  <2>3. QED
    BY <2>1, <2>2
<1>4. ASSUME b = <<>>
      PROVE  Decode(a) = [kind |-> "frame", data |-> d]
  <2>1. a = Encode(d) \o <<>> /\ <<>> \in Seq(Byte)
    BY <1>1, <1>2, <1>4
  <2>2. QED
    BY <2>1, DecodeFirst, Zenon
<1>5. QED
  BY <1>3, <1>4

\* A header that announces more than the limit is an error once it is whole.
LEMMA DecodeOversized ==
  ASSUME NEW a \in Seq(Byte), NEW b \in Seq(Byte), a \o b = Header(MAX_MESSAGE_SIZE + 1)
  PROVE  Decode(a) \in {Incomplete, Invalid}
<1> DEFINE n == MAX_MESSAGE_SIZE + 1
<1>1. n \in Nat /\ n < Base * (Base * (Base * Base)) /\ n > MAX_MESSAGE_SIZE /\ MAX_MESSAGE_SIZE \in Nat
  BY CodecOK
<1> HIDE DEF n
<1>2. FromBeBytes(Header(n)) = n /\ Len(Header(n)) = HEADER_LEN
  BY <1>1, HeaderValue
<1>3. a \o b = Header(n)
  BY DEF n
<1>4. /\ Len(a \o b) = Len(a) + Len(b) /\ Len(a) \in Nat /\ Len(b) \in Nat
      /\ \A i \in 1..Len(a) : (a \o b)[i] = a[i]
  BY Joined
<1>5. CASE Len(a) < HEADER_LEN
  BY <1>5 DEF Decode
<1>6. CASE ~(Len(a) < HEADER_LEN)
  <2>1. \A i \in 1..HEADER_LEN : a[i] = Header(n)[i]
    BY <1>3, <1>4, <1>6 DEF HEADER_LEN
  <2>2. FromBeBytes(a) = n
    BY <1>2, <2>1, FirstBytes
  <2>3. QED
    BY <1>1, <1>6, <2>2 DEF Decode
<1>7. QED
  BY <1>5, <1>6

----------------------------------------------------------------------------
(* The messages.                                                           *)

LEMMA RequestNames ==
  Requests = {"submit", "status", "cancel", "health", "garbled", "unknown", "oversized"}
  BY DEF Requests, RequestBytes

LEMMA ResponseNames ==
  Responses = {"completed", "failed", "accepted", "running", "cancelled", "other", "error",
               "garbled", "oversized"}
  BY DEF Responses, ResponseBytes

\* The payload that exceeds the limit.
LEMMA TooLong ==
  LET long == [n \in 1..(MAX_MESSAGE_SIZE + 1) |-> 0]
  IN long \in Seq(Byte) /\ Len(long) = MAX_MESSAGE_SIZE + 1 /\ long[1] = 0 /\ long[2] = 0
<1>1. MAX_MESSAGE_SIZE + 1 \in Nat /\ MAX_MESSAGE_SIZE >= 1 /\ MAX_MESSAGE_SIZE \in Nat /\ 0 \in Byte
  BY CodecOK DEF Byte
<1>2. QED
  BY <1>1

\* Every message is a payload of bytes.
LEMMA RequestPayload ==
  ASSUME NEW r \in Requests
  PROVE  RequestBytes[r] \in Seq(Byte)
<1>1. 0 \in Byte /\ 1 \in Byte /\ 2 \in Byte /\ 3 \in Byte
  BY CodecOK, CallOK DEF Byte
<1> DEFINE b == RequestBytes
<1>2. b["oversized"] \in Seq(Byte)
  BY TooLong DEF RequestBytes
<1>3. <<>> \in Seq(Byte) /\ \A x, y \in Byte : <<x>> \in Seq(Byte) /\ <<x, y>> \in Seq(Byte)
  OBVIOUS
<1>4. /\ b["submit"] = <<1>> /\ b["status"] = <<2>> /\ b["cancel"] = <<3>>
      /\ b["health"] = <<1, 1>> /\ b["garbled"] = <<>> /\ b["unknown"] = <<0>>
  BY DEF RequestBytes
<1> HIDE DEF b
<1>5. /\ b["submit"] \in Seq(Byte) /\ b["status"] \in Seq(Byte)
      /\ b["cancel"] \in Seq(Byte) /\ b["health"] \in Seq(Byte)
      /\ b["garbled"] \in Seq(Byte) /\ b["unknown"] \in Seq(Byte)
  BY <1>1, <1>3, <1>4
<1>6. b[r] \in Seq(Byte)
  BY <1>2, <1>5, RequestNames
<1>7. QED
  BY <1>6 DEF b

LEMMA ResponsePayload ==
  ASSUME NEW r \in Responses
  PROVE  ResponseBytes[r] \in Seq(Byte)
<1>1. 0 \in Byte /\ 1 \in Byte /\ 2 \in Byte /\ 3 \in Byte
  BY CodecOK, CallOK DEF Byte
<1> DEFINE b == ResponseBytes
<1>2. b["oversized"] \in Seq(Byte)
  BY TooLong DEF ResponseBytes
<1>3. <<>> \in Seq(Byte) /\ \A x, y \in Byte : <<x>> \in Seq(Byte) /\ <<x, y>> \in Seq(Byte)
  OBVIOUS
<1>4. /\ b["completed"] = <<1>> /\ b["failed"] = <<2>> /\ b["accepted"] = <<3>>
      /\ b["running"] = <<1, 1>> /\ b["cancelled"] = <<1, 2>> /\ b["other"] = <<1, 3>>
      /\ b["error"] = <<0>> /\ b["garbled"] = <<>>
  BY DEF ResponseBytes
<1> HIDE DEF b
<1>5. /\ b["completed"] \in Seq(Byte) /\ b["failed"] \in Seq(Byte)
      /\ b["accepted"] \in Seq(Byte) /\ b["running"] \in Seq(Byte)
      /\ b["cancelled"] \in Seq(Byte) /\ b["other"] \in Seq(Byte)
      /\ b["error"] \in Seq(Byte) /\ b["garbled"] \in Seq(Byte)
  BY <1>1, <1>3, <1>4
<1>6. b[r] \in Seq(Byte)
  BY <1>2, <1>5, ResponseNames
<1>7. QED
  BY <1>6 DEF b

\* serde reads the message that was written.
LEMMA RequestRead ==
  ASSUME NEW r \in Requests
  PROVE  RequestOf(RequestBytes[r]) = r
<1> DEFINE b == RequestBytes
<1>1. /\ Len(b["submit"]) = 1 /\ b["submit"][1] = 1
      /\ Len(b["status"]) = 1 /\ b["status"][1] = 2
      /\ Len(b["cancel"]) = 1 /\ b["cancel"][1] = 3
      /\ Len(b["unknown"]) = 1 /\ b["unknown"][1] = 0
      /\ Len(b["health"]) = 2 /\ b["health"][1] = 1
      /\ Len(b["garbled"]) = 0
  BY DEF RequestBytes
<1>2. Len(b["oversized"]) # 1 /\ Len(b["oversized"]) # 0 /\ b["oversized"][1] = 0
  BY TooLong, CodecOK DEF RequestBytes
<1> HIDE DEF b
<1>3. ASSUME NEW s \in Requests, b[s] = b[r]
      PROVE  s = r
  <2>1. Len(b[s]) = Len(b[r]) /\ b[s][1] = b[r][1] /\ b[s][2] = b[r][2]
    BY <1>3
  <2>3. CASE r = "submit"
    BY <1>1, <1>2, <2>1, <2>3, RequestNames
  <2>4. CASE r = "status"
    BY <1>1, <1>2, <2>1, <2>4, RequestNames
  <2>5. CASE r = "cancel"
    BY <1>1, <1>2, <2>1, <2>5, RequestNames
  <2>6. CASE r = "health"
    BY <1>1, <1>2, <2>1, <2>6, RequestNames
  <2>7. CASE r = "garbled"
    BY <1>1, <1>2, <2>1, <2>7, RequestNames
  <2>8. CASE r = "unknown"
    BY <1>1, <1>2, <2>1, <2>8, RequestNames
  <2>9. CASE r = "oversized"
    BY <1>1, <1>2, <2>1, <2>9, RequestNames
  <2>10. QED
    BY <2>3, <2>4, <2>5, <2>6, <2>7, <2>8, <2>9, RequestNames
<1>4. QED
  BY <1>3 DEF RequestOf, b

LEMMA ResponseRead ==
  ASSUME NEW r \in Responses
  PROVE  ResponseOf(ResponseBytes[r]) = r
<1> DEFINE b == ResponseBytes
<1>1. /\ Len(b["completed"]) = 1 /\ b["completed"][1] = 1
      /\ Len(b["failed"]) = 1 /\ b["failed"][1] = 2
      /\ Len(b["accepted"]) = 1 /\ b["accepted"][1] = 3
      /\ Len(b["error"]) = 1 /\ b["error"][1] = 0
      /\ Len(b["running"]) = 2 /\ b["running"][1] = 1 /\ b["running"][2] = 1
      /\ Len(b["cancelled"]) = 2 /\ b["cancelled"][1] = 1 /\ b["cancelled"][2] = 2
      /\ Len(b["other"]) = 2 /\ b["other"][1] = 1 /\ b["other"][2] = 3
      /\ Len(b["garbled"]) = 0
  BY DEF ResponseBytes
<1>2. Len(b["oversized"]) # 1 /\ Len(b["oversized"]) # 0 /\ b["oversized"][1] = 0
  BY TooLong, CodecOK DEF ResponseBytes
<1> HIDE DEF b
<1>3. ASSUME NEW s \in Responses, b[s] = b[r]
      PROVE  s = r
  <2>1. Len(b[s]) = Len(b[r]) /\ b[s][1] = b[r][1] /\ b[s][2] = b[r][2]
    BY <1>3
  <2>3. CASE r = "completed"
    BY <1>1, <1>2, <2>1, <2>3, ResponseNames
  <2>4. CASE r = "failed"
    BY <1>1, <1>2, <2>1, <2>4, ResponseNames
  <2>5. CASE r = "accepted"
    BY <1>1, <1>2, <2>1, <2>5, ResponseNames
  <2>6. CASE r = "running"
    BY <1>1, <1>2, <2>1, <2>6, ResponseNames
  <2>7. CASE r = "cancelled"
    BY <1>1, <1>2, <2>1, <2>7, ResponseNames
  <2>8. CASE r = "other"
    BY <1>1, <1>2, <2>1, <2>8, ResponseNames
  <2>9. CASE r = "error"
    BY <1>1, <1>2, <2>1, <2>9, ResponseNames
  <2>10. CASE r = "garbled"
    BY <1>1, <1>2, <2>1, <2>10, ResponseNames
  <2>11. CASE r = "oversized"
    BY <1>1, <1>2, <2>1, <2>11, ResponseNames
  <2>12. QED
    BY <2>3, <2>4, <2>5, <2>6, <2>7, <2>8, <2>9, <2>10, <2>11, ResponseNames
<1>4. QED
  BY <1>3 DEF ResponseOf, b

----------------------------------------------------------------------------
(* The inductive invariant of one caller's connection.                     *)

\* What a caller that got as far as sending has put into the socket.
Wire(c) ==
  IF Encodable(RequestBytes[req[c]]) THEN Encode(RequestBytes[req[c]])
  ELSE Header(MAX_MESSAGE_SIZE + 1)

\* Nothing has been read from the caller, and nothing is on its way.
Silent(c) == sbuf[c] = <<>> /\ c2s[c] = <<>>

\* The server's side: what it has read and what is to come is the caller's one
\* frame; the handler only runs with the whole of it.
Inbound(c) ==
  /\ hpc[c] \in {"none", "closed"} => Silent(c)
  /\ hpc[c] = "frame" =>
       \/ Silent(c)
       \/ cpc[c] \in {"wait", "returned"} /\ sbuf[c] \o c2s[c] = Wire(c)
  /\ hpc[c] \in {"handle", "respond"} =>
       /\ cpc[c] \in {"wait", "returned"}
       /\ Encodable(RequestBytes[req[c]]) /\ sbuf[c] = Encode(RequestBytes[req[c]])

\* The caller's side: the same for the one response, which is sent last.
Outbound(c) ==
  \/ cbuf[c] = <<>> /\ s2c[c] = <<>>
  \/ /\ cpc[c] = "wait" /\ hpc[c] = "closed"
     /\ Encodable(ResponseBytes[ans[c]]) /\ cbuf[c] \o s2c[c] = Encode(ResponseBytes[ans[c]])

\* How far the two ends can be from each other.  A caller of call_raw that has
\* returned leaves no request behind that could still be handled.
Ends(c) ==
  /\ open[c] => cpc[c] \in {"send", "wait"}
  /\ ~up => hpc[c] \in {"none", "closed"}
  /\ cpc[c] \in {"send", "wait"} => hpc[c] # "none"
  /\ cpc[c] = "returned" /\ resp[c] # "Err" => resp[c] = ans[c] /\ hpc[c] = "closed"
  /\ c \notin Foreign /\ cpc[c] = "returned" =>
       hpc[c] \in {"none", "closed"} \/ (hpc[c] = "frame" /\ Silent(c))

\* The handler runs once at most, and an answer other than an error is its own.
Once(c) ==
  /\ effects[c] \in {0, 1}
  /\ cpc[c] \in {"idle", "connect", "send"} => effects[c] = 0 /\ ans[c] = "error"
  /\ hpc[c] \in {"frame", "handle"} => effects[c] = 0 /\ ans[c] = "error"
  /\ ans[c] # "error" => effects[c] = 1

ConnInv(c) == Inbound(c) /\ Outbound(c) /\ Ends(c) /\ Once(c)

----------------------------------------------------------------------------
(* The inductive invariant of the executor.                                *)

\* What the executor may be calling, by where it is.
Calling(x) ==
  CASE x = "creds" -> {"health", "unknown"}
    [] x = "submit" -> {"submit", "unknown", "oversized"}
    [] x = "status" -> {"status"}
    [] x = "cancel" -> {"cancel"}
    [] OTHER -> {}

\* An answer that says how the job ended stays true: only "cancel" may be
\* answered without looking at the job.
JobInv ==
  /\ \A c \in Foreign : req[c] \notin {"submit", "status", "cancel"}
  /\ cpc["exec"] # "idle" => req["exec"] \in Calling(xpc)
  /\ cpc["exec"] # "idle" /\ xpc = "creds" => cred < Len(refs) /\ refs[cred + 1] = "sidecar"
  /\ xpc # "cancel" /\ ans["exec"] \in Ended => job = ans["exec"]
  /\ xpc = "cancel" => cancelCalled /\ status \in {"Timeout", "Cancelled"}
  /\ SuccessIsCompleted
  /\ GivesUpByCancelling

ExecTypeOK ==
  /\ xpc \in SidecarPC
  /\ refs \in CredentialRefs /\ cred \in 0..Len(refs)
  /\ job \in JobStates
  /\ poll_index \in 0..1
  /\ cancelled \in BOOLEAN /\ expired \in BOOLEAN /\ cancelCalled \in BOOLEAN
  /\ status \in ExecStatus

CallsInv == CallTypeOK /\ \A c \in Callers : ConnInv(c)

IInv == CallsInv /\ ExecTypeOK /\ JobInv

----------------------------------------------------------------------------
(* What the two ends decode.                                               *)

\* A byte moves from the socket to the buffer.
LEMMA Moved ==
  ASSUME NEW a \in Seq(Byte), NEW b \in Seq(Byte), b # <<>>
  PROVE  /\ Append(a, Head(b)) \in Seq(Byte) /\ Tail(b) \in Seq(Byte)
         /\ Append(a, Head(b)) \o Tail(b) = a \o b
<1>1. Head(b) \in Byte /\ Tail(b) \in Seq(Byte)
  BY HeadTailProperties
<1>2. Append(a, Head(b)) = a \o <<Head(b)>> /\ <<Head(b)>> \in Seq(Byte)
  BY <1>1, AppendIsConcat
<1>3. b = <<Head(b)>> \o Tail(b)
  BY <1>1
<1> DEFINE h == <<Head(b)>>
           t == Tail(b)
<1>4. h \in Seq(Byte) /\ t \in Seq(Byte) /\ b = h \o t /\ Append(a, Head(b)) = a \o h
  BY <1>1, <1>2, <1>3
<1> HIDE DEF h, t
<1>5. (a \o h) \o t = a \o (h \o t)
  BY <1>4, ConcatAssociative
<1>6. a \o h \in Seq(Byte)
  BY <1>4, ConcatProperties
<1>7. Append(a, Head(b)) \in Seq(Byte) /\ t \in Seq(Byte) /\ Append(a, Head(b)) \o t = a \o b
  BY <1>4, <1>5, <1>6, Zenon
<1>8. QED
  BY <1>7 DEF t

LEMMA DecodeNothing == Decode(<<>>) = Incomplete
  BY DEF Decode, HEADER_LEN

LEMMA Kinds ==
  /\ Incomplete.kind = "none" /\ Invalid.kind = "error"
  /\ \A d : [kind |-> "frame", data |-> d].kind = "frame" /\ [kind |-> "frame", data |-> d].data = d
  BY DEF Incomplete, Invalid

\* A frame that handle_connection decodes is the request of its caller.
LEMMA ServerDecodes ==
  ASSUME CallTypeOK, NEW c \in Callers, Inbound(c), hpc[c] = "frame",
         Decode(sbuf[c]).kind = "frame"
  PROVE  /\ cpc[c] \in {"wait", "returned"}
         /\ Encodable(RequestBytes[req[c]]) /\ sbuf[c] = Encode(RequestBytes[req[c]])
         /\ Decode(sbuf[c]).data = RequestBytes[req[c]]
<1> DEFINE d == RequestBytes[req[c]]
<1>1. d \in Seq(Byte) /\ sbuf[c] \in Seq(Byte) /\ c2s[c] \in Seq(Byte)
  BY RequestPayload DEF CallTypeOK
<1>2. sbuf[c] # <<>>
  BY DecodeNothing, Kinds
<1>3. cpc[c] \in {"wait", "returned"} /\ sbuf[c] \o c2s[c] = Wire(c)
  BY <1>2, Zenon DEF Inbound, Silent
<1> HIDE DEF d
<1>4. CASE Encodable(d)
  <2>1. sbuf[c] \o c2s[c] = Encode(d)
    BY <1>3, <1>4 DEF Wire, d
  <2>2. c2s[c] # <<>> => Decode(sbuf[c]) = Incomplete
    BY <1>1, <1>4, <2>1, DecodeWaits, Zenon
  <2>3. c2s[c] = <<>>
    BY <2>2, Kinds
  <2>4. Decode(sbuf[c]) = [kind |-> "frame", data |-> d]
    BY <1>1, <1>4, <2>1, <2>3, DecodeWaits, Zenon
  <2>5. sbuf[c] = Encode(d)
    BY <1>1, <2>1, <2>3, ConcatEmptySeq
  <2>6. QED
    BY <1>3, <1>4, <2>4, <2>5, Kinds DEF d
<1>5. CASE ~Encodable(d)
  <2>1. sbuf[c] \o c2s[c] = Header(MAX_MESSAGE_SIZE + 1)
    BY <1>3, <1>5 DEF Wire, d
  <2>2. Decode(sbuf[c]) \in {Incomplete, Invalid}
    BY <1>1, <2>1, DecodeOversized, Zenon
  <2>3. QED
    BY <2>2, Kinds
<1>6. QED
  BY <1>4, <1>5

\* The request that a running handler was given.
LEMMA AskedIsReq ==
  ASSUME CallTypeOK, NEW c \in Callers, Inbound(c), hpc[c] = "handle"
  PROVE  Asked(c) = req[c]
<1> DEFINE d == RequestBytes[req[c]]
<1>1. req[c] \in Requests /\ d \in Seq(Byte) /\ sbuf[c] \in Seq(Byte)
  BY RequestPayload DEF CallTypeOK
<1>2. Encodable(d) /\ sbuf[c] = Encode(d)
  BY DEF Inbound
<1> HIDE DEF d
<1>3. sbuf[c] \o <<>> = Encode(d) /\ <<>> \in Seq(Byte)
  BY <1>1, <1>2, ConcatEmptySeq
<1>4. Decode(sbuf[c]) = [kind |-> "frame", data |-> d]
  BY <1>1, <1>2, <1>3, DecodeWaits, Zenon
<1>5. Decode(sbuf[c]).data = d
  BY <1>4, Kinds
<1>6. QED
  BY <1>1, <1>5, RequestRead DEF Asked, d

\* A frame that call_raw decodes is the response that was sent to it, and there
\* is no invalid one.
LEMMA CallerDecodes ==
  ASSUME CallTypeOK, NEW c \in Callers, Outbound(c)
  PROVE  /\ Decode(cbuf[c]).kind # "error"
         /\ Decode(cbuf[c]).kind = "frame" =>
              hpc[c] = "closed" /\ ResponseOf(Decode(cbuf[c]).data) = ans[c]
<1> DEFINE d == ResponseBytes[ans[c]]
<1>1. ans[c] \in Responses /\ d \in Seq(Byte) /\ cbuf[c] \in Seq(Byte) /\ s2c[c] \in Seq(Byte)
  BY ResponsePayload DEF CallTypeOK
<1>2. CASE cbuf[c] = <<>>
  BY <1>2, DecodeNothing, Kinds
<1>3. CASE hpc[c] = "closed" /\ Encodable(d) /\ cbuf[c] \o s2c[c] = Encode(d)
  <2> HIDE DEF d
  <2>1. Decode(cbuf[c]) = Incomplete \/ Decode(cbuf[c]) = [kind |-> "frame", data |-> d]
    BY <1>1, <1>3, DecodeWaits, Zenon
  <2>2. CASE Decode(cbuf[c]) = Incomplete
    BY <2>2, Kinds
  <2>3. CASE Decode(cbuf[c]) = [kind |-> "frame", data |-> d]
    <3>1. Decode(cbuf[c]).kind = "frame" /\ Decode(cbuf[c]).data = d
      BY <2>3, Kinds
    <3>2. ResponseOf(d) = ans[c]
      BY <1>1, ResponseRead DEF d
    <3>3. QED
      BY <1>3, <3>1, <3>2
  <2>4. QED
    BY <2>1, <2>2, <2>3
<1>4. QED
  BY <1>2, <1>3, Zenon DEF Outbound

----------------------------------------------------------------------------
(* Steps of a connection.                                                  *)

\* A step leaves c's call and its connection alone.
Same(c) ==
  /\ cpc'[c] = cpc[c] /\ req'[c] = req[c] /\ resp'[c] = resp[c]
  /\ hpc'[c] = hpc[c] /\ open'[c] = open[c]
  /\ c2s'[c] = c2s[c] /\ s2c'[c] = s2c[c] /\ sbuf'[c] = sbuf[c] /\ cbuf'[c] = cbuf[c]
  /\ ans'[c] = ans[c] /\ effects'[c] = effects[c]

\* A step of c's call keeps its invariant and leaves the other calls alone.
Keeps(c) ==
  /\ CallTypeOK' /\ up' = up
  /\ ConnInv(c)'
  /\ \A d \in Callers \ {c} : Same(d)

LEMMA SameKept ==
  ASSUME NEW c \in Callers, ConnInv(c), Same(c), up' = up
  PROVE  ConnInv(c)'
<1>1. Inbound(c)'
  BY Zenon DEF ConnInv, Inbound, Silent, Wire, Same
<1>2. Outbound(c)'
  BY Zenon DEF ConnInv, Outbound, Same
<1>3. Ends(c)'
  BY Zenon DEF ConnInv, Ends, Silent, Same
<1>4. Once(c)'
  BY Zenon DEF ConnInv, Once, Same
<1>5. QED
  BY <1>1, <1>2, <1>3, <1>4 DEF ConnInv

LEMMA BeginKeeps ==
  ASSUME CallTypeOK, NEW c \in Callers, ConnInv(c), NEW r \in Requests, Begin(c, r)
  PROVE  Keeps(c)
<1>1. CallTypeOK'
  BY DEF CallTypeOK, Begin, CallPC, connVars
<1>2. \A d \in Callers \ {c} : Same(d)
  BY DEF CallTypeOK, Begin, connVars, Same
<1>3. /\ cpc[c] = "idle" /\ cpc'[c] = "connect" /\ up' = up
      /\ resp'[c] = resp[c] /\ hpc'[c] = hpc[c] /\ open'[c] = open[c]
      /\ c2s'[c] = c2s[c] /\ s2c'[c] = s2c[c] /\ sbuf'[c] = sbuf[c] /\ cbuf'[c] = cbuf[c]
      /\ ans'[c] = ans[c] /\ effects'[c] = effects[c]
  BY DEF CallTypeOK, Begin, connVars
<1>4. Inbound(c)'
  BY <1>3, Zenon DEF ConnInv, Inbound, Silent
<1>5. Outbound(c)'
  BY <1>3, Zenon DEF ConnInv, Outbound
<1>6. Ends(c)'
  BY <1>3, Zenon DEF ConnInv, Ends, Silent
<1>7. Once(c)'
  BY <1>3, Zenon DEF ConnInv, Once
<1>8. QED
  BY <1>1, <1>2, <1>3, <1>4, <1>5, <1>6, <1>7, Zenon DEF Keeps, ConnInv

\* A new connection starts silent.
LEMMA ConnectKeeps ==
  ASSUME CallTypeOK, NEW c \in Callers, ConnInv(c), Connect(c)
  PROVE  Keeps(c)
<1>1. CallTypeOK'
  BY DEF CallTypeOK, CallPC, HandlerPC, Connect
<1>2. \A d \in Callers \ {c} : Same(d)
  BY DEF CallTypeOK, Same, Connect
<1>3. /\ cpc[c] = "connect" /\ hpc[c] \in {"none", "closed"} /\ up
      /\ cpc'[c] = "send" /\ req'[c] = req[c] /\ resp'[c] = resp[c]
      /\ hpc'[c] = "frame" /\ open'[c] = TRUE /\ c2s'[c] = c2s[c] /\ s2c'[c] = s2c[c]
      /\ sbuf'[c] = sbuf[c] /\ cbuf'[c] = cbuf[c] /\ ans'[c] = ans[c]
      /\ effects'[c] = effects[c] /\ up' = up
  BY DEF CallTypeOK, Connect
<1>4. Inbound(c)'
  BY <1>3, Zenon DEF ConnInv, Inbound, Silent, Wire
<1>5. Outbound(c)'
  BY <1>3, Zenon DEF ConnInv, Outbound
<1>6. Ends(c)'
  BY <1>3, Zenon DEF ConnInv, Ends, Silent
<1>7. Once(c)'
  BY <1>3, Zenon DEF ConnInv, Once
<1>8. QED
  BY <1>1, <1>2, <1>3, <1>4, <1>5, <1>6, <1>7, Zenon DEF Keeps, ConnInv

\* The frame is put into the socket at once.
LEMMA SendKeeps ==
  ASSUME CallTypeOK, NEW c \in Callers, ConnInv(c), Send(c)
  PROVE  Keeps(c)
<1>a. RequestBytes[req[c]] \in Seq(Byte) /\ Encode(RequestBytes[req[c]]) \in Seq(Byte)
  BY RequestPayload, FrameOf, Zenon DEF CallTypeOK, Send
<1>b. <<>> \o Encode(RequestBytes[req[c]]) = Encode(RequestBytes[req[c]])
  BY <1>a, ConcatEmptySeq
<1>1. CallTypeOK'
  BY <1>a DEF CallTypeOK, CallPC, HandlerPC, Send
<1>2. \A d \in Callers \ {c} : Same(d)
  BY DEF CallTypeOK, Same, Send
<1>3. /\ cpc[c] = "send" /\ hpc[c] # "closed" /\ Encodable(RequestBytes[req[c]])
      /\ cpc'[c] = "wait" /\ req'[c] = req[c] /\ resp'[c] = resp[c]
      /\ hpc'[c] = hpc[c] /\ open'[c] = open[c]
      /\ c2s'[c] = Encode(RequestBytes[req[c]]) /\ s2c'[c] = s2c[c]
      /\ sbuf'[c] = sbuf[c] /\ cbuf'[c] = cbuf[c] /\ ans'[c] = ans[c]
      /\ effects'[c] = effects[c] /\ up' = up
  BY DEF CallTypeOK, Send
<1>c. hpc[c] = "frame" /\ sbuf[c] = <<>>
  BY <1>3, Zenon DEF ConnInv, Inbound, Ends, Silent, CallTypeOK, HandlerPC
<1>d. sbuf'[c] \o c2s'[c] = Wire(c)'
  BY <1>3, <1>b, <1>c, Zenon DEF Wire
<1>4. Inbound(c)'
  BY <1>3, <1>c, <1>d DEF Inbound
<1>5. Outbound(c)'
  BY <1>3, Zenon DEF ConnInv, Outbound
<1>6. Ends(c)'
  BY <1>3 DEF ConnInv, Ends, Silent
<1>7. Once(c)'
  BY <1>3, Zenon DEF ConnInv, Once
<1>8. QED
  BY <1>1, <1>2, <1>3, <1>4, <1>5, <1>6, <1>7, Zenon DEF Keeps, ConnInv

\* So is the header of an oversized frame.
LEMMA SendRawKeeps ==
  ASSUME CallTypeOK, NEW c \in Callers, ConnInv(c), SendRaw(c)
  PROVE  Keeps(c)
<1>a. Header(MAX_MESSAGE_SIZE + 1) \in Seq(Byte)
  BY HeaderValue, CodecOK
<1>b. <<>> \o Header(MAX_MESSAGE_SIZE + 1) = Header(MAX_MESSAGE_SIZE + 1)
  BY <1>a, ConcatEmptySeq
<1>1. CallTypeOK'
  BY <1>a DEF CallTypeOK, CallPC, HandlerPC, SendRaw
<1>2. \A d \in Callers \ {c} : Same(d)
  BY DEF CallTypeOK, Same, SendRaw
<1>3. /\ cpc[c] = "send" /\ hpc[c] # "closed" /\ ~Encodable(RequestBytes[req[c]])
      /\ cpc'[c] = "wait" /\ req'[c] = req[c] /\ resp'[c] = resp[c]
      /\ hpc'[c] = hpc[c] /\ open'[c] = open[c]
      /\ c2s'[c] = Header(MAX_MESSAGE_SIZE + 1) /\ s2c'[c] = s2c[c]
      /\ sbuf'[c] = sbuf[c] /\ cbuf'[c] = cbuf[c] /\ ans'[c] = ans[c]
      /\ effects'[c] = effects[c] /\ up' = up
  BY DEF CallTypeOK, SendRaw
<1>c. hpc[c] = "frame" /\ sbuf[c] = <<>>
  BY <1>3, Zenon DEF ConnInv, Inbound, Ends, Silent, CallTypeOK, HandlerPC
<1>d. sbuf'[c] \o c2s'[c] = Wire(c)'
  BY <1>3, <1>b, <1>c, Zenon DEF Wire
<1>4. Inbound(c)'
  BY <1>3, <1>c, <1>d, Zenon DEF Inbound
<1>5. Outbound(c)'
  BY <1>3, Zenon DEF ConnInv, Outbound
<1>6. Ends(c)'
  BY <1>3, Zenon DEF ConnInv, Ends, Silent
<1>7. Once(c)'
  BY <1>3, Zenon DEF ConnInv, Once
<1>8. QED
  BY <1>1, <1>2, <1>3, <1>4, <1>5, <1>6, <1>7, Zenon DEF Keeps, ConnInv

\* call_raw returns: with the answer that was sent, or with an error when no
\* request of it is left behind.
LEMMA ReturnKeeps ==
  ASSUME CallTypeOK, NEW c \in Callers, ConnInv(c), cpc[c] \in {"connect", "send", "wait"},
         NEW a \in Responses \cup {"Err"}, Returns(c, a),
         UNCHANGED <<up, stops, req, hpc, c2s, sbuf, ans, effects>>,
         a # "Err" => a = ans[c] /\ hpc[c] = "closed",
         c \notin Foreign => hpc[c] \in {"none", "closed"} \/ (hpc[c] = "frame" /\ Silent(c))
  PROVE  Keeps(c)
<1>1. CallTypeOK'
  BY DEF CallTypeOK, CallPC, HandlerPC, Returns
<1>2. \A d \in Callers \ {c} : Same(d)
  BY DEF CallTypeOK, Same, Returns
<1>3. /\ cpc'[c] = "returned" /\ req'[c] = req[c] /\ resp'[c] = a /\ hpc'[c] = hpc[c]
      /\ open'[c] = FALSE /\ c2s'[c] = c2s[c] /\ s2c'[c] = <<>> /\ sbuf'[c] = sbuf[c]
      /\ cbuf'[c] = <<>> /\ ans'[c] = ans[c] /\ effects'[c] = effects[c] /\ up' = up
  BY DEF CallTypeOK, Returns
<1>4. Inbound(c)'
  BY <1>3, Zenon DEF ConnInv, Inbound, Silent, Wire
<1>5. Outbound(c)'
  BY <1>3, Zenon DEF ConnInv, Outbound
<1>6. Ends(c)'
  <2>1. ~(open'[c])
    BY <1>3, Zenon
  <2>a. up' = up /\ hpc'[c] = hpc[c]
    BY <1>3, Zenon
  <2>b. ~up => hpc[c] \in {"none", "closed"}
    BY Zenon DEF ConnInv, Ends
  <2>2. ~up' => hpc'[c] \in {"none", "closed"}
    BY <2>a, <2>b
  <2>3. resp'[c] # "Err" => resp'[c] = ans'[c] /\ hpc'[c] = "closed"
    BY <1>3, Zenon
  <2>4. c \notin Foreign => hpc'[c] \in {"none", "closed"} \/ (hpc'[c] = "frame" /\ Silent(c)')
    BY <1>3 DEF Silent
  <2>5. cpc'[c] = "returned"
    BY <1>3
  <2>6. QED
    BY <2>1, <2>2, <2>3, <2>4, <2>5, Zenon DEF Ends
<1>7. Once(c)'
  BY <1>3, Zenon DEF ConnInv, Once
<1>8. QED
  BY <1>1, <1>2, <1>3, <1>4, <1>5, <1>6, <1>7, Zenon DEF Keeps, ConnInv

\* Reading cuts the response elsewhere, and loses nothing of it.
LEMMA CallerReadsKeeps ==
  ASSUME CallTypeOK, NEW c \in Callers, ConnInv(c), CallerReads(c)
  PROVE  Keeps(c)
<1>a. /\ Append(cbuf[c], Head(s2c[c])) \in Seq(Byte) /\ Tail(s2c[c]) \in Seq(Byte)
      /\ Append(cbuf[c], Head(s2c[c])) \o Tail(s2c[c]) = cbuf[c] \o s2c[c]
  BY Moved, Zenon DEF CallTypeOK, CallerReads
<1>1. CallTypeOK'
  BY <1>a DEF CallTypeOK, CallPC, HandlerPC, CallerReads
<1>2. \A d \in Callers \ {c} : Same(d)
  BY DEF CallTypeOK, Same, CallerReads
<1>3. /\ s2c[c] # <<>> /\ cpc'[c] = cpc[c] /\ req'[c] = req[c] /\ resp'[c] = resp[c]
      /\ hpc'[c] = hpc[c] /\ open'[c] = open[c] /\ c2s'[c] = c2s[c]
      /\ s2c'[c] = Tail(s2c[c]) /\ sbuf'[c] = sbuf[c]
      /\ cbuf'[c] = Append(cbuf[c], Head(s2c[c])) /\ ans'[c] = ans[c]
      /\ effects'[c] = effects[c] /\ up' = up
  BY DEF CallTypeOK, CallerReads
<1>4. Inbound(c)'
  BY <1>3, Zenon DEF ConnInv, Inbound, Silent, Wire
<1>5. Outbound(c)'
  BY <1>3, <1>a, Zenon DEF ConnInv, Outbound
<1>6. Ends(c)'
  BY <1>3 DEF ConnInv, Ends, Silent
<1>7. Once(c)'
  BY <1>3, Zenon DEF ConnInv, Once
<1>8. QED
  BY <1>1, <1>2, <1>3, <1>4, <1>5, <1>6, <1>7, Zenon DEF Keeps, ConnInv

\* The same for the request.
LEMMA ServerReadsKeeps ==
  ASSUME CallTypeOK, NEW c \in Callers, ConnInv(c), ServerReads(c)
  PROVE  Keeps(c)
<1>a. /\ Append(sbuf[c], Head(c2s[c])) \in Seq(Byte) /\ Tail(c2s[c]) \in Seq(Byte)
      /\ Append(sbuf[c], Head(c2s[c])) \o Tail(c2s[c]) = sbuf[c] \o c2s[c]
  BY Moved, Zenon DEF CallTypeOK, ServerReads
<1>1. CallTypeOK'
  BY <1>a DEF CallTypeOK, CallPC, HandlerPC, ServerReads
<1>2. \A d \in Callers \ {c} : Same(d)
  BY DEF CallTypeOK, Same, ServerReads
<1>3. /\ hpc[c] = "frame" /\ c2s[c] # <<>> /\ cpc'[c] = cpc[c] /\ req'[c] = req[c]
      /\ resp'[c] = resp[c] /\ hpc'[c] = hpc[c] /\ open'[c] = open[c]
      /\ c2s'[c] = Tail(c2s[c]) /\ s2c'[c] = s2c[c]
      /\ sbuf'[c] = Append(sbuf[c], Head(c2s[c])) /\ cbuf'[c] = cbuf[c]
      /\ ans'[c] = ans[c] /\ effects'[c] = effects[c] /\ up' = up
  BY DEF CallTypeOK, ServerReads
<1>4. Inbound(c)'
  BY <1>3, <1>a, Zenon DEF ConnInv, Inbound, Silent, Wire
<1>5. Outbound(c)'
  BY <1>3, Zenon DEF ConnInv, Outbound
<1>6. Ends(c)'
  BY <1>3, Zenon DEF ConnInv, Ends, Silent
<1>7. Once(c)'
  BY <1>3, Zenon DEF ConnInv, Once
<1>8. QED
  BY <1>1, <1>2, <1>3, <1>4, <1>5, <1>6, <1>7, Zenon DEF Keeps, ConnInv

\* A connection without a frame is dropped.
LEMMA NoFrameKeeps ==
  ASSUME CallTypeOK, NEW c \in Callers, ConnInv(c), NoFrame(c)
  PROVE  Keeps(c)
<1>1. CallTypeOK'
  BY DEF CallTypeOK, CallPC, HandlerPC, NoFrame
<1>2. \A d \in Callers \ {c} : Same(d)
  BY DEF CallTypeOK, Same, NoFrame
<1>3. /\ hpc[c] = "frame" /\ cpc'[c] = cpc[c] /\ req'[c] = req[c]
      /\ resp'[c] = resp[c] /\ hpc'[c] = "closed" /\ open'[c] = open[c]
      /\ c2s'[c] = <<>> /\ s2c'[c] = s2c[c] /\ sbuf'[c] = <<>> /\ cbuf'[c] = cbuf[c]
      /\ ans'[c] = ans[c] /\ effects'[c] = effects[c] /\ up' = up
  BY DEF CallTypeOK, NoFrame
<1>4. Inbound(c)'
  BY <1>3, Zenon DEF ConnInv, Inbound, Silent, Wire
<1>5. Outbound(c)'
  BY <1>3, Zenon DEF ConnInv, Outbound
<1>6. Ends(c)'
  BY <1>3, Zenon DEF ConnInv, Ends, Silent
<1>7. Once(c)'
  BY <1>3, Zenon DEF ConnInv, Once
<1>8. QED
  BY <1>1, <1>2, <1>3, <1>4, <1>5, <1>6, <1>7, Zenon DEF Keeps, ConnInv

\* The handler runs, for the first time.
LEMMA HandlerRunsKeeps ==
  ASSUME CallTypeOK, NEW c \in Callers, ConnInv(c), NEW a \in Responses, HandlerRuns(c, a)
  PROVE  Keeps(c)
<1>1. CallTypeOK'
  BY DEF CallTypeOK, CallPC, HandlerPC, HandlerRuns
<1>2. \A d \in Callers \ {c} : Same(d)
  BY DEF CallTypeOK, Same, HandlerRuns
<1>3. /\ hpc[c] = "handle" /\ cpc'[c] = cpc[c] /\ req'[c] = req[c]
      /\ resp'[c] = resp[c] /\ hpc'[c] = "respond" /\ open'[c] = open[c]
      /\ c2s'[c] = c2s[c] /\ s2c'[c] = s2c[c] /\ sbuf'[c] = sbuf[c]
      /\ cbuf'[c] = cbuf[c] /\ ans'[c] = a /\ effects'[c] = effects[c] + 1
      /\ up' = up
  BY DEF CallTypeOK, HandlerRuns
<1>4. Inbound(c)'
  BY <1>3, Zenon DEF ConnInv, Inbound, Silent, Wire
<1>5. Outbound(c)'
  BY <1>3, Zenon DEF ConnInv, Outbound
<1>6. Ends(c)'
  BY <1>3, Zenon DEF ConnInv, Ends, Silent
<1>c. effects[c] = 0 /\ cpc[c] \in {"wait", "returned"}
  BY <1>3, Zenon DEF ConnInv, Once, Inbound
<1>e. effects'[c] = effects[c] + 1 /\ effects[c] = 0
  BY <1>3, <1>c, Zenon
<1>d. effects'[c] = 1
  BY <1>e
<1>7. Once(c)'
  BY <1>3, <1>c, <1>d, Zenon DEF Once
<1>8. QED
  BY <1>1, <1>2, <1>3, <1>4, <1>5, <1>6, <1>7, Zenon DEF Keeps, ConnInv

\* The response is put into the socket at once, if it is sent at all.
LEMMA SendResponseKeeps ==
  ASSUME CallTypeOK, NEW c \in Callers, ConnInv(c), SendResponse(c)
  PROVE  Keeps(c)
<1>a. /\ ResponseBytes[ans[c]] \in Seq(Byte)
      /\ Encodable(ResponseBytes[ans[c]]) => Encode(ResponseBytes[ans[c]]) \in Seq(Byte)
  BY ResponsePayload, FrameOf, Zenon DEF CallTypeOK
<1>b. Encodable(ResponseBytes[ans[c]]) => <<>> \o Encode(ResponseBytes[ans[c]]) = Encode(ResponseBytes[ans[c]])
  BY <1>a, ConcatEmptySeq
<1>1. CallTypeOK'
  BY <1>a DEF CallTypeOK, CallPC, HandlerPC, SendResponse
<1>2. \A d \in Callers \ {c} : Same(d)
  BY DEF CallTypeOK, Same, SendResponse
<1>3. /\ hpc[c] = "respond"
      /\ s2c'[c] \in {<<>>} \cup (IF Encodable(ResponseBytes[ans[c]]) /\ open[c] THEN {Encode(ResponseBytes[ans[c]])} ELSE {})
      /\ cpc'[c] = cpc[c] /\ req'[c] = req[c] /\ resp'[c] = resp[c]
      /\ hpc'[c] = "closed" /\ open'[c] = open[c] /\ c2s'[c] = <<>>
      /\ sbuf'[c] = <<>> /\ cbuf'[c] = cbuf[c] /\ ans'[c] = ans[c]
      /\ effects'[c] = effects[c] /\ up' = up
  BY DEF CallTypeOK, SendResponse
<1>4. Inbound(c)'
  BY <1>3, Zenon DEF ConnInv, Inbound, Silent, Wire
<1>c. cbuf[c] = <<>> /\ (open[c] => cpc[c] = "wait")
  BY <1>3, Zenon DEF ConnInv, Outbound, Inbound, Ends
<1>5. Outbound(c)'
  BY <1>3, <1>b, <1>c, Zenon DEF Outbound
<1>6. Ends(c)'
  BY <1>3, Zenon DEF ConnInv, Ends, Silent
<1>7. Once(c)'
  BY <1>3, Zenon DEF ConnInv, Once
<1>8. QED
  BY <1>1, <1>2, <1>3, <1>4, <1>5, <1>6, <1>7, Zenon DEF Keeps, ConnInv

\* A complete frame is the whole request, and its connection has read all of it.
LEMMA DispatchKeeps ==
  ASSUME CallTypeOK, NEW c \in Callers, ConnInv(c), Dispatch(c)
  PROVE  Keeps(c)
<1>1. CallTypeOK'
  BY ResponseNames, Zenon DEF CallTypeOK, CallPC, HandlerPC, Dispatch
<1>2. \A d \in Callers \ {c} : Same(d)
  BY DEF CallTypeOK, Same, Dispatch
<1>3. /\ hpc[c] = "frame" /\ Decode(sbuf[c]).kind = "frame"
      /\ hpc'[c] \in {"handle", "respond"} /\ ans'[c] \in {ans[c], "error"}
      /\ cpc'[c] = cpc[c] /\ req'[c] = req[c] /\ resp'[c] = resp[c]
      /\ open'[c] = open[c] /\ c2s'[c] = c2s[c] /\ s2c'[c] = s2c[c]
      /\ sbuf'[c] = sbuf[c] /\ cbuf'[c] = cbuf[c] /\ effects'[c] = effects[c]
      /\ up' = up
  BY DEF CallTypeOK, Dispatch
<1>a. /\ cpc[c] \in {"wait", "returned"} /\ Encodable(RequestBytes[req[c]])
      /\ sbuf[c] = Encode(RequestBytes[req[c]])
  BY <1>3, ServerDecodes, Zenon DEF ConnInv
<1>4. Inbound(c)'
  BY <1>3, <1>a, Zenon DEF Inbound
<1>b. effects[c] = 0 /\ ans[c] = "error" /\ sbuf[c] # <<>>
  BY <1>3, DecodeNothing, Kinds, Zenon DEF ConnInv, Once
<1>5. Outbound(c)'
  BY <1>3, Zenon DEF ConnInv, Outbound
<1>6. Ends(c)'
  BY <1>3, <1>b, Zenon DEF ConnInv, Ends, Silent
<1>7. Once(c)'
  BY <1>3, <1>a, <1>b, Zenon DEF Once
<1>8. QED
  BY <1>1, <1>2, <1>3, <1>4, <1>5, <1>6, <1>7, Zenon DEF Keeps, ConnInv

\* A call is forgotten only when nothing of it can still be handled.
LEMMA UseKeeps ==
  ASSUME CallTypeOK, NEW c \in Callers, ConnInv(c), c \notin Foreign \/ hpc[c] \in {"none", "closed"}, Use(c)
  PROVE  Keeps(c)
<1>1. CallTypeOK'
  BY RequestNames, ResponseNames DEF CallTypeOK, CallPC, HandlerPC, Use
<1>2. \A d \in Callers \ {c} : Same(d)
  BY DEF CallTypeOK, Same, Use
<1>3. /\ cpc[c] = "returned" /\ cpc'[c] = "idle" /\ req'[c] = "garbled"
      /\ resp'[c] = "Err" /\ hpc'[c] = (IF hpc[c] = "closed" THEN "none" ELSE hpc[c])
      /\ open'[c] = open[c] /\ c2s'[c] = c2s[c] /\ s2c'[c] = s2c[c]
      /\ sbuf'[c] = sbuf[c] /\ cbuf'[c] = cbuf[c] /\ ans'[c] = "error"
      /\ effects'[c] = 0 /\ up' = up
  BY DEF CallTypeOK, Use
<1>a. hpc[c] \in {"none", "closed", "frame"} /\ Silent(c)
  BY Zenon DEF ConnInv, Ends, Inbound, Use
<1>4. Inbound(c)'
  BY <1>3, <1>a, Zenon DEF Inbound, Silent
<1>5. Outbound(c)'
  BY <1>3, Zenon DEF ConnInv, Outbound
<1>6. Ends(c)'
  BY <1>3, Zenon DEF ConnInv, Ends, Silent
<1>7. Once(c)'
  BY <1>3, Zenon DEF ConnInv, Once
<1>8. QED
  BY <1>1, <1>2, <1>3, <1>4, <1>5, <1>6, <1>7, Zenon DEF Keeps, ConnInv

\* The five ways in which call_raw returns.
LEMMA ConnectRefusedKeeps ==
  ASSUME CallTypeOK, NEW c \in Callers, ConnInv(c), ConnectRefused(c)
  PROVE  Keeps(c)
<1>1. ~up /\ cpc[c] = "connect" /\ Returns(c, "Err")
      /\ UNCHANGED <<up, stops, req, hpc, c2s, sbuf, ans, effects>>
  BY DEF ConnectRefused
<1>2. hpc[c] \in {"none", "closed"}
  BY <1>1 DEF ConnInv, Ends
<1>3. QED
  BY <1>1, <1>2, ReturnKeeps, Zenon

LEMMA SendFailsKeeps ==
  ASSUME CallTypeOK, NEW c \in Callers, ConnInv(c), SendFails(c)
  PROVE  Keeps(c)
<1>1. cpc[c] = "send" /\ Returns(c, "Err")
      /\ UNCHANGED <<up, stops, req, hpc, c2s, sbuf, ans, effects>>
  BY DEF SendFails
<1>2. hpc[c] \in {"none", "closed"} \/ (hpc[c] = "frame" /\ Silent(c))
  BY <1>1 DEF ConnInv, Inbound, CallTypeOK, HandlerPC
<1>3. QED
  BY <1>1, <1>2, ReturnKeeps

LEMMA AnsweredKeeps ==
  ASSUME CallTypeOK, NEW c \in Callers, ConnInv(c), Answered(c)
  PROVE  Keeps(c)
<1> DEFINE r == ResponseOf(Decode(cbuf[c]).data)
           a == IF r = "garbled" THEN "Err" ELSE r
<1>1. cpc[c] = "wait" /\ Decode(cbuf[c]).kind = "frame" /\ Returns(c, a)
      /\ UNCHANGED <<up, stops, req, hpc, c2s, sbuf, ans, effects>>
  BY Zenon DEF Answered
<1>2. hpc[c] = "closed" /\ r = ans[c] /\ ans[c] \in Responses
  BY <1>1, CallerDecodes DEF ConnInv, CallTypeOK
<1>3. a \in Responses \cup {"Err"} /\ (a # "Err" => a = ans[c])
  BY <1>2, Zenon
<1> HIDE DEF a
<1>4. QED
  BY <1>1, <1>2, <1>3, ReturnKeeps, Zenon

LEMMA UnansweredKeeps ==
  ASSUME CallTypeOK, NEW c \in Callers, ConnInv(c), Unanswered(c)
  PROVE  Keeps(c)
<1>1. cpc[c] = "wait" /\ Returns(c, "Err")
      /\ UNCHANGED <<up, stops, req, hpc, c2s, sbuf, ans, effects>>
  BY Zenon DEF Unanswered
<1>2. hpc[c] = "closed"
  BY CallerDecodes, Zenon DEF ConnInv, Unanswered
<1>3. QED
  BY <1>1, <1>2, ReturnKeeps, Zenon

LEMMA DisconnectKeeps ==
  ASSUME CallTypeOK, NEW c \in Callers, ConnInv(c), Disconnect(c)
  PROVE  Keeps(c)
<1>1. c \in Foreign /\ cpc[c] \in {"send", "wait"} /\ Returns(c, "Err")
      /\ UNCHANGED <<up, stops, req, hpc, c2s, sbuf, ans, effects>>
  BY DEF Disconnect
<1>2. QED
  BY <1>1, ReturnKeeps, Zenon

\* The server stops wherever its connections are: what it had sent is kept.
LEMMA ServerStopsKeeps ==
  ASSUME CallTypeOK, NEW c \in Callers, ConnInv(c), ServerStops
  PROVE  ConnInv(c)'
<1>1. /\ hpc'[c] = (IF hpc[c] = "none" THEN "none" ELSE "closed")
      /\ c2s'[c] = <<>> /\ sbuf'[c] = <<>>
      /\ UNCHANGED <<cpc, req, resp, open, s2c, cbuf, ans, effects>>
  BY DEF ServerStops
<1>2. Inbound(c)'
  BY <1>1 DEF Inbound, Silent
<1>3. Outbound(c)'
  BY <1>1, Zenon DEF ConnInv, Outbound
<1>4. Ends(c)'
  BY <1>1, Zenon DEF ConnInv, Ends, Silent
<1>5. Once(c)'
  BY <1>1, Zenon DEF ConnInv, Once
<1>6. QED
  BY <1>2, <1>3, <1>4, <1>5 DEF ConnInv

LEMMA ServerStopsTyped ==
  ASSUME CallTypeOK, ServerStops
  PROVE  CallTypeOK'
<1>1. stops' \in 0..MaxServerStops
  BY CallOK DEF CallTypeOK, ServerStops
<1>2. up' \in BOOLEAN /\ hpc' \in [Callers -> HandlerPC]
  BY Zenon DEF CallTypeOK, ServerStops, HandlerPC
<1>3. c2s' \in [Callers -> Seq(Byte)] /\ sbuf' \in [Callers -> Seq(Byte)]
  <2>1. <<>> \in Seq(Byte)
    OBVIOUS
  <2>2. QED
    BY <2>1 DEF ServerStops
<1>4. UNCHANGED <<cpc, req, resp, open, s2c, cbuf, ans, effects>>
  BY DEF ServerStops
<1>5. QED
  BY <1>1, <1>2, <1>3, <1>4 DEF CallTypeOK

LEMMA ServerStartsKeeps ==
  ASSUME CallTypeOK, ServerStarts
  PROVE  CallTypeOK' /\ \A c \in Callers : ConnInv(c) => ConnInv(c)'
<1>1. CallTypeOK'
  BY DEF CallTypeOK, ServerStarts, connVars
<1>2. ASSUME NEW c \in Callers, ConnInv(c)
      PROVE  ConnInv(c)'
  <2>1. up' = TRUE /\ UNCHANGED <<cpc, req, resp, hpc, open, c2s, s2c, sbuf, cbuf, ans, effects>>
    BY DEF ServerStarts, connVars
  <2>2. Inbound(c)' /\ Outbound(c)' /\ Once(c)'
    BY <1>2, <2>1, Zenon DEF ConnInv, Inbound, Outbound, Once, Silent, Wire
  <2>3. Ends(c)'
    BY <1>2, <2>1, Zenon DEF ConnInv, Ends, Silent
  <2>4. QED
    BY <2>2, <2>3 DEF ConnInv
<1>3. QED
  BY <1>1, <1>2

\* Every step of the two ends of a call.
LEMMA ConnectionKeeps ==
  ASSUME CallTypeOK, NEW c \in Callers, ConnInv(c), CallRaw(c) \/ Serve(c)
  PROVE  /\ Keeps(c) /\ req'[c] = req[c] /\ ans'[c] \in {ans[c], "error"}
         /\ cpc[c] = "idle" => cpc'[c] = "idle"
<1>1. Keeps(c)
  BY ConnectKeeps, ConnectRefusedKeeps, SendKeeps, SendRawKeeps, SendFailsKeeps, CallerReadsKeeps,
     AnsweredKeeps, UnansweredKeeps, ServerReadsKeeps, DispatchKeeps, NoFrameKeeps, SendResponseKeeps
     DEF CallRaw, Serve
<1>2. UNCHANGED req
  BY Zenon DEF CallRaw, Serve, Connect, ConnectRefused, Send, SendRaw, SendFails, CallerReads, Answered,
         Unanswered, ServerReads, Dispatch, NoFrame, SendResponse
<1>3. CASE CallRaw(c)
  <2>1. cpc[c] # "idle" /\ UNCHANGED ans
    BY <1>3, Zenon DEF CallRaw, Connect, ConnectRefused, Send, SendRaw, SendFails, CallerReads, Answered, Unanswered
  <2>2. QED
    BY <1>1, <1>2, <2>1
<1>4. CASE Serve(c)
  <2>1. UNCHANGED cpc
    BY <1>4, Zenon DEF Serve, ServerReads, Dispatch, NoFrame, SendResponse
  <2>2. UNCHANGED ans \/ ans' = [ans EXCEPT ![c] = "error"]
    BY <1>4, Zenon DEF Serve, ServerReads, Dispatch, NoFrame, SendResponse
  <2>3. ans'[c] \in {ans[c], "error"}
    BY <2>2 DEF CallTypeOK
  <2>4. QED
    BY <1>1, <1>2, <2>1, <2>3, Zenon
<1>5. QED
  BY <1>3, <1>4, Zenon

----------------------------------------------------------------------------
(* All calls together.                                                     *)

LEMMA KeptByOne ==
  ASSUME CallsInv, NEW c \in Callers, Keeps(c)
  PROVE  CallsInv'
<1>1. ASSUME NEW d \in Callers
      PROVE  ConnInv(d)'
  <2>1. CASE d = c
    BY <2>1 DEF Keeps
  <2>2. CASE d # c
    BY <2>2, SameKept DEF CallsInv, Keeps
  <2>3. QED
    BY <2>1, <2>2
<1>2. QED
  BY <1>1 DEF CallsInv, Keeps

LEMMA KeptByNone ==
  ASSUME CallsInv, UNCHANGED callVars
  PROVE  CallsInv'
<1>1. UNCHANGED <<up, stops, cpc, req, resp, hpc, open, c2s, s2c, sbuf, cbuf, ans, effects>>
  BY DEF callVars, connVars
<1>2. CallTypeOK'
  BY <1>1 DEF CallsInv, CallTypeOK
<1>3. ASSUME NEW c \in Callers
      PROVE  ConnInv(c)'
  <2>1. Same(c) /\ up' = up
    BY <1>1, Zenon DEF Same
  <2>2. QED
    BY <2>1, SameKept DEF CallsInv
<1>4. QED
  BY <1>2, <1>3 DEF CallsInv

\* The executor touches its own call only, and only by beginning it or by using
\* what it returned.
LEMMA ExecuteShape ==
  ASSUME Execute
  PROVE  UNCHANGED callVars \/ Use("exec") \/ \E r \in Requests : Begin("exec", r)
<1>1. CASE CredLazy \/ CredHttp \/ SelectDelay
  BY <1>1 DEF CredLazy, CredHttp, SelectDelay
<1>2. CASE CredReturned \/ SubmitFails \/ SubmitEnded \/ SubmitAccepted
  BY <1>2 DEF CredReturned, SubmitFails, SubmitEnded, SubmitAccepted, Got
<1>3. CASE StatusAgain \/ StatusError \/ StatusEnded \/ CancelReturns
  BY <1>3, Zenon DEF StatusAgain, StatusError, StatusEnded, CancelReturns, Got
<1>4. CASE CredCall \/ Submit
  BY <1>4, RequestNames DEF CredCall, Submit
<1>5. CASE Timeout \/ SelectCancelled
  BY <1>5, RequestNames DEF Timeout, SelectCancelled, CancelJob
<1>6. CASE PollAtOnce \/ SelectElapsed
  BY <1>6, RequestNames DEF PollAtOnce, SelectElapsed, Poll
<1>7. QED
  BY <1>1, <1>2, <1>3, <1>4, <1>5, <1>6 DEF Execute

LEMMA ExecIsCaller == "exec" \in Callers /\ Foreign \subseteq Callers /\ "exec" \notin Foreign
  BY RefsOK

\* The invariant of the calls is inductive.
LEMMA CallsStep ==
  ASSUME CallsInv, [Next]_vars
  PROVE  CallsInv'
<1>1. CASE UNCHANGED callVars
  BY <1>1, KeptByNone
<1>2. CASE Execute
  <2>1. CASE Use("exec")
    BY <2>1, ExecIsCaller, UseKeeps, KeptByOne DEF CallsInv
  <2>2. ASSUME NEW r \in Requests, Begin("exec", r)
        PROVE  CallsInv'
    BY <2>2, ExecIsCaller, BeginKeeps, KeptByOne DEF CallsInv
  <2>3. QED
    BY <1>1, <1>2, <2>1, <2>2, ExecuteShape
<1>3. ASSUME NEW c \in Callers, Connections(c)
      PROVE  CallsInv'
  BY <1>3, ConnectionKeeps, KeptByOne DEF CallsInv, Connections
<1>4. ASSUME NEW c \in Callers, Handle(c)
      PROVE  CallsInv'
  BY <1>4, HandlerRunsKeeps, KeptByOne, Zenon DEF CallsInv, Handle
<1>5. CASE SidecarStops
  BY <1>5, ServerStopsKeeps, ServerStopsTyped DEF CallsInv, SidecarStops
<1>6. CASE OtherBegins
  <2>1. PICK c \in Foreign, r \in Requests : Begin(c, r)
    BY <1>6 DEF OtherBegins
  <2>2. QED
    BY <2>1, ExecIsCaller, BeginKeeps, KeptByOne DEF CallsInv
<1>7. CASE ServerStarts
  BY <1>7, ServerStartsKeeps DEF CallsInv
<1>8. ASSUME NEW c \in Foreign, Disconnect(c)
      PROVE  CallsInv'
  BY <1>8, ExecIsCaller, DisconnectKeeps, KeptByOne DEF CallsInv
<1>9. ASSUME NEW c \in Foreign, hpc[c] \in {"none", "closed"}, Use(c)
      PROVE  CallsInv'
  BY <1>9, ExecIsCaller, UseKeeps, KeptByOne DEF CallsInv
<1>10. CASE Cancel \/ TimePasses \/ JobEnds \/ Returned \/ UNCHANGED vars
  <2>1. UNCHANGED callVars
    BY <1>10 DEF Cancel, TimePasses, JobEnds, Returned, vars
  <2>2. QED
    BY <1>1, <2>1
<1>11. QED
  BY <1>2, <1>3, <1>4, <1>5, <1>6, <1>7, <1>8, <1>9, <1>10 DEF Next, OtherEnds

LEMMA CallsInit ==
  ASSUME CallInit
  PROVE  CallsInv
<1>1. CallTypeOK
  <2>1. <<>> \in Seq(Byte) /\ 0 \in 0..MaxServerStops
    BY CallOK
  <2>2. QED
    BY <2>1, RequestNames, ResponseNames DEF CallInit, CallTypeOK, CallPC, HandlerPC
<1>2. ASSUME NEW c \in Callers
      PROVE  ConnInv(c)
  <2>1. Inbound(c) /\ Outbound(c)
    BY DEF CallInit, Inbound, Outbound, Silent
  <2>2. Ends(c) /\ Once(c)
    BY DEF CallInit, Ends, Once
  <2>3. QED
    BY <2>1, <2>2 DEF ConnInv
<1>3. QED
  BY <1>1, <1>2 DEF CallsInv

----------------------------------------------------------------------------
(* The executor.                                                           *)

\* The requests of the other clients stay.
OthersKept == \A c \in Foreign : req'[c] = req[c]

\* What the executor knows of its own call when it begins one and when it uses
\* what one returned.
LEMMA BeginExec ==
  ASSUME CallsInv, NEW r, Begin("exec", r)
  PROVE  /\ cpc["exec"] = "idle" /\ req'["exec"] = r /\ OthersKept
         /\ cpc'["exec"] = "connect" /\ ans'["exec"] = "error"
<1>1. /\ cpc["exec"] = "idle" /\ req'["exec"] = r /\ OthersKept
      /\ cpc'["exec"] = "connect" /\ ans' = ans
  BY ExecIsCaller DEF CallsInv, CallTypeOK, Begin, connVars, OthersKept
<1>2. ans["exec"] = "error"
  BY <1>1, ExecIsCaller DEF CallsInv, ConnInv, Once
<1>3. QED
  BY <1>1, <1>2

LEMMA UseExec ==
  ASSUME CallsInv, Use("exec")
  PROVE  /\ cpc["exec"] = "returned" /\ cpc'["exec"] = "idle"
         /\ OthersKept /\ ans'["exec"] = "error"
         /\ resp["exec"] # "Err" => resp["exec"] = ans["exec"]
<1>1. /\ cpc["exec"] = "returned" /\ cpc'["exec"] = "idle"
      /\ OthersKept /\ ans'["exec"] = "error"
  BY ExecIsCaller DEF CallsInv, CallTypeOK, Use, OthersKept
<1>2. resp["exec"] # "Err" => resp["exec"] = ans["exec"]
  BY <1>1, ExecIsCaller DEF CallsInv, ConnInv, Ends
<1>3. QED
  BY <1>1, <1>2

LEMMA RefsTyped ==
  ASSUME ExecTypeOK
  PROVE  Len(refs) \in Nat /\ cred \in Nat /\ cred <= Len(refs)
  BY RefsOK DEF ExecTypeOK

\* Types of the executor's variables, for its own steps and for the others.
LEMMA ExecuteTyped ==
  ASSUME IInv, Execute
  PROVE  ExecTypeOK'
<1> USE DEF SidecarPC, TaskResultStatus, ExecStatus
<1>0. ExecTypeOK /\ Len(refs) \in Nat /\ cred \in Nat
  BY RefsTyped DEF IInv
<1>n. ASSUME NextRef, cred < Len(refs)
      PROVE  ExecTypeOK'
  <2>1. cred' \in 0..Len(refs)
    BY <1>0, <1>n DEF NextRef
  <2>2. QED
    BY <1>0, <1>n, <2>1 DEF ExecTypeOK, NextRef
<1>f. ASSUME CredsFail
      PROVE  ExecTypeOK'
  BY <1>0, <1>f DEF ExecTypeOK, CredsFail, Return
<1>1. CASE CredLazy \/ CredHttp
  BY <1>1, <1>n, <1>f DEF CredLazy, CredHttp, InCreds
<1>2. CASE CredCall
  BY <1>0, <1>2 DEF CredCall, ExecTypeOK, execVars
<1>3. CASE CredReturned
  <2>1. xpc = "creds" /\ cpc["exec"] = "returned"
    BY <1>3, UseExec DEF CredReturned, Got, IInv
  <2>2. cred < Len(refs)
    BY <2>1 DEF IInv, JobInv
  <2>3. NextRef \/ CredsFail
    BY <1>3 DEF CredReturned
  <2>4. QED
    BY <1>n, <1>f, <2>2, <2>3
<1>4. CASE Submit \/ SubmitAccepted
  BY <1>0, <1>4 DEF Submit, SubmitAccepted, ExecTypeOK
<1>5. CASE SubmitFails \/ SubmitEnded \/ StatusError
  BY <1>0, <1>5 DEF SubmitFails, SubmitEnded, StatusError, Return, ExecTypeOK
<1>6. CASE Timeout \/ SelectCancelled
  BY <1>0, <1>6, Zenon DEF Timeout, SelectCancelled, CancelJob, ExecTypeOK
<1>7. CASE PollAtOnce \/ SelectElapsed \/ SelectDelay
  BY <1>0, <1>7 DEF PollAtOnce, SelectElapsed, SelectDelay, Poll, ExecTypeOK
<1>8. CASE StatusAgain
  BY <1>0, <1>8 DEF StatusAgain, Again, ExecTypeOK
<1>9. CASE StatusEnded
  BY <1>0, <1>9 DEF StatusEnded, Return, Ended, ExecTypeOK
<1>10. CASE CancelReturns
  BY <1>0, <1>10 DEF CancelReturns, ExecTypeOK
<1>11. QED
  BY <1>1, <1>2, <1>3, <1>4, <1>5, <1>6, <1>7, <1>8, <1>9, <1>10 DEF Execute

LEMMA ExecStepTyped ==
  ASSUME IInv, [Next]_vars
  PROVE  ExecTypeOK'
<1>0. ExecTypeOK
  BY DEF IInv
<1>1. CASE Execute
  BY <1>1, ExecuteTyped
<1>2. CASE UNCHANGED execVars
  BY <1>0, <1>2 DEF execVars, ExecTypeOK
<1>3. ASSUME NEW c \in Callers, Handle(c)
      PROVE  ExecTypeOK'
  <2>1. job' \in JobStates
    BY <1>0, <1>3 DEF Handle, ExecTypeOK, JobStates, Ended
  <2>2. UNCHANGED <<xpc, refs, cred, poll_index, cancelled, expired, status, cancelCalled>>
    BY <1>3 DEF Handle
  <2>3. QED
    BY <1>0, <2>1, <2>2 DEF ExecTypeOK
<1>4. CASE Cancel
  BY <1>0, <1>4 DEF Cancel, ExecTypeOK
<1>5. CASE TimePasses
  BY <1>0, <1>5 DEF TimePasses, ExecTypeOK
<1>6. CASE JobEnds
  BY <1>0, <1>6 DEF JobEnds, ExecTypeOK, JobStates
<1>7. CASE SidecarStops
  BY <1>0, <1>7 DEF SidecarStops, ExecTypeOK, JobStates
<1>8. QED
  BY <1>1, <1>2, <1>3, <1>4, <1>5, <1>6, <1>7
     DEF Next, Connections, OtherBegins, OtherEnds, Returned, vars

\* A step that leaves the job and the executor alone.
LEMMA JobUntouched ==
  ASSUME JobInv, UNCHANGED <<xpc, refs, cred, job, status, cancelCalled>>,
         \A c \in Foreign : req'[c] \notin {"submit", "status", "cancel"},
         req'["exec"] = req["exec"], ans'["exec"] \in {ans["exec"], "error"},
         cpc["exec"] = "idle" => cpc'["exec"] = "idle"
  PROVE  JobInv'
  BY DEF JobInv, SuccessIsCompleted, GivesUpByCancelling, Calling, Ended

\* The executor concludes from an answer.
LEMMA ExecuteJob ==
  ASSUME IInv, Execute
  PROVE  JobInv'
<1> USE DEF SuccessIsCompleted, GivesUpByCancelling, OthersKept
<1>0. CallsInv /\ JobInv
  BY DEF IInv
<1>n. ASSUME NextRef, xpc = "creds", cpc'["exec"] = "idle", OthersKept,
             ans'["exec"] \in {ans["exec"], "error"}
      PROVE  JobInv'
  BY <1>0, <1>n DEF NextRef, JobInv, Ended
<1>r. ASSUME NEW s, Return(s), cpc'["exec"] = "idle", OthersKept,
             ans'["exec"] \in {ans["exec"], "error"}, xpc # "cancel",
             UNCHANGED <<job, cancelCalled>>,
             s = "Success" => job = "completed",
             s \in {"Timeout", "Cancelled"} => job = "cancelled"
      PROVE  JobInv'
  BY <1>0, <1>r DEF Return, JobInv, Ended
<1>f. ASSUME CredsFail, xpc = "creds", cpc'["exec"] = "idle", OthersKept,
             ans'["exec"] \in {ans["exec"], "error"}
      PROVE  JobInv'
  BY <1>f, <1>r DEF CredsFail
<1>1. CASE CredLazy \/ CredHttp
  <2>1. /\ xpc = "creds" /\ cred < Len(refs) /\ refs[cred + 1] \in {"lazy", "http"}
        /\ NextRef \/ CredsFail
        /\ UNCHANGED callVars
    BY <1>1 DEF CredLazy, CredHttp, InCreds
  <2>2. cpc["exec"] = "idle"
    BY <1>0, <2>1 DEF JobInv
  <2>3. UNCHANGED <<cpc, req, ans>>
    BY <2>1 DEF callVars, connVars
  <2>4. QED
    BY <2>1, <2>2, <2>3, <1>n, <1>f
<1>2. CASE CredCall
  <2>1. PICK r \in {"health", "unknown"} : Begin("exec", r)
    BY <1>2 DEF CredCall
  <2>2. xpc = "creds" /\ cred < Len(refs) /\ refs[cred + 1] = "sidecar" /\ UNCHANGED execVars
    BY <1>2 DEF CredCall, InCreds
  <2>3. QED
    BY <1>0, <2>1, <2>2, BeginExec DEF JobInv, execVars, Calling, Ended
<1>3. CASE CredReturned
  <2>1. xpc = "creds" /\ Use("exec") /\ (NextRef \/ CredsFail)
    BY <1>3 DEF CredReturned, Got
  <2>2. QED
    BY <1>0, <2>1, <1>n, <1>f, UseExec
<1>4. CASE Submit
  <2>1. PICK r \in {"submit", "unknown", "oversized"} : Begin("exec", r)
    BY <1>4 DEF Submit
  <2>2. xpc' = "submit"
    BY <1>4 DEF Submit
  <2>3. QED
    BY <1>0, <2>1, <2>2, BeginExec DEF JobInv, Calling, Ended
<1>5. CASE SubmitFails
  BY <1>0, <1>5, <1>r, UseExec DEF SubmitFails, Got
<1>6. CASE SubmitEnded
  <2>1. xpc = "submit" /\ Use("exec") /\ UNCHANGED <<job, cancelCalled>>
    BY <1>6 DEF SubmitEnded, Got
  <2>2. CASE Got("completed") /\ Return("Success")
    <3>1. ans["exec"] = "completed"
      BY <1>0, <2>1, <2>2, UseExec DEF Got
    <3>2. job = "completed"
      BY <1>0, <2>1, <3>1 DEF JobInv, Ended
    <3>3. QED
      BY <1>0, <1>r, <2>1, <2>2, <3>2, UseExec
  <2>3. CASE Got("failed") /\ Return("Failed")
    BY <1>0, <1>r, <2>1, <2>3, UseExec
  <2>4. QED
    BY <1>6, <2>2, <2>3 DEF SubmitEnded
<1>7. CASE SubmitAccepted
  <2>1. Use("exec") /\ xpc' = "loop"
    BY <1>7 DEF SubmitAccepted, Got
  <2>2. QED
    BY <1>0, <2>1, UseExec DEF JobInv, Ended
<1>8. ASSUME NEW s \in {"Timeout", "Cancelled"}, CancelJob(s)
      PROVE  JobInv'
  BY <1>0, <1>8, BeginExec DEF CancelJob, JobInv, Calling, Ended
<1>9. CASE Timeout \/ SelectCancelled
  BY <1>8, <1>9 DEF Timeout, SelectCancelled
<1>10. CASE PollAtOnce \/ SelectElapsed
  <2>1. Begin("exec", "status") /\ xpc' = "status"
    BY <1>10 DEF PollAtOnce, SelectElapsed, Poll
  <2>2. QED
    BY <1>0, <2>1, BeginExec DEF JobInv, Calling, Ended
<1>11. CASE SelectDelay
  <2>1. xpc = "loop" /\ xpc' = "sleep" /\ UNCHANGED <<cpc, req, ans, job>>
    BY <1>11 DEF SelectDelay, callVars, connVars
  <2>2. QED
    BY <1>0, <2>1 DEF JobInv, Calling
<1>12. CASE StatusAgain
  <2>1. Use("exec") /\ xpc' = "loop"
    BY <1>12 DEF StatusAgain, Got, Again
  <2>2. QED
    BY <1>0, <2>1, UseExec DEF JobInv, Ended
<1>13. CASE StatusError
  BY <1>0, <1>13, <1>r, UseExec DEF StatusError, Got
<1>14. CASE StatusEnded
  <2>1. PICK a \in Ended : Got(a) /\ Return([completed |-> "Success", failed |-> "Failed", cancelled |-> "Cancelled"][a])
    BY <1>14 DEF StatusEnded
  <2>2. xpc = "status" /\ Use("exec") /\ UNCHANGED <<job, cancelCalled>>
    BY <1>14, <2>1 DEF StatusEnded, Got
  <2>3. ans["exec"] = a /\ job = a
    BY <1>0, <2>1, <2>2, UseExec, Zenon DEF Got, JobInv, Ended
  <2>4. CASE a = "completed"
    <3>1. Return("Success")
      BY <2>1, <2>4
    <3>2. QED
      BY <1>0, <1>r, <2>2, <2>3, <2>4, <3>1, UseExec
  <2>5. CASE a = "failed"
    <3>1. Return("Failed")
      BY <2>1, <2>5
    <3>2. QED
      BY <1>0, <1>r, <2>2, <2>3, <2>5, <3>1, UseExec
  <2>6. CASE a = "cancelled"
    <3>1. Return("Cancelled")
      BY <2>1, <2>6
    <3>2. QED
      BY <1>0, <1>r, <2>2, <2>3, <2>6, <3>1, UseExec
  <2>7. QED
    BY <2>4, <2>5, <2>6 DEF Ended
<1>15. CASE CancelReturns
  <2>1. xpc = "cancel" /\ Use("exec") /\ xpc' = "done" /\ UNCHANGED <<status, cancelCalled>>
    BY <1>15 DEF CancelReturns, Got
  <2>2. QED
    BY <1>0, <2>1, UseExec DEF JobInv, Ended
<1>16. QED
  BY <1>1, <1>2, <1>3, <1>4, <1>5, <1>6, <1>7, <1>9, <1>10, <1>11, <1>12, <1>13, <1>14, <1>15 DEF Execute

\* The handler: only a request of the executor can change the job, and what it
\* says of an ended job is so.
LEMMA HandleJob ==
  ASSUME IInv, NEW c \in Callers, Handle(c)
  PROVE  JobInv'
<1>0. CallsInv /\ JobInv
  BY DEF IInv
<1>1. PICK a \in Responses :
        /\ HandlerRuns(c, a)
        /\ UNCHANGED <<xpc, refs, cred, poll_index, cancelled, expired, status, cancelCalled>>
        /\ \/ /\ a \in {"error", "oversized", "other", "garbled"}
              /\ job' \in IF Asked(c) = "submit" THEN JobStates ELSE {job}
           \/ /\ Asked(c) = "submit"
              /\ \/ a = "accepted" /\ job' = "running"
                 \/ a \in {"completed", "failed"} /\ job' = a
           \/ /\ Asked(c) = "status" /\ a = job /\ job' = job
           \/ /\ Asked(c) = "cancel" /\ a = "cancelled"
              /\ job' = IF job = "running" THEN "cancelled" ELSE job
  BY Zenon DEF Handle
<1>2. hpc[c] = "handle" /\ UNCHANGED <<cpc, req>> /\ ans' = [ans EXCEPT ![c] = a]
  BY <1>1, Zenon DEF HandlerRuns
<1>3. Asked(c) = req[c]
  BY <1>0, <1>2, AskedIsReq, Zenon DEF CallsInv, ConnInv
<1>4. CASE c # "exec"
  <2>1. job' = job
    BY <1>0, <1>1, <1>3, <1>4, RefsOK DEF JobInv
  <2>2. ans'["exec"] = ans["exec"]
    BY <1>2, <1>4, ExecIsCaller DEF CallsInv, CallTypeOK
  <2>3. \A d \in Foreign : req'[d] \notin {"submit", "status", "cancel"}
    BY <1>0, <1>2 DEF JobInv
  <2>4. QED
    BY <1>0, <1>1, <1>2, <2>1, <2>2, <2>3, JobUntouched, Zenon
<1>5. CASE c = "exec"
  <2>1. cpc["exec"] \in {"wait", "returned"}
    BY <1>0, <1>2, <1>5, Zenon DEF CallsInv, ConnInv, Inbound
  <2>2. req["exec"] \in Calling(xpc)
    BY <1>0, <2>1 DEF JobInv
  <2>3. xpc # "done" /\ (req["exec"] = "cancel" => xpc = "cancel")
    BY <2>2 DEF Calling
  <2>4. ans'["exec"] = a
    BY <1>0, <1>2, <1>5 DEF CallsInv, CallTypeOK
  <2>5. xpc # "cancel" /\ a \in Ended => job' = a
    BY <1>1, <1>3, <1>5, <2>3, Zenon DEF Ended
  <2>6. QED
    BY <1>0, <1>1, <1>2, <2>3, <2>4, <2>5, Zenon DEF JobInv, SuccessIsCompleted, GivesUpByCancelling
<1>6. QED
  BY <1>4, <1>5

LEMMA JobStep ==
  ASSUME IInv, [Next]_vars
  PROVE  JobInv'
<1>0. CallsInv /\ JobInv
  BY DEF IInv
<1>1. CASE Execute
  BY <1>1, ExecuteJob
<1>2. ASSUME NEW c \in Callers, Handle(c)
      PROVE  JobInv'
  BY <1>2, HandleJob
<1>3. ASSUME NEW c \in Callers, Connections(c)
      PROVE  JobInv'
  <2>1. /\ Keeps(c) /\ req'[c] = req[c] /\ ans'[c] \in {ans[c], "error"}
        /\ cpc[c] = "idle" => cpc'[c] = "idle"
    BY <1>0, <1>3, ConnectionKeeps, Zenon DEF CallsInv, Connections
  <2>2. ASSUME NEW d \in Callers
        PROVE  /\ req'[d] = req[d] /\ ans'[d] \in {ans[d], "error"}
               /\ cpc[d] = "idle" => cpc'[d] = "idle"
    BY <2>1 DEF Keeps, Same
  <2>3. \A d \in Foreign : req'[d] \notin {"submit", "status", "cancel"}
    BY <1>0, <2>2, ExecIsCaller DEF JobInv
  <2>4. UNCHANGED <<xpc, refs, cred, job, status, cancelCalled>>
    BY <1>3 DEF Connections, execVars
  <2>5. QED
    BY <1>0, <2>2, <2>3, <2>4, ExecIsCaller, JobUntouched
<1>4. CASE Cancel \/ TimePasses \/ Returned \/ UNCHANGED vars
  <2>1. UNCHANGED <<cpc, req, ans>>
    BY <1>4, Zenon DEF Cancel, TimePasses, Returned, vars, callVars, connVars
  <2>2. UNCHANGED <<xpc, refs, cred, job, status, cancelCalled>>
    BY <1>4 DEF Cancel, TimePasses, Returned, vars, execVars
  <2>3. \A c \in Foreign : req[c] \notin {"submit", "status", "cancel"}
    BY <1>0 DEF JobInv
  <2>4. QED
    BY <1>0, <2>1, <2>2, <2>3, JobUntouched
<1>5. CASE JobEnds
  <2>1. /\ job = "running" /\ UNCHANGED <<cpc, req, ans>>
        /\ UNCHANGED <<xpc, refs, cred, status, cancelCalled>>
    BY <1>5 DEF JobEnds, callVars, connVars
  <2>2. QED
    BY <1>0, <2>1 DEF JobInv, SuccessIsCompleted, GivesUpByCancelling, Ended
<1>6. CASE SidecarStops
  <2>1. /\ job # "running" => job' = job
        /\ UNCHANGED <<cpc, req, ans>> /\ UNCHANGED <<xpc, refs, cred, status, cancelCalled>>
    BY <1>6 DEF SidecarStops, ServerStops
  <2>2. QED
    BY <1>0, <2>1 DEF JobInv, SuccessIsCompleted, GivesUpByCancelling, Ended
<1>7. CASE OtherBegins
  <2>1. PICK c \in Foreign, r \in Requests \ {"submit", "status", "cancel"} : Begin(c, r)
    BY <1>7 DEF OtherBegins
  <2>2. /\ req' = [req EXCEPT ![c] = r] /\ cpc' = [cpc EXCEPT ![c] = "connect"] /\ ans' = ans
        /\ c # "exec"
    BY <2>1, ExecIsCaller DEF Begin, connVars
  <2>3. /\ req'["exec"] = req["exec"] /\ cpc'["exec"] = cpc["exec"]
        /\ \A d \in Foreign : req'[d] \in {req[d], r}
    BY <1>0, <2>2, ExecIsCaller DEF CallsInv, CallTypeOK
  <2>4. \A d \in Foreign : req'[d] \notin {"submit", "status", "cancel"}
    BY <1>0, <2>1, <2>3 DEF JobInv
  <2>5. UNCHANGED <<xpc, refs, cred, job, status, cancelCalled>>
    BY <1>7 DEF OtherBegins, execVars
  <2>6. QED
    BY <1>0, <2>2, <2>3, <2>4, <2>5, JobUntouched
<1>8. CASE ServerStarts /\ UNCHANGED execVars
  <2>1. UNCHANGED <<cpc, req, ans>>
    BY <1>8 DEF ServerStarts, connVars
  <2>2. UNCHANGED <<xpc, refs, cred, job, status, cancelCalled>>
    BY <1>8 DEF execVars
  <2>3. \A c \in Foreign : req[c] \notin {"submit", "status", "cancel"}
    BY <1>0 DEF JobInv
  <2>4. QED
    BY <1>0, <2>1, <2>2, <2>3, JobUntouched
<1>9. CASE OtherEnds
  <2>1. PICK c \in Foreign : Disconnect(c) \/ Use(c)
    BY <1>9 DEF OtherEnds
  <2>2. /\ c # "exec" /\ \E x \in CallPC : cpc' = [cpc EXCEPT ![c] = x]
        /\ req' = req \/ req' = [req EXCEPT ![c] = "garbled"]
        /\ ans' = ans \/ ans' = [ans EXCEPT ![c] = "error"]
    BY <2>1, ExecIsCaller DEF Disconnect, Returns, Use, CallPC
  <2>3. /\ req'["exec"] = req["exec"] /\ cpc'["exec"] = cpc["exec"] /\ ans'["exec"] = ans["exec"]
        /\ \A d \in Foreign : req'[d] \in {req[d], "garbled"}
    BY <1>0, <2>2, ExecIsCaller, Zenon DEF CallsInv, CallTypeOK
  <2>4. \A d \in Foreign : req'[d] \notin {"submit", "status", "cancel"}
    BY <1>0, <2>3, Zenon DEF JobInv
  <2>5. UNCHANGED <<xpc, refs, cred, job, status, cancelCalled>>
    BY <1>9 DEF OtherEnds, execVars
  <2>6. QED
    BY <1>0, <2>3, <2>4, <2>5, JobUntouched
<1>10. QED
  BY <1>1, <1>2, <1>3, <1>4, <1>5, <1>6, <1>7, <1>8, <1>9 DEF Next

LEMMA InitIInv == Init => IInv
<1> SUFFICES ASSUME Init
             PROVE  IInv
  OBVIOUS
<1>1. CallsInv
  BY CallsInit DEF Init
<1>2. ExecTypeOK
  <2>1. Len(refs) \in Nat /\ 0 \in 0..Len(refs)
    BY RefsOK DEF Init
  <2>2. cancelled \in BOOLEAN /\ expired \in BOOLEAN /\ cancelCalled \in BOOLEAN
    BY Zenon DEF Init
  <2>3. xpc \in SidecarPC /\ job \in JobStates /\ poll_index \in 0..1
    BY DEF Init, SidecarPC, JobStates
  <2>4. refs \in CredentialRefs /\ cred = 0 /\ status \in ExecStatus
    BY DEF Init, ExecStatus, TaskResultStatus
  <2>5. QED
    BY <2>1, <2>2, <2>3, <2>4 DEF ExecTypeOK
<1>3. JobInv
  BY ExecIsCaller DEF Init, CallInit, JobInv, Ended, SuccessIsCompleted, GivesUpByCancelling
<1>4. QED
  BY <1>1, <1>2, <1>3 DEF IInv

LEMMA NextIInv == IInv /\ [Next]_vars => IInv'
<1> SUFFICES ASSUME IInv, [Next]_vars
             PROVE  IInv'
  OBVIOUS
<1>1. CallsInv'
  BY CallsStep DEF IInv
<1>2. ExecTypeOK'
  BY ExecStepTyped
<1>3. JobInv'
  BY JobStep
<1>4. QED
  BY <1>1, <1>2, <1>3 DEF IInv

LEMMA AlwaysIInv == Spec => []IInv
  BY InitIInv, NextIInv, PTL DEF Spec

----------------------------------------------------------------------------
(* The theorems.                                                           *)

\* Every variable of a sidecar task and of the calls it makes keeps its type,
\* the bytes on the wire included.
THEOREM TypeCorrect == Spec => []TypeOK
<1>1. IInv => TypeOK
  BY DEF IInv, CallsInv, ExecTypeOK, TypeOK
<1>2. QED
  BY <1>1, AlwaysIInv, PTL

\* For every limit on messages and any number of restarts of the server, the
\* handler gets the request that was made and the caller the response that was
\* given, however the bytes are cut up.
THEOREM FramesIntact == Spec => []FrameIntact
<1>1. IInv => FrameIntact
  <2> SUFFICES ASSUME IInv, NEW c \in Callers
               PROVE  /\ hpc[c] = "handle" => Asked(c) = req[c]
                      /\ cpc[c] = "returned" /\ resp[c] # "Err" =>
                           resp[c] = ans[c] /\ hpc[c] = "closed"
    BY DEF FrameIntact
  <2>1. CallTypeOK /\ Inbound(c) /\ Ends(c)
    BY DEF IInv, CallsInv, ConnInv
  <2>2. hpc[c] = "handle" => Asked(c) = req[c]
    BY <2>1, AskedIsReq
  <2>3. QED
    BY <2>1, <2>2, Zenon DEF Ends
<1>2. QED
  BY <1>1, AlwaysIInv, PTL

\* A task reports success only for a job that the sidecar completed, whatever
\* its credentials, however often the server restarts and whatever else calls it.
THEOREM SuccessTrue == Spec => []SuccessIsCompleted
<1>1. IInv => SuccessIsCompleted
  BY DEF IInv, JobInv
<1>2. QED
  BY <1>1, AlwaysIInv, PTL

\* No task ends as timed out or cancelled unless "cancel" was called or the
\* sidecar itself cancelled the job.
THEOREM GiveUpCancels == Spec => []GivesUpByCancelling
<1>1. IInv => GivesUpByCancelling
  BY DEF IInv, JobInv
<1>2. QED
  BY <1>1, AlwaysIInv, PTL

----------------------------------------------------------------------------
(* The executor's calls implement RemoteCall.                              *)

\* The outcome of a call by where call_raw is.
LEMMA OutcomeByPC ==
  /\ cpc["exec"] = "idle" => Outcome("exec") = "none"
  /\ cpc["exec"] \in {"connect", "send", "wait"} => Outcome("exec") = "pending"
  /\ cpc["exec"] = "returned" =>
       Outcome("exec") = IF resp["exec"] \in Results THEN "result" ELSE "error"
  BY DEF Outcome

LEMMA OutcomeByPCNext ==
  /\ cpc'["exec"] = "idle" => Outcome("exec")' = "none"
  /\ cpc'["exec"] \in {"connect", "send", "wait"} => Outcome("exec")' = "pending"
  /\ cpc'["exec"] = "returned" =>
       Outcome("exec")' = IF resp'["exec"] \in Results THEN "result" ELSE "error"
  BY DEF Outcome

\* Nothing that RemoteCall sees has changed.
LEMMA CallStutters ==
  ASSUME cpc'["exec"] = cpc["exec"], resp'["exec"] = resp["exec"],
         effects'["exec"] = effects["exec"]
  PROVE  UNCHANGED Calls!vars
  BY DEF Outcome, Calls!vars

\* Every step maps to a step of RemoteCall or to none.
LEMMA CallStep ==
  ASSUME IInv, IInv', [Next]_vars
  PROVE  [Calls!Next]_(Calls!vars)
<1>0. CallsInv /\ CallsInv' /\ "exec" \in Callers
  BY ExecIsCaller DEF IInv
<1>t. CallTypeOK /\ ConnInv("exec") /\ ConnInv("exec")'
  BY <1>0, ExecIsCaller DEF CallsInv
<1>s. ASSUME cpc'["exec"] = cpc["exec"], resp'["exec"] = resp["exec"],
             effects'["exec"] = effects["exec"]
      PROVE  [Calls!Next]_(Calls!vars)
  BY <1>s, CallStutters
<1>d. ASSUME Same("exec")
      PROVE  [Calls!Next]_(Calls!vars)
  BY <1>d, <1>s, Zenon DEF Same
<1>1. ASSUME NEW r, Begin("exec", r)
      PROVE  [Calls!Next]_(Calls!vars)
  <2>1. cpc["exec"] = "idle" /\ cpc'["exec"] = "connect" /\ effects' = effects
    BY <1>t, <1>0, <1>1 DEF Begin, connVars, CallTypeOK
  <2>2. Calls!Begin
    BY <2>1, OutcomeByPC, OutcomeByPCNext DEF Calls!Begin
  <2>3. QED
    BY <2>2 DEF Calls!Next
<1>2. ASSUME Use("exec")
      PROVE  [Calls!Next]_(Calls!vars)
  <2>1. cpc["exec"] = "returned" /\ cpc'["exec"] = "idle" /\ effects'["exec"] = 0
    BY <1>t, <1>0, <1>2 DEF Use, CallTypeOK
  <2>2. Calls!Use
    BY <2>1, OutcomeByPC, OutcomeByPCNext, Zenon DEF Calls!Use
  <2>3. QED
    BY <2>2 DEF Calls!Next
<1>3. ASSUME Execute
      PROVE  [Calls!Next]_(Calls!vars)
  <2>1. CASE UNCHANGED callVars
    BY <2>1, <1>s DEF callVars, connVars
  <2>2. QED
    BY <1>1, <1>2, <1>3, <2>1, ExecuteShape
<1>4. ASSUME Handle("exec")
      PROVE  [Calls!Next]_(Calls!vars)
  <2>a. PICK a \in Responses : HandlerRuns("exec", a)
    BY <1>4 DEF Handle
  <2>b. /\ hpc["exec"] = "handle" /\ UNCHANGED <<cpc, resp>>
        /\ effects' = [effects EXCEPT !["exec"] = @ + 1]
    BY <2>a DEF HandlerRuns
  <2>1. hpc["exec"] = "handle" /\ UNCHANGED <<cpc, resp>> /\ effects'["exec"] = effects["exec"] + 1
    BY <1>t, <1>0, <2>b DEF CallTypeOK
  <2>2. cpc["exec"] = "wait" /\ effects["exec"] = 0
    BY <1>t, <2>1, ExecIsCaller, Zenon DEF ConnInv, Inbound, Ends, Once
  <2>3. Calls!Act
    BY <2>1, <2>2, OutcomeByPC, OutcomeByPCNext DEF Calls!Act
  <2>4. QED
    BY <2>3 DEF Calls!Next
<1>5. ASSUME CallRaw("exec")
      PROVE  [Calls!Next]_(Calls!vars)
  <2>1. cpc["exec"] \in {"connect", "send", "wait"} /\ UNCHANGED effects
    BY <1>5, Zenon DEF CallRaw, Connect, ConnectRefused, Send, SendRaw, SendFails, CallerReads, Answered, Unanswered
  <2>2. cpc'["exec"] \in {"send", "wait", "returned"}
    BY <1>t, <1>0, <1>5, Zenon DEF CallRaw, Connect, ConnectRefused, Send, SendRaw, SendFails, CallerReads,
       Answered, Unanswered, Returns, CallTypeOK
  <2>3. CASE cpc'["exec"] \in {"send", "wait"}
    BY <2>1, <2>3, OutcomeByPC, OutcomeByPCNext DEF Calls!vars
  <2>4. CASE cpc'["exec"] = "returned" /\ resp'["exec"] \in Results
    <3>1. effects'["exec"] = 1
      BY <1>t, <2>4 DEF ConnInv, Ends, Once, Results
    <3>2. Calls!Answer
      BY <2>1, <2>4, <3>1, OutcomeByPC, OutcomeByPCNext DEF Calls!Answer
    <3>3. QED
      BY <3>2 DEF Calls!Next
  <2>5. CASE cpc'["exec"] = "returned" /\ resp'["exec"] \notin Results
    <3>1. Calls!Fail
      BY <2>1, <2>5, OutcomeByPC, OutcomeByPCNext DEF Calls!Fail
    <3>2. QED
      BY <3>1 DEF Calls!Next
  <2>6. QED
    BY <2>2, <2>3, <2>4, <2>5
<1>6. ASSUME Serve("exec")
      PROVE  [Calls!Next]_(Calls!vars)
  <2>1. UNCHANGED <<cpc, resp, effects>>
    BY <1>6, Zenon DEF Serve, ServerReads, Dispatch, NoFrame, SendResponse
  <2>2. QED
    BY <1>s, <2>1
<1>7. ASSUME NEW c \in Callers, c # "exec", Keeps(c)
      PROVE  [Calls!Next]_(Calls!vars)
  BY <1>7, <1>d, <1>0 DEF Keeps
<1>8. ASSUME NEW c \in Callers, Connections(c) \/ Handle(c)
      PROVE  [Calls!Next]_(Calls!vars)
  <2>1. CASE c = "exec"
    BY <1>4, <1>5, <1>6, <1>8, <2>1 DEF Connections
  <2>2. CASE c # "exec"
    <3>1. Keeps(c)
      BY <1>0, <1>8, <2>2, ConnectionKeeps, HandlerRunsKeeps, Zenon DEF CallsInv, Connections, Handle
    <3>2. QED
      BY <1>7, <2>2, <3>1
  <2>3. QED
    BY <2>1, <2>2
<1>9. CASE OtherBegins \/ OtherEnds
  <2>1. PICK c \in Foreign :
          \/ \E r \in Requests : Begin(c, r)
          \/ Disconnect(c)
          \/ hpc[c] \in {"none", "closed"} /\ Use(c)
    BY <1>9, Zenon DEF OtherBegins, OtherEnds
  <2>2. c \in Callers /\ c # "exec" /\ ConnInv(c)
    BY <1>0, ExecIsCaller DEF CallsInv
  <2>3. Keeps(c)
    BY <1>t, <2>1, <2>2, BeginKeeps, DisconnectKeeps, UseKeeps
  <2>4. QED
    BY <1>7, <2>2, <2>3
<1>10. CASE Cancel \/ TimePasses \/ JobEnds \/ SidecarStops \/ ServerStarts \/ Returned \/ UNCHANGED vars
  <2>1. UNCHANGED <<cpc, resp, effects>>
    BY <1>10, Zenon DEF Cancel, TimePasses, JobEnds, SidecarStops, ServerStops, ServerStarts, Returned, vars,
       callVars, connVars
  <2>2. QED
    BY <1>s, <2>1
<1>11. QED
  BY <1>3, <1>8, <1>9, <1>10 DEF Next

\* The executor's calls keep the promise of RemoteCall, without the bounds of
\* the model: the handler runs at most once for each, before it returns, and a
\* result means that it ran.
THEOREM CallsKeepPromise == Spec => OneEffect
<1>1. Init => Calls!Init
  BY ExecIsCaller DEF Init, CallInit, Calls!Init, Outcome
<1>2. IInv /\ IInv' /\ [Next]_vars => [Calls!Next]_(Calls!vars)
  BY CallStep
<1>3. QED
  BY <1>1, <1>2, AlwaysIInv, PTL DEF Spec, OneEffect, Calls!Spec

============================================================================
