-------------------------------- MODULE Codec -------------------------------
(***************************************************************************)
(* LengthPrefixCodec of the sidecar SDK (codec.rs): a frame is the length  *)
(* of its payload as HEADER_LEN big-endian bytes, then the payload.  A     *)
(* byte has Base values.                                                   *)
(***************************************************************************)
EXTENDS Naturals, Sequences

CONSTANTS
  Base,             \* values of a byte (256)
  MAX_MESSAGE_SIZE  \* largest payload (4 MB)

\* The length after the largest one still fits the header.
ASSUME CodecOK ==
  /\ Base \in Nat /\ Base > 1
  /\ MAX_MESSAGE_SIZE \in Nat /\ MAX_MESSAGE_SIZE >= 1
  /\ MAX_MESSAGE_SIZE + 1 < Base * (Base * (Base * Base))

HEADER_LEN == 4

Byte == 0..(Base - 1)

\* put_u32
Header(n) ==
  LET Shr(m) == m \div Base
  IN <<Shr(Shr(Shr(n))) % Base, Shr(Shr(n)) % Base, Shr(n) % Base, n % Base>>

\* u32::from_be_bytes of the first bytes of src.
FromBeBytes(src) == ((src[1] * Base + src[2]) * Base + src[3]) * Base + src[4]

Encodable(data) == Len(data) <= MAX_MESSAGE_SIZE

Encode(data) == Header(Len(data)) \o data

\* What decode returns for a buffer: Ok(None), an error or a payload.
Incomplete == [kind |-> "none", data |-> <<>>]
Invalid == [kind |-> "error", data |-> <<>>]

\* Mutant: a frame is taken for complete as soon as its header is.
DecodeEarly(src) ==
  IF Len(src) < HEADER_LEN THEN Incomplete
  ELSE IF FromBeBytes(src) > MAX_MESSAGE_SIZE THEN Invalid
  ELSE LET end == HEADER_LEN + FromBeBytes(src)
       IN [kind |-> "frame",
           data |-> SubSeq(src, HEADER_LEN + 1, IF end < Len(src) THEN end ELSE Len(src))]

Decode(src) ==
  IF Len(src) < HEADER_LEN THEN Incomplete
  ELSE IF FromBeBytes(src) > MAX_MESSAGE_SIZE THEN Invalid
  ELSE IF Len(src) < HEADER_LEN + FromBeBytes(src) THEN Incomplete
  ELSE [kind |-> "frame",
        data |-> SubSeq(src, HEADER_LEN + 1, HEADER_LEN + FromBeBytes(src))]

============================================================================
