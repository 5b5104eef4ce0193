-------------------------- MODULE RemainingLength --------------------------
(* The "remaining length" of an MQTT packet: encode_remaining_length() writes  *)
(* it, seven bits a byte, and read_remaining_length() (decode_remaining_length *)
(* on a buffer) reads it back from a stream that may end early.  One iteration *)
(* of either loop is a step.                                                   *)
EXTENDS Naturals, Sequences

VARIABLES total,        \* the size frame_packet() is given
          rest,         \* encode's `length`, divided away
          bytes,        \* encode's `out`
          arrived,      \* how many of the bytes the reader will get
          index,        \* bytes consumed by the reader
          multiplier,   \* its int `multiplier`
          decoded,      \* its `out_length`
          at            \* the loop the code is in; "read" and "refused" when
                        \* the reader has returned true or false

vars == <<total, rest, bytes, arrived, index, multiplier, decoded, at>>

\* 128 ^ n, for the four bytes a length may take.
Power == [n \in 0..4 |-> CASE n = 0 -> 1 [] n = 1 -> 128 [] n = 2 -> 16384
                           [] n = 3 -> 2097152 [] n = 4 -> 268435456]

Init ==
  /\ total \in Nat /\ rest = total /\ bytes = <<>>
  /\ arrived = 0 /\ index = 0 /\ multiplier = 1 /\ decoded = 0
  /\ at = "encode"

\* uint8_t byte = length % 128; length /= 128; if (length > 0) byte |= 0x80;
Byte(n) == (n % 128) + (IF n \div 128 > 0 THEN 128 ELSE 0)

Encode ==
  /\ at = "encode"
  /\ bytes' = Append(bytes, Byte(rest))
  /\ rest' = rest \div 128
  /\ at' = IF rest' > 0 THEN "encode" ELSE "sent"
  /\ UNCHANGED <<total, arrived, index, multiplier, decoded>>

\* The peer receives the encoding, or loses the connection within it.
Arrive ==
  /\ at = "sent"
  /\ arrived' \in 0..Len(bytes)
  /\ at' = "decode"
  /\ UNCHANGED <<total, rest, bytes, index, multiplier, decoded>>

Return(value) == at' = value

\* for (byte_index < 4) if (!recv_exact(...)) return false;
ByteReceived == index < 4 /\ index < arrived

Decode ==
  /\ at = "decode" /\ ByteReceived
  /\ LET byte == bytes[index + 1] IN
     /\ decoded' = decoded + (byte % 128) * multiplier
     /\ IF byte < 128 THEN Return("read") ELSE UNCHANGED at
  /\ multiplier' = multiplier * 128
  /\ index' = index + 1
  /\ UNCHANGED <<total, rest, bytes, arrived>>

GiveUp ==
  /\ at = "decode" /\ ~ByteReceived
  /\ Return("refused")
  /\ UNCHANGED <<total, rest, bytes, arrived, index, multiplier, decoded>>

Next == Encode \/ Arrive \/ Decode \/ GiveUp
Spec == Init /\ [][Next]_vars

-----------------------------------------------------------------------------
TypeOK ==
  /\ total \in Nat /\ rest \in Nat
  /\ bytes \in Seq(0..255)
  /\ arrived \in 0..Len(bytes) /\ index \in 0..4 /\ index <= arrived
  /\ multiplier = Power[index] /\ decoded \in Nat
  /\ at \in {"encode", "sent", "decode", "read", "refused"}

\* The first four bytes are the digits of the length, and the encoder has
\* divided exactly those away.
Encoded ==
  /\ \A k \in 1..4 : k <= Len(bytes) =>
       /\ bytes[k] % 128 = (total \div Power[k - 1]) % 128
       /\ (bytes[k] < 128) <=> (total < Power[k])
  /\ \A k \in 0..4 : at = "encode" /\ Len(bytes) = k => rest = total \div Power[k]
  /\ at = "encode" /\ Len(bytes) > 0 => rest > 0
  /\ at # "encode" => Len(bytes) > 0
  /\ \A k \in 1..4 : k < Len(bytes) => total >= Power[k]
  /\ \A k \in 1..4 : at # "encode" /\ Len(bytes) = k => total < Power[k]

\* The reader has the digits before its index, none of which was the last.
Decoded ==
  /\ at \in {"encode", "sent"} => index = 0 /\ arrived = 0
  /\ decoded = total % Power[index]
  /\ at = "decode" /\ index > 0 => total >= Power[index]

(* A length that is read is the length that was written, and every length of   *)
(* up to four bytes that arrives whole is read; encode_remaining_length writes *)
(* longer ones, which no reader accepts.                                       *)
RoundTrip ==
  /\ at = "read" => decoded = total /\ total < Power[4] /\ arrived = Len(bytes)
  /\ at = "refused" => ~(total < Power[4] /\ arrived = Len(bytes))

IInv == TypeOK /\ Encoded /\ Decoded /\ RoundTrip
=============================================================================
