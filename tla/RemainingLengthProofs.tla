----------------------- MODULE RemainingLengthProofs -----------------------
(* The round trip of the "remaining length" for every payload size: IInv is an *)
(* invariant of the two loops, and RoundTrip a part of it.                     *)
EXTENDS RemainingLength, SequenceTheorems, TLAPS

(* The powers of 128, number by number, as the provers need them.              *)
LEMMA Powers ==
  /\ Power[0] = 1 /\ Power[1] = 128 /\ Power[2] = 16384 /\ Power[3] = 2097152
  /\ Power[4] = 268435456
BY SMT DEF Power

(* One byte of the encoding: seven bits, and the eighth if there are more.     *)
LEMMA ByteIs ==
  ASSUME NEW n \in Nat
  PROVE  /\ Byte(n) \in 0..255
         /\ Byte(n) % 128 = n % 128
         /\ (Byte(n) < 128) <=> (n < 128)
BY SMT DEF Byte

(* Every element of the encoding is a byte.                                    *)
LEMMA BytesAre ==
  ASSUME NEW s \in Seq(0..255)
  PROVE  Len(s) \in Nat /\ \A k \in 1..Len(s) : s[k] \in 0..255
BY LenProperties, ElementOfSeq, Zenon

(* Dividing by 128 goes to the next power.                                     *)
LEMMA Divide ==
  ASSUME NEW n \in Nat, NEW k \in 0..3
  PROVE  /\ (n \div Power[k]) \div 128 = n \div Power[k + 1]
         /\ ((n \div Power[k]) < 128) <=> (n < Power[k + 1])
         /\ (n \div Power[k]) \in Nat
<1>1. CASE k = 0
  BY <1>1, Powers, SMT
<1>2. CASE k = 1
  BY <1>2, Powers, SMT
<1>3. CASE k = 2
  BY <1>3, Powers, SMT
<1>4. CASE k = 3
  BY <1>4, Powers, SMT
<1> QED BY <1>1, <1>2, <1>3, <1>4, SMT

(* The digit at k, at its place, completes the remainder below it.             *)
LEMMA Digit ==
  ASSUME NEW n \in Nat, NEW k \in 0..3
  PROVE  /\ (n % Power[k]) + ((n \div Power[k]) % 128) * Power[k] = n % Power[k + 1]
         /\ Power[k] * 128 = Power[k + 1]
<1>1. CASE k = 0
  BY <1>1, Powers, SMT
<1>2. CASE k = 1
  BY <1>2, Powers, SMT
<1>3. CASE k = 2
  BY <1>3, Powers, SMT
<1>4. CASE k = 3
  BY <1>4, Powers, SMT
<1> QED BY <1>1, <1>2, <1>3, <1>4, SMT

(* What the digits below k can hold, they hold; what is left above is more.    *)
LEMMA Fits ==
  ASSUME NEW n \in Nat, NEW k \in 1..4
  PROVE  /\ n < Power[k] => n % Power[k] = n
         /\ (n \div Power[k]) > 0 => n >= Power[k]
<1>1. CASE k = 1
  BY <1>1, Powers, SMT
<1>2. CASE k = 2
  BY <1>2, Powers, SMT
<1>3. CASE k = 3
  BY <1>3, Powers, SMT
<1>4. CASE k = 4
  BY <1>4, Powers, SMT
<1> QED BY <1>1, <1>2, <1>3, <1>4, SMT

(* The first four bytes, counted from 1 and from 0.                            *)
LEMMA Counting ==
  ASSUME NEW n \in Nat, NEW k \in 0..4
  PROVE  /\ k = n + 1 => n \in 0..3 /\ n = k - 1
         /\ k = n => n \in 0..4
OBVIOUS

-----------------------------------------------------------------------------
(* Before the first iteration nothing is written and nothing read.             *)
LEMMA InitIInv == Init => IInv
<1> SUFFICES ASSUME Init PROVE IInv
  OBVIOUS
<1>0. total \in Nat
  BY DEF Init
<1>1. TypeOK
  BY <1>0, Powers, SMT DEF Init, TypeOK
<1>2. Encoded
  BY <1>0, Powers, SMT DEF Init, Encoded
<1>3. Decoded
  BY <1>0, Powers, SMT DEF Init, Decoded
<1>4. RoundTrip
  BY SMT DEF Init, RoundTrip
<1> QED BY <1>1, <1>2, <1>3, <1>4, SMT DEF IInv

(* Every iteration of either loop keeps IInv.                                  *)
LEMMA NextIInv == IInv /\ [Next]_vars => IInv'
<1> SUFFICES ASSUME IInv, [Next]_vars PROVE IInv'
  OBVIOUS
<1>0. /\ total \in Nat /\ bytes \in Seq(0..255) /\ Len(bytes) \in Nat
      /\ \A k \in 1..Len(bytes) : bytes[k] \in 0..255
  <2>1. total \in Nat /\ bytes \in Seq(0..255)
    BY DEF IInv, TypeOK
  <2> QED BY <2>1, BytesAre, SMT
<1>1. CASE Encode
  <2> DEFINE n == Len(bytes)
  <2>0. n \in Nat
    BY <1>0
  <2>1. /\ Byte(rest) \in 0..255
        /\ Byte(rest) % 128 = rest % 128
        /\ (Byte(rest) < 128) <=> (rest < 128)
    <3>1. rest \in Nat
      BY DEF IInv, TypeOK
    <3> QED BY <3>1, ByteIs, Zenon
  <2>2. /\ Len(bytes') = n + 1 /\ bytes'[n + 1] = Byte(rest)
        /\ \A k \in 1..n : bytes'[k] = bytes[k]
        /\ bytes' \in Seq(0..255)
    BY <1>0, <1>1, <2>1, SMT DEF Encode
  <2>3. rest' \in Nat /\ ((rest' > 0) <=> ~(rest < 128))
    BY <1>1, SMT DEF Encode, IInv, TypeOK
  <2>4. /\ index = 0 /\ arrived = 0 /\ UNCHANGED <<total, arrived, index, multiplier, decoded>>
        /\ at = "encode" /\ at' = (IF rest' > 0 THEN "encode" ELSE "sent")
        /\ rest' = rest \div 128
    BY <1>1, SMT DEF Encode, IInv, Decoded
  <2>5. TypeOK'
    BY <1>0, <2>2, <2>3, <2>4, SMT DEF IInv, TypeOK
  <2>6. n \in 0..3 => /\ rest' = total \div Power[n + 1]
                      /\ Byte(rest) % 128 = (total \div Power[n]) % 128
                      /\ (Byte(rest) < 128) <=> (total < Power[n + 1])
    <3> SUFFICES ASSUME n \in 0..3
                 PROVE  /\ rest' = total \div Power[n + 1]
                        /\ Byte(rest) % 128 = (total \div Power[n]) % 128
                        /\ (Byte(rest) < 128) <=> (total < Power[n + 1])
      OBVIOUS
    <3>1. n \in 0..4
      OBVIOUS
    <3>2. rest = total \div Power[n]
      BY <2>4, <3>1, Zenon DEF IInv, Encoded
    <3>3. /\ (total \div Power[n]) \div 128 = total \div Power[n + 1]
          /\ ((total \div Power[n]) < 128) <=> (total < Power[n + 1])
      BY <1>0, Divide, Zenon
    <3> QED BY <2>1, <2>4, <3>2, <3>3, Zenon
  <2>7. Encoded'
    <3>1. \A k \in 1..4 : k <= n + 1 =>
            /\ bytes'[k] % 128 = (total \div Power[k - 1]) % 128
            /\ (bytes'[k] < 128) <=> (total < Power[k])
      <4> SUFFICES ASSUME NEW k \in 1..4, k <= n + 1
                   PROVE  /\ bytes'[k] % 128 = (total \div Power[k - 1]) % 128
                          /\ (bytes'[k] < 128) <=> (total < Power[k])
        OBVIOUS
      <4>1. CASE k <= n
        <5>1. k \in 1..n
          BY <1>0, <4>1, SMT
        <5>2. /\ bytes[k] % 128 = (total \div Power[k - 1]) % 128
              /\ (bytes[k] < 128) <=> (total < Power[k])
          BY <4>1, Zenon DEF IInv, Encoded
        <5> QED BY <2>2, <5>1, <5>2, Zenon
      <4>2. CASE k = n + 1
        <5>1. n \in 0..3 /\ n = k - 1
          <6>1. k \in 0..4
            OBVIOUS
          <6> QED BY <2>0, <4>2, <6>1, Counting, Zenon
        <5> QED BY <2>2, <2>6, <4>2, <5>1, Zenon
      <4> QED BY <1>0, <4>1, <4>2, SMT
    <3>2. \A k \in 0..4 : n + 1 = k => rest' = total \div Power[k]
      <4>1. \A k \in 0..4 : n + 1 = k => n \in 0..3
        BY <2>0, Counting, Zenon
      <4> QED BY <2>6, <4>1, Zenon
    <3>3. \A k \in 1..4 : rest' = 0 /\ n + 1 = k => total < Power[k]
      <4>0. \A k \in 1..4 : k \in 0..4
        OBVIOUS
      <4>1. \A k \in 1..4 : n + 1 = k => n \in 0..3
        BY <2>0, <4>0, Counting, Zenon
      <4>2. rest' = 0 => rest < 128
        BY <2>3, SMT
      <4> QED BY <2>1, <2>6, <4>1, <4>2, Zenon
    <3>4. /\ at' = "encode" => rest' > 0
          /\ at' # "encode" => rest' = 0
      BY <2>3, <2>4, SMT
    <3>5. \A k \in 1..4 : k < n + 1 => total >= Power[k]
      <4> SUFFICES ASSUME NEW k \in 1..4, k < n + 1 PROVE total >= Power[k]
        OBVIOUS
      <4>1. CASE k < n
        BY <4>1, SMT DEF IInv, Encoded
      <4>2. CASE k = n
        <5>1. rest > 0 /\ rest = total \div Power[n]
          <6>1. n \in 0..4 /\ n > 0
            BY <2>0, <4>2, SMT
          <6> QED BY <2>4, <6>1, Zenon DEF IInv, Encoded
        <5> QED BY <1>0, <4>2, <5>1, Fits, Zenon
      <4> QED BY <1>0, <4>1, <4>2, SMT
    <3> QED BY <1>0, <2>2, <2>4, <3>1, <3>2, <3>3, <3>4, <3>5, SMT DEF Encoded
  <2>8. Decoded' /\ RoundTrip'
    BY <2>4, SMT DEF IInv, Decoded, RoundTrip
  <2> QED BY <2>5, <2>7, <2>8, SMT DEF IInv
<1>2. CASE Arrive
  <2>1. TypeOK'
    BY <1>0, <1>2, SMT DEF IInv, Arrive, TypeOK, Decoded
  <2>2. Encoded'
    BY <1>2, SMT DEF IInv, Arrive, Encoded
  <2>3. Decoded' /\ RoundTrip'
    BY <1>2, SMT DEF IInv, Arrive, Decoded, RoundTrip
  <2> QED BY <2>1, <2>2, <2>3, SMT DEF IInv
<1>3. CASE Decode
  <2> DEFINE byte == bytes[index + 1]
  <2>1. /\ index \in 0..3 /\ index + 1 \in 1..4 /\ index + 1 <= arrived
        /\ arrived <= Len(bytes) /\ at = "decode"
        /\ byte \in 0..255
    BY <1>0, <1>3, SMT DEF Decode, ByteReceived, IInv, TypeOK
  <2>2. /\ byte % 128 = (total \div Power[index]) % 128
        /\ (byte < 128) <=> (total < Power[index + 1])
    <3>1. index + 1 <= Len(bytes) /\ index = (index + 1) - 1
      BY <1>0, <2>1, SMT DEF IInv, TypeOK
    <3> QED BY <2>1, <3>1, Zenon DEF IInv, Encoded
  <2>3. /\ decoded' = total % Power[index + 1]
        /\ multiplier' = Power[index + 1]
    BY <1>0, <1>3, <2>1, <2>2, Digit, SMT DEF Decode, IInv, Decoded, TypeOK
  <2>4. index' = index + 1 /\ UNCHANGED <<total, rest, bytes, arrived>>
    BY <1>3, SMT DEF Decode
  <2>5. decoded' \in Nat
    BY <1>0, <2>1, <2>3, Powers, SMT
  <2>6. CASE byte < 128
    <3>1. at' = "read"
      BY <1>3, <2>6, SMT DEF Decode, Return
    <3>2. total < Power[index + 1] /\ decoded' = total
      <4>1. total \in Nat /\ total < Power[index + 1]
        BY <1>0, <2>2, <2>6, Zenon
      <4> QED BY <2>1, <2>3, <4>1, Fits, Zenon
    <3>3. total < Power[4] /\ arrived = Len(bytes)
      <4>1. Len(bytes) <= index + 1
        <5>1. index + 1 < Len(bytes) => total >= Power[index + 1]
          BY <2>1, Zenon DEF IInv, Encoded
        <5>2. total \in Nat /\ Len(bytes) \in Nat
          BY <1>0
        <5> QED BY <2>1, <3>2, <5>1, <5>2, Powers, SMT
      <4>2. Power[index + 1] <= Power[4]
        BY <2>1, Powers, SMT
      <4>3. total \in Nat /\ Len(bytes) \in Nat /\ arrived \in Nat
        BY <1>0 DEF IInv, TypeOK
      <4> QED BY <2>1, <3>2, <4>1, <4>2, <4>3, Powers, SMT
    <3>4. TypeOK'
      BY <2>1, <2>3, <2>4, <2>5, <3>1, SMT DEF IInv, TypeOK
    <3>5. Encoded'
      BY <2>1, <2>4, <3>1, SMT DEF IInv, Encoded
    <3>6. Decoded'
      BY <2>3, <2>4, <3>1, SMT DEF Decoded
    <3>7. RoundTrip'
      BY <2>4, <3>1, <3>2, <3>3, SMT DEF RoundTrip
    <3> QED BY <3>4, <3>5, <3>6, <3>7, SMT DEF IInv
  <2>7. CASE ~(byte < 128)
    <3>1. UNCHANGED at
      BY <1>3, <2>7, SMT DEF Decode
    <3>2. total >= Power[index + 1]
      BY <1>0, <2>1, <2>2, <2>7, Powers, SMT
    <3>4. TypeOK'
      BY <2>1, <2>3, <2>4, <2>5, <3>1, SMT DEF IInv, TypeOK
    <3>5. Encoded'
      BY <2>1, <2>4, <3>1, SMT DEF IInv, Encoded
    <3>6. Decoded' /\ RoundTrip'
      BY <2>1, <2>3, <2>4, <3>1, <3>2, SMT DEF IInv, Decoded, RoundTrip
    <3> QED BY <3>4, <3>5, <3>6, SMT DEF IInv
  <2> QED BY <2>6, <2>7, SMT
<1>4. CASE GiveUp
  <2>1. /\ at = "decode" /\ at' = "refused"
        /\ UNCHANGED <<total, rest, bytes, arrived, index, multiplier, decoded>>
    BY <1>4, SMT DEF GiveUp, Return
  <2>2. ~(total < Power[4] /\ arrived = Len(bytes))
    <3>1. index \in 0..4 /\ index <= arrived /\ arrived \in 0..Len(bytes)
      BY SMT DEF IInv, TypeOK
    <3>2. index = 4 \/ index = arrived
      BY <1>0, <1>4, <3>1, SMT DEF GiveUp, ByteReceived
    <3>3. CASE index = 4
      BY <1>0, <2>1, <3>3, Powers, SMT DEF IInv, Decoded
    <3>4. CASE index = arrived /\ arrived = Len(bytes)
      <4>1. index \in 1..4
        BY <1>0, <2>1, <3>1, <3>4, SMT DEF IInv, Encoded
      <4>2. total < Power[index] /\ total >= Power[index]
        BY <2>1, <3>4, <4>1, SMT DEF IInv, Encoded, Decoded
      <4> QED BY <1>0, <4>1, <4>2, Powers, SMT
    <3> QED BY <3>2, <3>3, <3>4, SMT
  <2>3. TypeOK' /\ Encoded'
    BY <2>1, SMT DEF IInv, TypeOK, Encoded
  <2>4. Decoded' /\ RoundTrip'
    BY <2>1, <2>2, SMT DEF IInv, Decoded, RoundTrip
  <2> QED BY <2>3, <2>4, SMT DEF IInv
<1>5. CASE UNCHANGED vars
  BY <1>5, SMT DEF vars, IInv, TypeOK, Encoded, Decoded, RoundTrip
<1> QED BY <1>1, <1>2, <1>3, <1>4, <1>5, SMT DEF Next

(* The invariant of the encoder's and the reader's loop.                       *)
THEOREM Invariance == Spec => []IInv
BY InitIInv, NextIInv, PTL DEF Spec

(* Framing is faithful for every payload size: what is read is what was        *)
(* written, and only lengths of more than four bytes or cut short are refused. *)
THEOREM LengthRoundTrips == Spec => []RoundTrip
<1>1. IInv => RoundTrip
  BY SMT DEF IInv
<1> QED BY <1>1, Invariance, PTL
=============================================================================
