---------------------------- MODULE Base64_proofs ----------------------------
(***************************************************************************)
(* Decoding undoes encoding, for data of any length but none.              *)
(***************************************************************************)
EXTENDS Base64, TLAPS

(* Three bytes as four digits and back. A digit that only comes from bytes *)
(* past the end is 0, which is what '=' is read as.                        *)
LEMMA Quantum ==
  ASSUME NEW a \in Bytes, NEW b \in Bytes, NEW c \in Bytes,
         NEW t, t = a * 65536 + b * 256 + c
  PROVE  /\ \A i \in 0 .. 3 : DigitOf(t, i) \in Digits
         /\ DigitOf(t, 0) * 262144 + DigitOf(t, 1) * 4096
              + DigitOf(t, 2) * 64 + DigitOf(t, 3) = t
         /\ ByteOf(t, 0) = a /\ ByteOf(t, 1) = b /\ ByteOf(t, 2) = c
         /\ c = 0 => DigitOf(t, 3) = 0
         /\ b = 0 /\ c = 0 => DigitOf(t, 2) = 0
<1>1. a \in 0 .. 255 /\ b \in 0 .. 255 /\ c \in 0 .. 255 /\ t \in Nat
  BY DEF Bytes
<1>2. /\ DigitOf(t, 0) = (t \div 262144) % 64
      /\ DigitOf(t, 1) = (t \div 4096) % 64
      /\ DigitOf(t, 2) = (t \div 64) % 64
      /\ DigitOf(t, 3) = t % 64
  BY DEF DigitOf
<1>3. /\ ByteOf(t, 0) = (t \div 65536) % 256
      /\ ByteOf(t, 1) = (t \div 256) % 256
      /\ ByteOf(t, 2) = t % 256
  BY DEF ByteOf
<1>4. \A i \in 0 .. 3 : DigitOf(t, i) \in Digits
  <2>1. \A i \in 0 .. 3 : i = 0 \/ i = 1 \/ i = 2 \/ i = 3
    OBVIOUS
  <2>2. \A n \in Nat : n % 64 \in 0 .. 63
    OBVIOUS
  <2>3. t \div 262144 \in Nat /\ t \div 4096 \in Nat /\ t \div 64 \in Nat
    BY <1>1
  <2>. QED  BY <1>1, <1>2, <2>1, <2>2, <2>3 DEF Digits
<1>5. DigitOf(t, 0) * 262144 + DigitOf(t, 1) * 4096 + DigitOf(t, 2) * 64 + DigitOf(t, 3) = t
  <2>. DEFINE high == t \div 262144
              upper == t \div 4096
              most == t \div 64
  <2>1. t < 16777216
    BY <1>1
  <2>2. high % 64 = high
    BY <1>1, <2>1
  <2>3. high * 262144 + (upper % 64) * 4096 = upper * 4096
    BY <1>1
  <2>4. upper * 4096 + (most % 64) * 64 = most * 64
    BY <1>1
  <2>5. most * 64 + (t % 64) = t
    BY <1>1
  <2>6. /\ high \in Int /\ upper % 64 \in Int /\ most % 64 \in Int
        /\ t % 64 \in Int /\ upper \in Int /\ most \in Int
    BY <1>1
  <2>7. /\ DigitOf(t, 0) = high /\ DigitOf(t, 1) = upper % 64
        /\ DigitOf(t, 2) = most % 64 /\ DigitOf(t, 3) = t % 64
    BY <1>2, <2>2
  <2>. HIDE DEF high, upper, most
  <2>. QED  BY <1>1, <2>3, <2>4, <2>5, <2>6, <2>7
<1>6. ByteOf(t, 0) = a /\ ByteOf(t, 1) = b /\ ByteOf(t, 2) = c
  <2>1. t \div 65536 = a
    BY <1>1
  <2>2. t \div 256 = a * 256 + b
    BY <1>1
  <2>3. a % 256 = a
    BY <1>1
  <2>4. (a * 256 + b) % 256 = b
    BY <1>1
  <2>5. t % 256 = c
    BY <1>1
  <2>. QED  BY <1>3, <2>1, <2>2, <2>3, <2>4, <2>5
<1>7. c = 0 => DigitOf(t, 3) = 0
  BY <1>1, <1>2
<1>8. b = 0 /\ c = 0 => DigitOf(t, 2) = 0
  BY <1>1, <1>2
<1>. QED  BY <1>4, <1>5, <1>6, <1>7, <1>8

(* The text of n bytes is a whole number of fours, of which the last ends  *)
(* in the padding, and decodes to n bytes.                                 *)
LEMMA Lengths ==
  ASSUME NEW n \in Nat \ {0},
         NEW q, q = (n + 2) \div 3
  PROVE  /\ q \in Nat \ {0}
         /\ EncodedLength(n) = 4 * q
         /\ Padding(n) = 3 * q - n
         /\ Padding(n) \in 0 .. 2
<1>1. n % 3 \in 0 .. 2 /\ n = 3 * (n \div 3) + (n % 3) /\ n \div 3 \in Nat
  OBVIOUS
<1>2. CASE n % 3 = 0
  <2>1. q = n \div 3
    BY <1>1, <1>2
  <2>2. (3 - (n % 3)) % 3 = 0
    BY <1>2
  <2>. QED  BY <1>1, <1>2, <2>1, <2>2 DEF EncodedLength, Padding
<1>3. CASE n % 3 = 1
  <2>1. q = (n \div 3) + 1
    BY <1>1, <1>3
  <2>2. (3 - (n % 3)) % 3 = 2
    BY <1>3
  <2>. QED  BY <1>1, <1>3, <2>1, <2>2 DEF EncodedLength, Padding
<1>4. CASE n % 3 = 2
  <2>1. q = (n \div 3) + 1
    BY <1>1, <1>4
  <2>2. (3 - (n % 3)) % 3 = 1
    BY <1>4
  <2>. QED  BY <1>1, <1>4, <2>1, <2>2 DEF EncodedLength, Padding
<1>. QED  BY <1>1, <1>2, <1>3, <1>4

LEMMA BytesAt ==
  ASSUME NEW data \in Seq(Bytes), NEW i \in Nat \ {0}
  PROVE  ByteAt(data, i) \in Bytes
<1>1. CASE i <= Len(data)
  <2>1. i \in 1 .. Len(data)
    BY <1>1
  <2>2. data[i] \in Bytes
    BY <2>1
  <2>. QED  BY <1>1, <2>2 DEF ByteAt
<1>2. CASE ~(i <= Len(data))
  BY <1>2 DEF ByteAt, Bytes
<1>. QED  BY <1>1, <1>2

(* Each four characters are read as the three bytes they were made from,   *)
(* the padding of the last four included.                                  *)
LEMMA QuantaSurvive ==
  ASSUME NEW data \in Seq(Bytes), data # <<>>,
         NEW q \in 0 .. ((Len(data) + 2) \div 3) - 1
  PROVE  TripleOfChars(base64_encode(data), q) = TripleOfBytes(data, q)
<1>. DEFINE n == Len(data)
            quanta == (n + 2) \div 3
            text == base64_encode(data)
            a == ByteAt(data, 3 * q + 1)
            b == ByteAt(data, 3 * q + 2)
            c == ByteAt(data, 3 * q + 3)
            t == TripleOfBytes(data, q)
            kept == 4 * quanta - Padding(n)
<1>1. n \in Nat \ {0}
  OBVIOUS
<1>2. /\ quanta \in Nat \ {0} /\ EncodedLength(n) = 4 * quanta
      /\ Padding(n) = 3 * quanta - n /\ Padding(n) \in 0 .. 2
  <2>. HIDE DEF n, quanta
  <2>. QED  BY <1>1, Lengths DEF quanta
<1>3. a \in Bytes /\ b \in Bytes /\ c \in Bytes
  <2>1. q \in Nat
    BY <1>1, <1>2
  <2>. QED  BY <2>1, BytesAt
<1>4. t = a * 65536 + b * 256 + c
  BY DEF TripleOfBytes
<1>5. \A i \in 0 .. 3 :
        text[4 * q + 1 + i] = IF 4 * q + 1 + i > kept THEN PAD ELSE DigitOf(t, i)
  <2>. SUFFICES ASSUME NEW i \in 0 .. 3
                PROVE  text[4 * q + 1 + i] =
                         IF 4 * q + 1 + i > kept THEN PAD ELSE DigitOf(t, i)
    OBVIOUS
  <2>1. q \in Nat /\ q < quanta
    BY <1>1, <1>2
  <2>2. 4 * q + 1 + i \in 1 .. EncodedLength(n)
    BY <1>2, <2>1
  <2>3. (4 * q + 1 + i - 1) \div 4 = q /\ (4 * q + 1 + i - 1) % 4 = i
    BY <2>1
  <2>. QED  BY <1>2, <2>2, <2>3 DEF base64_encode
<1>6. /\ \A i \in 0 .. 3 : DigitOf(t, i) \in Digits
      /\ DigitOf(t, 0) * 262144 + DigitOf(t, 1) * 4096
           + DigitOf(t, 2) * 64 + DigitOf(t, 3) = t
      /\ c = 0 => DigitOf(t, 3) = 0
      /\ b = 0 /\ c = 0 => DigitOf(t, 2) = 0
  <2>. HIDE DEF a, b, c, t
  <2>. QED  BY <1>3, <1>4, Quantum
(* A padded place stands for a digit that is 0.                            *)
<1>7. /\ 4 * q + 1 <= kept /\ 4 * q + 2 <= kept
      /\ 4 * q + 3 > kept => b = 0 /\ c = 0
      /\ 4 * q + 4 > kept => c = 0
  <2>1. q \in Nat /\ q < quanta
    BY <1>1, <1>2
  <2>2. kept = quanta + n
    BY <1>1, <1>2
  <2>3. n > 3 * quanta - 3
    BY <1>1, <1>2
  <2>4. 4 * q + 3 > kept => 3 * q + 2 > n
    BY <1>1, <1>2, <2>1, <2>2, <2>3
  <2>5. 4 * q + 4 > kept => 3 * q + 3 > n
    BY <1>1, <1>2, <2>1, <2>2, <2>3
  <2>6. 4 * q + 1 <= kept /\ 4 * q + 2 <= kept
    BY <1>1, <1>2, <2>1
  <2>7. /\ 3 * q + 2 > n => b = 0
        /\ 3 * q + 3 > n => c = 0
    BY <1>1, <2>1 DEF ByteAt
  <2>. QED  BY <1>1, <2>1, <2>4, <2>5, <2>6, <2>7
<1>8. \A i \in 0 .. 3 : Value(text[4 * q + 1 + i]) = DigitOf(t, i)
  <2>. HIDE DEF a, b, c, t, kept, text
  <2>1. \A i \in 0 .. 3 : DigitOf(t, i) # PAD
    <3>1. \A d \in Digits : d # PAD
      BY DEF Digits, PAD
    <3>. QED  BY <1>6, <3>1
  <2>2. \A i \in 0 .. 3 : 4 * q + 1 + i > kept => DigitOf(t, i) = 0
    <3>1. q \in Nat /\ kept \in Int
      BY <1>1, <1>2 DEF kept
    <3>2. \A i \in 0 .. 3 : i = 0 \/ i = 1 \/ i = 2 \/ i = 3
      OBVIOUS
    <3>. QED  BY <1>6, <1>7, <3>1, <3>2
  <2>. QED  BY <1>5, <2>1, <2>2 DEF Value
<1>9. q \in Nat
  BY <1>1, <1>2
<1>10. /\ Value(text[4 * q + 1]) = DigitOf(t, 0)
       /\ Value(text[4 * q + 2]) = DigitOf(t, 1)
       /\ Value(text[4 * q + 3]) = DigitOf(t, 2)
       /\ Value(text[4 * q + 4]) = DigitOf(t, 3)
  <2>. HIDE DEF text, t
  <2>1. /\ 4 * q + 1 + 0 = 4 * q + 1 /\ 4 * q + 1 + 1 = 4 * q + 2
        /\ 4 * q + 1 + 2 = 4 * q + 3 /\ 4 * q + 1 + 3 = 4 * q + 4
    BY <1>9
  <2>2. 0 \in 0 .. 3 /\ 1 \in 0 .. 3 /\ 2 \in 0 .. 3 /\ 3 \in 0 .. 3
    OBVIOUS
  <2>. QED  BY <1>8, <2>1, <2>2
<1>. QED  BY <1>6, <1>10 DEF TripleOfChars

(* What base64_encode made of some bytes, base64_decode takes if there is  *)
(* room for as many, and makes the same bytes of it.                       *)
THEOREM RoundTrip ==
  ASSUME NEW data \in Seq(Bytes), data # <<>>,
         NEW room \in Nat
  PROVE  /\ Decodes(base64_encode(data), room) <=> room >= Len(data)
         /\ base64_decode(base64_encode(data)) = data
<1>. DEFINE n == Len(data)
            quanta == (n + 2) \div 3
            text == base64_encode(data)
<1>1. n \in Nat \ {0}
  OBVIOUS
<1>2. /\ quanta \in Nat \ {0} /\ EncodedLength(n) = 4 * quanta
      /\ Padding(n) = 3 * quanta - n /\ Padding(n) \in 0 .. 2
  <2>. HIDE DEF n, quanta
  <2>. QED  BY <1>1, Lengths DEF quanta
<1>3. Len(text) = 4 * quanta
  <2>1. text = [k \in 1 .. EncodedLength(n) |-> text[k]]
    BY DEF base64_encode
  <2>. HIDE DEF text, n, quanta
  <2>. QED  BY <1>2, <2>1
<1>4. \A k \in {4 * quanta - 1, 4 * quanta} :
        Padded(text[k]) = IF k > 4 * quanta - Padding(n) THEN 1 ELSE 0
  <2>. SUFFICES ASSUME NEW k \in {4 * quanta - 1, 4 * quanta}
                PROVE  Padded(text[k]) = IF k > 4 * quanta - Padding(n) THEN 1 ELSE 0
    OBVIOUS
  <2>1. k \in 1 .. EncodedLength(n)
    BY <1>2
  <2>2. text[k] = IF k > 4 * quanta - Padding(n) THEN PAD
                  ELSE DigitOf(TripleOfBytes(data, (k - 1) \div 4), (k - 1) % 4)
    BY <1>2, <2>1 DEF base64_encode
  <2>3. DigitOf(TripleOfBytes(data, (k - 1) \div 4), (k - 1) % 4) # PAD
    <3>. DEFINE q == (k - 1) \div 4
    <3>1. q \in Nat /\ (k - 1) % 4 \in 0 .. 3
      BY <1>2, <2>1
    <3>2. /\ ByteAt(data, 3 * q + 1) \in Bytes
          /\ ByteAt(data, 3 * q + 2) \in Bytes
          /\ ByteAt(data, 3 * q + 3) \in Bytes
      <4>. HIDE DEF q
      <4>. QED  BY <3>1, BytesAt
    <3>3. DigitOf(TripleOfBytes(data, q), (k - 1) % 4) \in Digits
      <4>1. \A i \in 0 .. 3 : DigitOf(TripleOfBytes(data, q), i) \in Digits
        <5>. HIDE DEF q
        <5>. QED  BY <3>2, Quantum DEF TripleOfBytes
      <4>. QED  BY <3>1, <4>1
    <3>4. \A d \in Digits : d # PAD
      BY DEF Digits, PAD
    <3>. QED  BY <3>3, <3>4
  <2>. QED  BY <2>2, <2>3 DEF Padded
<1>5. DecodedLength(text) = n
  <2>. HIDE DEF text, n, quanta
  <2>1. (4 * quanta * 3) \div 4 = 3 * quanta
    BY <1>2
  <2>2. CASE Padding(n) = 0
    BY <1>1, <1>2, <1>3, <1>4, <2>1, <2>2 DEF DecodedLength
  <2>3. CASE Padding(n) = 1
    BY <1>1, <1>2, <1>3, <1>4, <2>1, <2>3 DEF DecodedLength
  <2>4. CASE Padding(n) = 2
    BY <1>1, <1>2, <1>3, <1>4, <2>1, <2>4 DEF DecodedLength
  <2>. QED  BY <1>2, <2>2, <2>3, <2>4
<1>6. Len(text) % 4 = 0
  <2>. HIDE DEF text, quanta
  <2>. QED  BY <1>2, <1>3
<1>7. \A j \in 1 .. n : ByteOf(TripleOfChars(text, (j - 1) \div 3), (j - 1) % 3) = data[j]
  <2>. SUFFICES ASSUME NEW j \in 1 .. n
                PROVE  ByteOf(TripleOfChars(text, (j - 1) \div 3), (j - 1) % 3) = data[j]
    OBVIOUS
  <2>. DEFINE q == (j - 1) \div 3
              i == (j - 1) % 3
  <2>1. q \in 0 .. quanta - 1 /\ i \in 0 .. 2 /\ j = 3 * q + i + 1
    BY <1>1, <1>2
  <2>2. TripleOfChars(text, q) = TripleOfBytes(data, q)
    <3>. HIDE DEF q
    <3>. QED  BY <2>1, QuantaSurvive
  <2>3. q \in Nat /\ i \in 0 .. 2
    BY <1>2, <2>1
  <2>4. /\ ByteAt(data, 3 * q + 1) \in Bytes
        /\ ByteAt(data, 3 * q + 2) \in Bytes
        /\ ByteAt(data, 3 * q + 3) \in Bytes
    <3>. HIDE DEF q
    <3>. QED  BY <2>3, BytesAt
  <2>5. ByteOf(TripleOfBytes(data, q), i) = ByteAt(data, 3 * q + i + 1)
    <3>. HIDE DEF q, i
    <3>1. i = 0 \/ i = 1 \/ i = 2
      BY <2>3
    <3>2. /\ ByteOf(TripleOfBytes(data, q), 0) = ByteAt(data, 3 * q + 1)
          /\ ByteOf(TripleOfBytes(data, q), 1) = ByteAt(data, 3 * q + 2)
          /\ ByteOf(TripleOfBytes(data, q), 2) = ByteAt(data, 3 * q + 3)
      BY <2>4, Quantum DEF TripleOfBytes
    <3>3. 3 * q + 0 + 1 = 3 * q + 1 /\ 3 * q + 1 + 1 = 3 * q + 2 /\ 3 * q + 2 + 1 = 3 * q + 3
      BY <2>3
    <3>. QED  BY <3>1, <3>2, <3>3
  <2>6. ByteAt(data, j) = data[j]
    BY DEF ByteAt
  <2>. HIDE DEF q, i
  <2>7. ByteOf(TripleOfChars(text, q), i) = data[j]
    BY <2>1, <2>2, <2>5, <2>6
  <2>. QED  BY <2>7 DEF q, i
<1>8. base64_decode(text) = data
  <2>1. base64_decode(text) = [j \in 1 .. n |-> data[j]]
    <3>. HIDE DEF text, n
    <3>. QED  BY <1>5, <1>7 DEF base64_decode
  <2>. QED  BY <2>1
<1>9. Decodes(text, room) <=> room >= n
  BY <1>5, <1>6 DEF Decodes
<1>. QED  BY <1>8, <1>9

==============================================================================
