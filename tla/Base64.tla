------------------------------- MODULE Base64 --------------------------------
(***************************************************************************)
(* base64_encode and base64_decode of src/src/crypto_utils.c.  A character *)
(* is its place in base64_chars, and PAD is '='.  The loops take three     *)
(* bytes and four characters at a time; here is what they leave at each    *)
(* place.                                                                  *)
(***************************************************************************)
EXTENDS Integers, Sequences

Bytes  == 0 .. 255
Digits == 0 .. 63
PAD    == 64

EncodedLength(length) == ((length + 2) \div 3) * 4

(* Bytes missing from the last three.                                      *)
Padding(length) == (3 - (length % 3)) % 3

ByteAt(data, i) == IF i <= Len(data) THEN data[i] ELSE 0

(* The q-th three bytes, from 0, as one number; 0 past the end.            *)
TripleOfBytes(data, q) ==
  ByteAt(data, 3 * q + 1) * 65536 + ByteAt(data, 3 * q + 2) * 256 + ByteAt(data, 3 * q + 3)

(* Its four digits, and the three bytes of such a number.                  *)
DigitOf(triple, i) ==
  CASE i = 0 -> (triple \div 262144) % 64
    [] i = 1 -> (triple \div 4096) % 64
    [] i = 2 -> (triple \div 64) % 64
    [] OTHER -> triple % 64

ByteOf(triple, i) ==
  CASE i = 0 -> (triple \div 65536) % 256
    [] i = 1 -> (triple \div 256) % 256
    [] OTHER -> triple % 256

base64_encode(data) ==
  [k \in 1 .. EncodedLength(Len(data)) |->
     IF k > EncodedLength(Len(data)) - Padding(Len(data))
       THEN PAD
       ELSE DigitOf(TripleOfBytes(data, (k - 1) \div 4), (k - 1) % 4)]

(* '=' counts as 0, wherever it is.                                        *)
Value(char) == IF char = PAD THEN 0 ELSE char

TripleOfChars(text, q) ==
  Value(text[4 * q + 1]) * 262144 + Value(text[4 * q + 2]) * 4096
    + Value(text[4 * q + 3]) * 64 + Value(text[4 * q + 4])

Padded(char) == IF char = PAD THEN 1 ELSE 0

(* The code looks at the last two characters before it knows that there    *)
(* are any: what it makes of an empty text depends on what lies before it. *)
DecodedLength(text) ==
  (Len(text) * 3) \div 4 - Padded(text[Len(text)]) - Padded(text[Len(text) - 1])

(* Whether base64_decode takes a text that is not empty, with room for     *)
(* length bytes, and what it leaves there.                                 *)
Decodes(text, length) == Len(text) % 4 = 0 /\ length >= DecodedLength(text)

base64_decode(text) ==
  [j \in 1 .. DecodedLength(text) |->
     ByteOf(TripleOfChars(text, (j - 1) \div 3), (j - 1) % 3)]

==============================================================================
