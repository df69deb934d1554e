------------------------------ MODULE Multikey ------------------------------
(***************************************************************************)
(* packages/ap-core/src/base58.js and multikey.js: a public key as the     *)
(* string an actor document carries.  A string is the sequence of the      *)
(* positions of its characters in ALPHABET; bytes and characters have      *)
(* bases of their own, 256 and 58 in the code.                             *)
(***************************************************************************)
EXTENDS Naturals, Sequences, SequencesExt

CONSTANTS
    ByteBase,   \* 256
    DigitBase,  \* BASE, the length of ALPHABET: 58
    KeyLen,     \* 32 bytes
    Codec       \* MULTICODEC_ED25519_PUB: the bytes 0xed 0x01

ASSUME MultikeyAssumption ==
    /\ ByteBase \in Nat \ {0, 1} /\ DigitBase \in Nat \ {0, 1} /\ KeyLen \in Nat
    /\ Codec \in Seq(0..ByteBase - 1)

Malformed == <<"malformed">>

\* The number whose digits in base b are s, and back, without leading zeros.
Value(s, b) == FoldLeft(LAMBDA n, d : n * b + d, 0, s)

Digits(n, b) ==
    LET f[k \in Nat] == IF k = 0 THEN <<>> ELSE Append(f[k \div b], k % b)
    IN  f[n]

\* The zeros a sequence begins with.
LeadingZeros(s) == SelectInSeq(s \o <<1>>, LAMBDA d : d # 0) - 1

Zeros(n) == [i \in 1..n |-> 0]

base58Encode(bytes) ==
    Zeros(LeadingZeros(bytes)) \o Digits(Value(bytes, ByteBase), DigitBase)

\* The value 0 is the hexadecimal string "00", a byte of its own.
base58Decode(str) ==
    LET n == Value(str, DigitBase)
        bytes == IF n = 0 THEN <<0>> ELSE Digits(n, ByteBase)
    IN  IF str = <<>> THEN <<>> ELSE Zeros(LeadingZeros(str)) \o bytes

encodeMultikey(raw) == base58Encode(Codec \o raw)

decodeMultikey(str) ==
    LET bytes == base58Decode(str)
    IN  IF Len(bytes) = Len(Codec) + KeyLen /\ SubSeq(bytes, 1, Len(Codec)) = Codec
        THEN SubSeq(bytes, Len(Codec) + 1, Len(bytes))
        ELSE Malformed
=============================================================================
