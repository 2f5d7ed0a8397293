---------------------------- MODULE StrupleBytes ----------------------------
(***************************************************************************)
(* The byte-level vocabulary of the codec (src/c/struple.c): type codes,   *)
(* memcmp order, the 0x00 -> 0x00 0xFF escape, and the arithmetic that the *)
(* integer code does directly on big-endian magnitudes.                    *)
(*                                                                         *)
(* Bytes and type codes keep their real values.  The WIDTHS are constants: *)
(* int64, i128, float and UUID payloads have the same shape at any width,  *)
(* so a configuration may use the code's widths or narrow ones whose whole *)
(* value range can be enumerated.                                          *)
(***************************************************************************)
EXTENDS Integers, Sequences, FiniteSets, SequencesExt, FiniteSetsExt

CONSTANTS
    NativeWidth,  \* bytes of the native signed integer (int64_t: 8)
    FixedWidth,   \* bytes of the widest fixed integer slot (i128: 16)
    LenOfLen,     \* most length bytes a big-int header may have (8)
    F32Width,     \* bytes of a float32 payload (4)
    F64Width,     \* bytes of a float64 payload (8)
    UuidWidth,    \* bytes of a UUID payload (16)
    MaxExp        \* largest adjusted decimal exponent (INT32_MAX)

ASSUME WidthAssumption ==
    /\ NativeWidth \in Nat \ {0}
    /\ FixedWidth \in (NativeWidth + 1)..16   \* slot codes: 0x20 +- 1..16
    /\ LenOfLen \in 1..8
    /\ F32Width \in Nat \ {0}
    /\ F64Width \in Nat \ {0}
    /\ UuidWidth \in Nat
    /\ MaxExp \in Nat \ {0}

Byte == 0..255

-----------------------------------------------------------------------------
(* Type codes.  Their order is the cross-type sort order. *)

TERMINATOR  == 0
NIL         == 1
UNDEF       == 2
BOOL_FALSE  == 5
BOOL_TRUE   == 6
INT_NEG_BIG == 15
INT_ZERO    == 32
INT_POS_BIG == 49
FLOAT32     == 52
FLOAT64     == 53
DECIMAL     == 56
TIMESTAMP   == 64
UUID        == 68
STRING_CODE == 72
BYTES       == 73
ARRAY       == 80
MAP         == 82
SET         == 84

FixedNeg == (INT_ZERO - FixedWidth)..(INT_ZERO - 1)
FixedPos == (INT_ZERO + 1)..(INT_ZERO + FixedWidth)
Framed   == {STRING_CODE, BYTES, ARRAY, MAP, SET}
Bare     == {NIL, UNDEF, BOOL_FALSE, BOOL_TRUE, INT_ZERO}

(* Sign markers inside a decimal payload. *)
DEC_SIGN_NEG  == 1
DEC_SIGN_ZERO == 2
DEC_SIGN_POS  == 3

(* Payload bytes of a fixed integer slot. *)
SlotWidth(t) == IF t > INT_ZERO THEN t - INT_ZERO ELSE INT_ZERO - t

-----------------------------------------------------------------------------
(* Order and complement. *)

SignOf(n) == IF n < 0 THEN -1 ELSE IF n > 0 THEN 1 ELSE 0

(* memcmp over the common length, then the shorter buffer first. *)
Compare(a, b) ==
    LET n    == IF Len(a) < Len(b) THEN Len(a) ELSE Len(b)
        diff == {i \in 1..n : a[i] # b[i]}
        at   == CHOOSE i \in diff : \A j \in diff : i <= j
    IN  IF diff # {} THEN SignOf(a[at] - b[at]) ELSE SignOf(Len(a) - Len(b))

Complement(s) == [i \in DOMAIN s |-> 255 - s[i]]

(* Negative numbers store their order-bearing bytes complemented. *)
Signed(negative, s) == IF negative THEN Complement(s) ELSE s

-----------------------------------------------------------------------------
(* Framing: content bytes 0x00 are written 0x00 0xFF, the frame ends at a  *)
(* 0x00 that is not followed by 0xFF.                                      *)

(* Variant with a bug: no escape. *)
UnescapedContent(content) == content

Escaped(content) ==
    FlattenSeq([i \in DOMAIN content |->
                  IF content[i] = 0 THEN <<0, 255>> ELSE <<content[i]>>])

Unescaped(framed) ==
    FlattenSeq([i \in DOMAIN framed |->
                  IF i > 1 /\ framed[i - 1] = 0 THEN <<>> ELSE <<framed[i]>>])

(* Variant with a bug: any byte but 0 after a 0 is taken for the escape. *)
TerminatorsBeforeZero(buf, p) ==
    {i \in (p + 1)..Len(buf) :
        buf[i] = 0 /\ ~(i < Len(buf) /\ buf[i + 1] # 0)}

(* The frame terminators at or after offset p (bytes already consumed). *)
Terminators(buf, p) ==
    {i \in (p + 1)..Len(buf) :
        buf[i] = 0 /\ ~(i < Len(buf) /\ buf[i + 1] = 255)}

FirstOf(S) == CHOOSE i \in S : \A j \in S : i <= j

-----------------------------------------------------------------------------
(* Magnitudes: big-endian byte sequences, normalised when they carry no    *)
(* leading zero (the magnitude of 0 is empty).                             *)

Trimmed(s) ==
    LET sig == {i \in DOMAIN s : s[i] # 0}
    IN  IF sig = {} THEN <<>> ELSE SubSeq(s, FirstOf(sig), Len(s))

(* The borrow loop: s - 1 over the same number of bytes, s not all zero. *)
MinusOne(s) ==
    LET j == CHOOSE i \in DOMAIN s : s[i] # 0 /\ \A k \in (i + 1)..Len(s) : s[k] = 0
    IN  [i \in DOMAIN s |-> IF i < j THEN s[i] ELSE IF i = j THEN s[i] - 1 ELSE 255]

(* The carry loop: ~s + 1 over the same number of bytes; a carry out of    *)
(* the top byte (s all zero) is dropped.                                   *)
Negated(s) ==
    [i \in DOMAIN s |->
        IF \A k \in (i + 1)..Len(s) : s[k] = 0
        THEN (256 - s[i]) % 256
        ELSE 255 - s[i]]

(* Does sign + magnitude fit a two's complement integer of w bytes? *)
FitsSigned(negative, mag, w) ==
    \/ Len(mag) < w
    \/ /\ Len(mag) = w
       /\ \/ mag[1] < 128
          \/ negative /\ mag[1] = 128 /\ \A i \in 2..w : mag[i] = 0

(* The big-endian bytes of a natural number, none for 0 (u64_to_be): they  *)
(* are collected from the last one and turned round.                       *)
LittleEndian[n \in Nat] ==
    IF n = 0 THEN <<>> ELSE <<n % 256>> \o LittleEndian[n \div 256]

ToBE(n)    == Reverse(LittleEndian[n])
ByteLen(n) == Len(LittleEndian[n])

(* An adjusted exponent is an int32_t, no wider than the native integer.   *)
ASSUME ExponentAssumption == ByteLen(MaxExp + 1) <= 4 /\ ByteLen(MaxExp + 1) <= NativeWidth

(* The numbers of S that the big-endian bytes s encode: one or none. *)
DecodedIn(s, S) == {v \in S : ToBE(v) = Trimmed(s)}
=============================================================================
