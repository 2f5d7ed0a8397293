---------------------------- MODULE StrupleEncode ----------------------------
(***************************************************************************)
(* The encoder: one operator per struple_append_* function, each giving    *)
(* the bytes the call appends to its writer.  Elements are the decoded     *)
(* records of struple_element:                                             *)
(*   [kind |-> "nil"], "undef"                                             *)
(*   [kind |-> "bool", val |-> BOOLEAN]                                    *)
(*   [kind |-> "int" or "bigint", neg |-> BOOLEAN, mag |-> magnitude]      *)
(*   [kind |-> "f32" or "f64", bits |-> bytes of the IEEE pattern]         *)
(*   [kind |-> "decimal", neg, digits |-> Seq(0..9), exp |-> Int]          *)
(*   [kind |-> "timestamp" or "uuid" or "string" or "bytes" or "array" or  *)
(*    "map" or "set", data |-> bytes]                                      *)
(***************************************************************************)
EXTENDS StrupleBytes

(* append_magnitude (and its zero case): the shortest fixed slot, or the   *)
(* self-delimiting big-int form [length of length][length][magnitude].     *)
EncInt(negative, m) ==
    LET big(mag) ==
            LET len == ToBE(Len(mag))
            IN  <<IF negative THEN INT_NEG_BIG ELSE INT_POS_BIG>>
                  \o Signed(negative, <<Len(len)>> \o len \o mag)
        excess[low \in Seq(Byte)] ==
            LET payload == IF low = <<>> THEN <<0>> ELSE low
            IN  <<INT_ZERO - Len(payload)>> \o Complement(payload)
        enc[mag \in Seq(Byte)] ==
            CASE mag = <<>> -> <<INT_ZERO>>
              [] mag # <<>> /\ ~FitsSigned(negative, mag, FixedWidth) -> big(mag)
              [] OTHER -> IF negative THEN excess[Trimmed(MinusOne(mag))]
                          ELSE <<INT_ZERO + Len(mag)>> \o mag
    IN  enc[Trimmed(m)]

-----------------------------------------------------------------------------
(* Floats.  A payload's first byte holds the sign bit and the exponent.    *)

CanonicalNaN(w) == [i \in 1..w |-> IF i = 1 THEN 127 ELSE IF i = 2 THEN 128 ELSE 0]
Zeroes(w)       == [i \in 1..w |-> 0]

IsNaN(bits)     == bits[1] % 128 = 127 /\ \E i \in 2..Len(bits) : bits[i] # 0
IsNegZero(bits) == bits[1] = 128 /\ \A i \in 2..Len(bits) : bits[i] = 0

(* -0.0 is squashed to 0.0 and every NaN to one pattern, then the sign bit *)
(* is flipped, or the whole pattern when it was set.                       *)
CanonicalBits(bits) ==
    IF IsNaN(bits) THEN CanonicalNaN(Len(bits))
    ELSE IF IsNegZero(bits) THEN Zeroes(Len(bits)) ELSE bits

(* Variant with a bug: two's complement stored as it is. *)
UnflippedSign(bits) == bits

FlipSign(bits) == [i \in DOMAIN bits |-> IF i = 1 THEN (bits[1] + 128) % 256 ELSE bits[i]]

EncFloatBits(bits) ==
    LET b == CanonicalBits(bits)
    IN  IF b[1] >= 128 THEN Complement(b) ELSE FlipSign(b)

-----------------------------------------------------------------------------
(* Decimals: value = +-0.d1d2... * 10^(adjusted exponent).                 *)

InExpRange(e) == -(MaxExp + 1) <= e /\ e <= MaxExp

(* Base-100 digit pairs, an odd tail padded with 0, each stored plus 1. *)
DigitPairs(d) ==
    [k \in 1..((Len(d) + 1) \div 2) |->
        d[2*k - 1] * 10 + (IF 2*k <= Len(d) THEN d[2*k] ELSE 0) + 1]

DecimalRejected(digits, exp) ==
    LET sig == Trimmed(digits) IN sig # <<>> /\ ~InExpRange(Len(sig) + exp)

EncAdjExp(e) == EncInt(e < 0, ToBE(IF e < 0 THEN -e ELSE e))

(* The bytes appended; a rejected value emits nothing. *)
EncDecimal(negative, digits, exp) ==
    LET sig  == Trimmed(digits)
        kept == SubSeq(sig, 1, CHOOSE n \in 0..Len(sig) :
                                  /\ n = 0 \/ sig[n] # 0
                                  /\ \A i \in (n + 1)..Len(sig) : sig[i] = 0)
        stored[tail \in Seq(Byte)] ==
            <<DECIMAL, IF negative THEN DEC_SIGN_NEG ELSE DEC_SIGN_POS>> \o Signed(negative, tail)
    IN  CASE sig = <<>> -> <<DECIMAL, DEC_SIGN_ZERO>>
          [] DecimalRejected(digits, exp) -> <<>>
          [] OTHER -> stored[EncAdjExp(Len(sig) + exp) \o DigitPairs(kept) \o <<TERMINATOR>>]

-----------------------------------------------------------------------------
(* Framed elements and containers. *)

EncFramed(code, content) == <<code>> \o Escaped(content) \o <<TERMINATOR>>

(* Arrangements qsort may leave of the indices of s: ascending, equal      *)
(* elements in any order (qsort is not stable).                            *)
Arrangements(s) ==
    {p \in [DOMAIN s -> DOMAIN s] :
        /\ \A i, j \in DOMAIN s : p[i] = p[j] => i = j
        /\ \A i, j \in DOMAIN s : i < j => Compare(s[p[i]], s[p[j]]) <= 0}

(* append_map: entries sorted by key bytes, each key and value escaped. *)
MapInner(entries, p) ==
    FlattenSeq([i \in DOMAIN entries |-> entries[p[i]].key \o entries[p[i]].value])

(* append_set: members sorted, one of each run of equal members kept. *)
SetInner(elems, p) ==
    FlattenSeq([i \in DOMAIN elems |->
        IF i > 1 /\ elems[p[i - 1]] = elems[p[i]] THEN <<>> ELSE elems[p[i]]])

-----------------------------------------------------------------------------
(* The (int32_t) cast append_element applies to a decoded exponent. *)
WrapExp(e) == ((e + MaxExp + 1) % (2 * (MaxExp + 1))) - (MaxExp + 1)

FramedCode == [string |-> STRING_CODE, bytes |-> BYTES, array |-> ARRAY, map |-> MAP, set |-> SET]

(* The arguments of the append calls.  A magnitude is one whose length the *)
(* header of a big integer can hold.                                       *)
Magnitude == {m \in Seq(Byte) : ByteLen(Len(m)) <= LenOfLen}

Encodable ==
    [kind : {"nil", "undef"}]
      \cup [kind : {"bool"}, val : BOOLEAN]
      \cup [kind : {"int", "bigint"}, neg : BOOLEAN, mag : Magnitude]
      \cup [kind : {"f32"}, bits : [1..F32Width -> Byte]]
      \cup [kind : {"f64"}, bits : [1..F64Width -> Byte]]
      \cup [kind : {"decimal"}, neg : BOOLEAN, digits : Seq(0..9), exp : Int]
      \cup [kind : {"timestamp"}, data : [1..NativeWidth -> Byte]]
      \cup [kind : {"uuid"}, data : [1..UuidWidth -> Byte]]
      \cup [kind : DOMAIN FramedCode, data : Seq(Byte)]

(* append_element: re-encode a decoded element. *)
EncElement(e) ==
    CASE e.kind = "nil"   -> <<NIL>>
      [] e.kind = "undef" -> <<UNDEF>>
      [] e.kind = "bool"  -> <<IF e.val THEN BOOL_TRUE ELSE BOOL_FALSE>>
      [] e.kind \in {"int", "bigint"} -> EncInt(e.neg, e.mag)
      [] e.kind = "f32" -> <<FLOAT32>> \o EncFloatBits(e.bits)
      [] e.kind = "f64" -> <<FLOAT64>> \o EncFloatBits(e.bits)
      [] e.kind = "decimal" -> EncDecimal(e.neg, e.digits, WrapExp(e.exp))
      [] e.kind = "timestamp" -> <<TIMESTAMP>> \o FlipSign(e.data)
      [] e.kind = "uuid" -> <<UUID>> \o e.data
      [] e.kind \in DOMAIN FramedCode -> EncFramed(FramedCode[e.kind], e.data)
=============================================================================
