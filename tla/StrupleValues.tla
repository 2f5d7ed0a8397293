---------------------------- MODULE StrupleValues ----------------------------
(***************************************************************************)
(* The values a byte string stands for, whatever bytes it stands for them  *)
(* with: the reference the codec is checked against.                       *)
(***************************************************************************)
EXTENDS StrupleDecode

(* Trailing zeros of a digit sequence carry no value. *)
NoTrailingZeros(d) ==
    SubSeq(d, 1, CHOOSE n \in 0..Len(d) :
                    /\ n = 0 \/ d[n] # 0
                    /\ \A i \in (n + 1)..Len(d) : d[i] = 0)

(* The value a scalar element denotes: +-0.digits * 10^adj for a decimal,  *)
(* sign and normalised magnitude for an integer of any width, the squashed *)
(* bit pattern for a float.                                                *)
ScalarValue(e) ==
    CASE e.kind \in {"int", "bigint"} ->
            [kind |-> "int", neg |-> e.neg /\ Trimmed(e.mag) # <<>>, mag |-> Trimmed(e.mag)]
      [] e.kind \in {"f32", "f64"} -> [kind |-> e.kind, bits |-> CanonicalBits(e.bits)]
      [] e.kind = "decimal" ->
            LET sig == Trimmed(e.digits)
            IN  IF sig = <<>> THEN [kind |-> "decimal", neg |-> FALSE, digits |-> <<>>, adj |-> 0]
                ELSE [kind |-> "decimal", neg |-> e.neg, digits |-> NoTrailingZeros(sig),
                      adj |-> Len(sig) + e.exp]
      [] OTHER -> e

-----------------------------------------------------------------------------
(* Integers by value: sign, then magnitude length, then magnitude. *)
MagnitudeCompare(x, y) ==
    IF Len(x) # Len(y) THEN SignOf(Len(x) - Len(y)) ELSE Compare(x, y)

SignedCompare(xneg, yneg, unsigned) ==
    IF xneg # yneg THEN (IF xneg THEN -1 ELSE 1)
    ELSE IF xneg THEN -unsigned ELSE unsigned

(* Decimals of one sign: scale first, then digits after the point. *)
DecimalMagnitudeCompare(x, y) ==
    IF x.digits = <<>> \/ y.digits = <<>> THEN SignOf(Len(x.digits) - Len(y.digits))
    ELSE IF x.adj # y.adj THEN SignOf(x.adj - y.adj)
    ELSE Compare(x.digits, y.digits)

(* Two's complement or IEEE patterns of one width: the sign bit inverts. *)
PatternCompare(x, y, inverted) ==
    LET xneg == x[1] >= 128
        yneg == y[1] >= 128
    IN  SignedCompare(xneg, yneg, IF xneg /\ yneg /\ ~inverted THEN -Compare(x, y)
                                  ELSE Compare(x, y))

-----------------------------------------------------------------------------
(* The elements of a buffer as byte strings, up to the first error. *)
Split[b \in Seq(Byte)] ==
    LET s == ElementSpan(b, 0)
    IN  IF s.rc # 1 THEN <<>>
        ELSE <<SubSeq(b, 1, s.end)>> \o Split[SubSeq(b, s.end + 1, Len(b))]

Pairs(t) == {<<t[2*i - 1], t[2*i]>> : i \in 1..(Len(t) \div 2)}

(* The tuple of values a buffer decodes to; an undecodable rest shows as a *)
(* last value of kind "error".                                             *)
ValueOfElement(e, items) ==
    CASE e.kind = "array" -> [kind |-> "array", items |-> items]
      [] e.kind = "set"   -> [kind |-> "set", members |-> ToSet(items)]
      [] e.kind = "map"   -> [kind |-> "map", entries |-> Pairs(items)]
      [] OTHER -> ScalarValue(e)

Unpack[b \in Seq(Byte)] ==
    LET r == Next(b, 0)
    IN  IF r.rc = 0 THEN <<>>
        ELSE IF r.rc = -1 THEN <<[kind |-> "error"]>>
        ELSE <<ValueOfElement(r.el, IF r.el.kind \in {"array", "set", "map"}
                                    THEN Unpack[r.el.data] ELSE <<>>)>>
               \o Unpack[SubSeq(b, r.pos + 1, Len(b))]

(* The elements a buffer holds, as stored; a malformed rest is one element *)
(* of kind "error".                                                        *)
Collected(r, From(_)) ==
    CASE r.rc = 0  -> <<>>
      [] r.rc = -1 -> <<[kind |-> "error"]>>
      [] r.rc = 1  -> <<r.el>> \o From(r.pos)

Elements[b \in Seq(Byte)] ==
    Collected(Next(b, 0), LAMBDA p : Elements[SubSeq(b, p + 1, Len(b))])

(* The elements of a buffer and of the containers in it, at any level. *)
Contained[b \in Seq(Byte)] ==
    LET outer == ToSet(Elements[b])
        inner == {e \in outer : e.kind \in {"array", "set", "map"}}
    IN  outer \cup UNION {Contained[e.data] : e \in inner}

(* Every element decoded and appended again. *)
Transcoded[b \in Seq(Byte)] ==
    LET r == Next(b, 0)
    IN  IF r.rc # 1 THEN <<>>
        ELSE EncElement(r.el) \o Transcoded[SubSeq(b, r.pos + 1, Len(b))]

-----------------------------------------------------------------------------
(* The magnitudes of the negative integers that next() reads as zero (see  *)
(* ExcessFormExact of StrupleReader), and the elements that have none.     *)
Lost(mag) ==
    /\ Len(mag) \in (NativeWidth + 2)..FixedWidth
    /\ mag[1] = 1 /\ \A i \in 2..Len(mag) : mag[i] = 0

(* Two kinds of element are decoded with a sign and without a value: -256^n *)
(* from such a slot, which next() gives as minus zero, and a decimal of    *)
(* digits all zero, which no encoder writes and strict decode accepts.     *)
LostInteger(e)  == e.kind = "bigint" /\ Trimmed(e.mag) = <<>>
ZeroDigits(e)   == e.kind = "decimal" /\ e.digits # <<>> /\ Trimmed(e.digits) = <<>>
SignedNought(e) == LostInteger(e) \/ ZeroDigits(e)

KeptElement(e) == e.kind \in {"int", "bigint"} /\ e.neg => ~Lost(Trimmed(e.mag))
=============================================================================
