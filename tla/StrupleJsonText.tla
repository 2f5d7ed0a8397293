--------------------------- MODULE StrupleJsonText ---------------------------
(***************************************************************************)
(* The text of JSON scalars (src/c/struple_json.c): what the parser reads  *)
(* out of a string or a number and what the renderer writes for one.       *)
(*                                                                         *)
(* JSON text is a sequence of tokens [t |-> kind]:                         *)
(*   "[" "]" "{" "}" "," ":" "null" "true" "false" "ws" (one white-space   *)
(*   character), "bad" (a character at which nothing of these starts),     *)
(*   "string" with units and closed (is there a closing quote?), and       *)
(*   "number" with chars (StrupleDecimalText), the longest run that        *)
(*   parse_number takes.                                                   *)
(* A unit of a string is <<"raw", byte>>, <<"esc", the byte escaped>>,     *)
(* <<"u", code unit>> or <<"bad", 0>>, an escape that is none.             *)
(***************************************************************************)
EXTENDS StrupleNumbers, StrupleDecimalText

CONSTANTS
    PlainDigits,  \* write_ecma_digits: longest integer part written out (21)
    PlainZeros,   \* ... and decimal places before exponential notation (6)
    PlainPad,     \* render_decimal: most zeros padded (40)
    MaxDepth      \* STRUPLE_MAX_DEPTH: levels of nesting

ASSUME NotationAssumption == {PlainDigits, PlainZeros, PlainPad, MaxDepth} \subseteq Nat

Symbol(c)    == [t |-> c]
StringOf(us) == [t |-> "string", units |-> us, closed |-> TRUE]
NumberTok(s) == [t |-> "number", chars |-> s]

-----------------------------------------------------------------------------
(* Strings: parse_string_raw. *)

Utf8(cp) ==
    LET tail(shift) == 128 + ((cp \div shift) % 64)
    IN  IF cp < 128 THEN <<cp>>
        ELSE IF cp < 2048 THEN <<192 + (cp \div 64), tail(1)>>
        ELSE IF cp < 65536 THEN <<224 + (cp \div 4096), tail(64), tail(1)>>
        ELSE <<240 + (cp \div 262144), tail(4096), tail(64), tail(1)>>

HighSurrogate(u) == u[1] = "u" /\ u[2] \in 55296..56319
LowSurrogate(u)  == u[1] = "u" /\ u[2] \in 56320..57343

(* A closing quote, known escapes, and every surrogate half of a pair. *)
StringOK(tok) ==
    LET us == tok.units
    IN  /\ tok.t = "string"
        /\ tok.closed
        /\ \A i \in DOMAIN us :
              /\ us[i][1] # "bad"
              /\ HighSurrogate(us[i]) => i < Len(us) /\ LowSurrogate(us[i + 1])
              /\ LowSurrogate(us[i]) => i > 1 /\ HighSurrogate(us[i - 1])

StringBytes(us) ==
    FlattenSeq([i \in DOMAIN us |->
        IF HighSurrogate(us[i]) THEN <<>>
        ELSE IF LowSurrogate(us[i])
        THEN Utf8(65536 + (us[i - 1][2] - 55296) * 1024 + (us[i][2] - 56320))
        ELSE IF us[i][1] = "u" THEN Utf8(us[i][2]) ELSE <<us[i][2]>>])

(* An object's keys are C strings: they end at their first NUL. *)
CString(s) == LET nul == {i \in DOMAIN s : s[i] = 0}
              IN  IF nul = {} THEN s ELSE SubSeq(s, 1, FirstOf(nul) - 1)

(* render_string *)
RenderUnits(s) ==
    [i \in DOMAIN s |->
        IF s[i] \in {34, 92, 10, 13, 9, 8, 12} THEN <<"esc", s[i]>>
        ELSE IF s[i] < 32 THEN <<"u", s[i]>> ELSE <<"raw", s[i]>>]

-----------------------------------------------------------------------------
(* Numbers: parse_number. *)

(* Some digit follows the sign at once. *)
NumberOK(chars) ==
    LET body == IF IsNegative(chars) THEN Tail(chars) ELSE chars
    IN  body # <<>> /\ body[1] \in Digit

IsFraction(chars) == {POINT, EXPONENT} \cap ToSet(chars) # {}

(* strtod: the nearest double, ties to even; out of range is an infinity.  *)
(* m * 2^(raw - ExpShift) is the float below |v|, and an encoding one      *)
(* larger is the next float up.                                            *)
HiddenBit == 2^MantissaBits
Scaled    == [mag : Seq(Byte), exp10 : Int]

AgainstDyadic(v, m, exp) == B10MagToFloat(v, [mant |-> m, exp |-> exp])

Binade(v) ==
    Max({r \in 1..126 : r = 1 \/ AgainstDyadic(v, HiddenBit, r - ExpShift) >= 0})

Significand(v, raw) ==
    Max({m \in 0..(2 * HiddenBit) : m = 0 \/ AgainstDyadic(v, m, raw - ExpShift) >= 0})

FloatPattern(bits) ==
    IF bits >= 127 * HiddenBit THEN <<127>> \o Zeroes(F64Width - 1)
    ELSE Zeroes(F64Width - ByteLen(bits)) \o ToBE(bits)

RoundedUp(m, beyond) == beyond > 0 \/ (beyond = 0 /\ m % 2 = 1)

NearestFloat[v \in Scaled, raw \in Nat, m \in Nat] ==
    FloatPattern((raw - 1) * HiddenBit + m
        + (IF RoundedUp(m, AgainstDyadic(v, 2 * m + 1, raw - ExpShift - 1)) THEN 1 ELSE 0))

FloatInBinade[v \in Scaled, raw \in Nat] == NearestFloat[v, raw, Significand(v, raw)]

Strtod(v) == IF v.mag = <<>> THEN Zeroes(F64Width) ELSE FloatInBinade[v, Binade(v)]

(* The digits of a number token as mag * 10^exp10.  An exponent mark       *)
(* without digits adds nothing.                                            *)
TokenValue(chars) ==
    [mag |-> DigitsToMag(OnlyDigits(Mantissa(chars))), exp10 |-> LiteralExp(chars)]

FloatOf(chars) ==
    LET f == Strtod(TokenValue(chars))
    IN  IF IsNegative(chars) THEN [f EXCEPT ![1] = @ + 128] ELSE f

(* A number too large for a double is rejected; one without point and      *)
(* exponent is kept as text.                                               *)
NumberValue(chars) ==
    IF ~IsFraction(chars) THEN [kind |-> "int", number |-> chars]
    ELSE [kind |-> "float", number |-> FloatOf(chars)]

Overflows(v) == v.kind = "float" /\ v.number[1] % 128 = 127

(* encode_int_text: int64, uint64 or big integer, whichever holds it. *)
EncIntText(chars) == EncInt(IsNegative(chars), DigitsToMag(OnlyDigits(chars)))

-----------------------------------------------------------------------------
(* Numbers: the renderer. *)

(* magnitude_to_decimal: one division by ten a digit. *)
DivTen(mag) ==
    FoldLeft(LAMBDA acc, b : [rem |-> (acc.rem * 256 + b) % 10,
                              quot |-> Append(acc.quot, (acc.rem * 256 + b) \div 10)],
             [rem |-> 0, quot |-> <<>>], mag)

DigitsOf[mag \in Seq(Byte)] ==
    IF Trimmed(mag) = <<>> THEN <<>>
    ELSE LET d == DivTen(mag) IN DigitsOf[Trimmed(d.quot)] \o <<d.rem>>

MagText(mag) == IF Trimmed(mag) = <<>> THEN <<0>> ELSE DigitsOf[mag]
Minus(b)     == IF b THEN <<MINUS>> ELSE <<>>

(* d1[.d2...]e+-E *)
Scientific(d, e) ==
    <<d[1]>> \o (IF Len(d) > 1 THEN <<POINT>> \o Tail(d) ELSE <<>>)
      \o <<EXPONENT, IF e >= 0 THEN PLUS ELSE MINUS>> \o MagText(ToBE(IF e >= 0 THEN e ELSE -e))

(* Digits with the point after the first n of them, zeros padded in. *)
Plain(d, n) ==
    IF n <= 0 THEN <<0, POINT>> \o Zeroes(-n) \o d
    ELSE IF n >= Len(d) THEN d \o Zeroes(n - Len(d))
    ELSE SubSeq(d, 1, n) \o <<POINT>> \o SubSeq(d, n + 1, Len(d))

EcmaDigits(d, n) ==
    IF n <= PlainDigits /\ n > -PlainZeros THEN Plain(d, n) ELSE Scientific(d, n - 1)

(* Variant with a bug: the scientific exponent is that of the digit after  *)
(* the first.                                                              *)
ExponentOffByOne(e) ==
    LET d == e.digits
        n == Len(d) + e.exp
        pad == IF e.exp >= 0 THEN e.exp ELSE -n
    IN  IF d = <<>> THEN <<0>>
        ELSE Minus(e.neg) \o (IF pad > PlainPad THEN Scientific(d, n) ELSE Plain(d, n))

(* render_decimal *)
DecimalText(e) ==
    LET d == e.digits
        n == Len(d) + e.exp
        pad == IF e.exp >= 0 THEN e.exp ELSE -n
    IN  IF d = <<>> THEN <<0>>
        ELSE Minus(e.neg) \o (IF pad > PlainPad THEN Scientific(d, n - 1) ELSE Plain(d, n))

(* snprintf %.*e: |f| to n significant digits, rounded to even, and the    *)
(* number of digits before the point.                                      *)
Rounded(d, adj, n) ==
    LET half == d[n + 1] = 5 /\ \A i \in (n + 2)..Len(d) : d[i] = 0
        up   == IF half THEN d[n] % 2 = 1 ELSE d[n + 1] >= 5
        num  == MagText(ToBE(NumberOf(SubSeq(d, 1, n)) + (IF up THEN 1 ELSE 0)))
    IN  IF n >= Len(d) THEN [digits |-> d, adj |-> adj]
        ELSE [digits |-> SubSeq(num, 1, n), adj |-> adj + Len(num) - n]

(* render_float: the first precision that reads back as |f|. *)
ReadsBack(f, r) ==
    Strtod([mag |-> DigitsToMag(r.digits), exp10 |-> r.adj - Len(r.digits)]) = Abs(f)

Shortest(f, exact, adj) ==
    LET from[n \in Nat] ==
            LET r == Rounded(exact, adj, n)
            IN  IF n >= Len(exact) \/ ReadsBack(f, r) THEN r ELSE from[n + 1]
    IN  from[1]

(* All the digits of m.mant * 2^m.exp, and how many are before the point. *)
Fives(m)       == IF m.exp < 0 THEN -m.exp ELSE 0
ExactDigits(m) == DigitsOf[Shl(MulPow(ToBE(m.mant), 5, Fives(m)), m.exp + Fives(m))]
PointIn(m)     == Len(ExactDigits(m)) - Fives(m)

EcmaText(r) == EcmaDigits(r.digits, r.adj)

FloatText(f) ==
    LET m == Decompose(f)
    IN  IF FloatSign(f) = 0 THEN <<0>>
        ELSE Minus(FloatSign(f) < 0) \o EcmaText(Shortest(f, ExactDigits(m), PointIn(m)))

Hex(n) == IF n < 10 THEN 48 + n ELSE 87 + n

UuidText(s) ==
    FlattenSeq([i \in DOMAIN s |-> (IF i \in {5, 7, 9, 11} THEN <<45>> ELSE <<>>)
                                     \o <<Hex(s[i] \div 16), Hex(s[i] % 16)>>])

(* base64: three bytes to four characters, the last group padded. *)
Base64(s) ==
    LET byte(i)  == IF i <= Len(s) THEN s[i] ELSE 0
        group(i) == byte(3*i - 2) * 65536 + byte(3*i - 1) * 256 + byte(3*i)
        char(v)  == IF v < 26 THEN 65 + v ELSE IF v < 52 THEN 71 + v ELSE IF v < 62 THEN v - 4
                    ELSE IF v = 62 THEN 43 ELSE 47
    IN  FlattenSeq([i \in 1..((Len(s) + 2) \div 3) |->
            <<char(group(i) \div 262144), char((group(i) \div 4096) % 64),
              IF 3*i - 1 <= Len(s) THEN char((group(i) \div 64) % 64) ELSE 61,
              IF 3*i <= Len(s) THEN char(group(i) % 64) ELSE 61>>])

(* %lld of two's complement bytes *)
TwosText(s) ==
    IF s[1] >= 128 THEN <<MINUS>> \o MagText(Negated(s)) ELSE MagText(s)

(* render, for an element that is not a container. *)
ScalarToken(e) ==
    CASE e.kind \in {"nil", "undef"} -> Symbol("null")
      [] e.kind = "bool"      -> Symbol(IF e.val THEN "true" ELSE "false")
      [] IsFloat(e) /\ NumClass(e) # 1 -> Symbol("null")
      [] IsFloat(e) /\ NumClass(e) = 1 -> NumberTok(FloatText(SemFloat(e)))
      [] e.kind = "int"       -> NumberTok(Minus(IntSign(e) < 0) \o MagText(e.mag))
      [] e.kind = "bigint"    -> NumberTok(Minus(e.neg) \o MagText(e.mag))
      [] e.kind = "timestamp" -> NumberTok(TwosText(e.data))
      [] e.kind = "decimal"   -> NumberTok(DecimalText(e))
      [] e.kind = "uuid"      -> StringOf(RenderUnits(UuidText(e.data)))
      [] e.kind = "string"    -> StringOf(RenderUnits(e.data))
      [] e.kind = "bytes"     -> StringOf(RenderUnits(Base64(e.data)))

-----------------------------------------------------------------------------
(* The bytes of a rendered text, for a text that becomes a string itself. *)

Ascii(c) == << 48, 49, 50, 51, 52, 53, 54, 55, 56, 57, 46, 101, 43, 45 >>[c + 1]

PunctBytes ==
    [c \in {"[", "]", "{", "}", ",", ":", "null", "true", "false"} |->
        CASE c = "[" -> <<91>> [] c = "]" -> <<93>> [] c = "{" -> <<123>> [] c = "}" -> <<125>>
          [] c = "," -> <<44>> [] c = ":" -> <<58>> [] c = "null" -> <<110, 117, 108, 108>>
          [] c = "true" -> <<116, 114, 117, 101>> [] c = "false" -> <<102, 97, 108, 115, 101>>]

UnitBytes(u) ==
    CASE u[1] = "raw" -> <<u[2]>>
      [] u[1] = "esc" -> <<92, CASE u[2] = 10 -> 110 [] u[2] = 13 -> 114 [] u[2] = 9 -> 116
                                 [] u[2] = 8 -> 98 [] u[2] = 12 -> 102 [] OTHER -> u[2]>>
      [] u[1] = "u"   -> <<92, 117, 48, 48, Hex(u[2] \div 16), Hex(u[2] % 16)>>

Spelled(tokens) ==
    FlattenSeq([i \in DOMAIN tokens |->
        CASE tokens[i].t = "string" ->
                <<34>> \o FlattenSeq([k \in DOMAIN tokens[i].units |-> UnitBytes(tokens[i].units[k])])
                  \o <<34>>
          [] tokens[i].t = "number" -> [k \in DOMAIN tokens[i].chars |-> Ascii(tokens[i].chars[k])]
          [] OTHER -> PunctBytes[tokens[i].t]])
=============================================================================
