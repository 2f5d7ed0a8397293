------------------------- MODULE StrupleDecimalText -------------------------
(***************************************************************************)
(* struple_append_decimal_string: the scanner that turns the text of a     *)
(* number into a decimal element.  Characters are the digits 0..9 and one  *)
(* code for each character, or class of characters, the scanner tells      *)
(* apart.                                                                  *)
(***************************************************************************)
EXTENDS StrupleEncode

Digit    == 0..9
POINT    == 10    \* '.'
EXPONENT == 11    \* 'e' or 'E'
PLUS     == 12
MINUS    == 13
OTHER_CHAR == 14  \* anything else

Characters == Digit \cup {POINT, EXPONENT, PLUS, MINUS, OTHER_CHAR}

-----------------------------------------------------------------------------
(* The scanner's local variables, and the part of the literal it is in:    *)
(* "start" (a sign may come), "mantissa", "mark" (just after the e, a sign *)
(* may come), "exponent", "bad" (returned -1).                             *)
ScanStart ==
    [part |-> "start", neg |-> FALSE, digits |-> <<>>, point |-> FALSE, exp |-> 0,
     eneg |-> FALSE, edigit |-> FALSE, ev |-> 0]

InMantissa(s) == s.part \in {"start", "mantissa"}
InExponent(s) == s.part \in {"mark", "exponent"}

(* Variant with a bug: digits after the point do not lower the exponent. *)
PointIgnored(s, c) ==
    CASE s.part = "start" /\ c \in {PLUS, MINUS} ->
            [s EXCEPT !.part = "mantissa", !.neg = c = MINUS]
      [] InMantissa(s) /\ c \in Digit ->
            [s EXCEPT !.part = "mantissa", !.digits = Append(@, c)]
      [] InMantissa(s) /\ c = POINT /\ ~s.point ->
            [s EXCEPT !.part = "mantissa", !.point = TRUE]
      [] InMantissa(s) /\ c = EXPONENT /\ s.digits # <<>> -> [s EXCEPT !.part = "mark"]
      [] s.part = "mark" /\ c \in {PLUS, MINUS} ->
            [s EXCEPT !.part = "exponent", !.eneg = c = MINUS]
      [] InExponent(s) /\ c \in Digit /\ s.ev * 10 + c <= MaxExp ->
            [s EXCEPT !.part = "exponent", !.edigit = TRUE, !.ev = @ * 10 + c]
      [] OTHER -> [s EXCEPT !.part = "bad"]

(* One turn of the two loops.  The exponent's magnitude is bounded before  *)
(* its sign is applied.                                                    *)
ScanChar(s, c) ==
    CASE s.part = "start" /\ c \in {PLUS, MINUS} ->
            [s EXCEPT !.part = "mantissa", !.neg = c = MINUS]
      [] InMantissa(s) /\ c \in Digit ->
            [s EXCEPT !.part = "mantissa", !.digits = Append(@, c),
                      !.exp = IF s.point THEN @ - 1 ELSE @]
      [] InMantissa(s) /\ c = POINT /\ ~s.point ->
            [s EXCEPT !.part = "mantissa", !.point = TRUE]
      [] InMantissa(s) /\ c = EXPONENT /\ s.digits # <<>> -> [s EXCEPT !.part = "mark"]
      [] s.part = "mark" /\ c \in {PLUS, MINUS} ->
            [s EXCEPT !.part = "exponent", !.eneg = c = MINUS]
      [] InExponent(s) /\ c \in Digit /\ s.ev * 10 + c <= MaxExp ->
            [s EXCEPT !.part = "exponent", !.edigit = TRUE, !.ev = @ * 10 + c]
      [] OTHER -> [s EXCEPT !.part = "bad"]

Scanned(text) ==
    LET s[k \in 0..Len(text)] == IF k = 0 THEN ScanStart ELSE ScanChar(s[k - 1], text[k])
    IN  s[Len(text)]
ScannedExp(s) == IF s.eneg THEN s.exp - s.ev ELSE s.exp + s.ev

(* The return code is -1 and nothing is appended ... *)
TextRejected(text) ==
    LET s == Scanned(text)
    IN  \/ s.part = "bad"
        \/ s.digits = <<>>
        \/ InExponent(s) /\ ~s.edigit
        \/ ~InExpRange(ScannedExp(s))
        \/ DecimalRejected(s.digits, ScannedExp(s))

(* ... or the decimal goes to struple_append_decimal. *)
EncDecimalText(text) ==
    LET s == Scanned(text)
    IN  IF TextRejected(text) THEN <<>> ELSE EncDecimal(s.neg, s.digits, ScannedExp(s))

-----------------------------------------------------------------------------
(* The reference: the grammar  [sign] digits-with-at-most-one-point        *)
(* [e [sign] digits], taken apart at the exponent mark and the point.      *)
Mark(text)     == LET at == {k \in DOMAIN text : text[k] = EXPONENT}
                  IN  IF at = {} THEN Len(text) + 1 ELSE FirstOf(at)
Unsigned(s)    == IF s # <<>> /\ s[1] \in {PLUS, MINUS} THEN Tail(s) ELSE s
IsNegative(s)  == s # <<>> /\ s[1] = MINUS
Mantissa(text) == SubSeq(text, 1, Mark(text) - 1)
Scale(text)    == SubSeq(text, Mark(text) + 1, Len(text))
OnlyDigits(s)  == FlattenSeq([k \in DOMAIN s |-> IF s[k] \in Digit THEN <<s[k]>> ELSE <<>>])
AfterPoint(s)  == {k \in DOMAIN s : s[k] \in Digit /\ \E j \in 1..(k - 1) : s[j] = POINT}
NumberOf(ds)   == LET n[k \in 0..Len(ds)] == IF k = 0 THEN 0 ELSE 10 * n[k - 1] + ds[k]
                  IN  n[Len(ds)]

IsLiteral(text) ==
    LET m == Unsigned(Mantissa(text))
        e == Unsigned(Scale(text))
    IN  /\ \A k \in DOMAIN m : m[k] \in Digit \cup {POINT}
        /\ \A j, k \in DOMAIN m : m[j] = POINT /\ m[k] = POINT => j = k
        /\ OnlyDigits(m) # <<>>
        /\ Mark(text) <= Len(text) => e # <<>> /\ \A k \in DOMAIN e : e[k] \in Digit

(* The decimal a literal denotes.  A literal whose exponent, written or in *)
(* total, is out of range denotes none.                                    *)
LiteralExp(text) ==
    LET n == NumberOf(Unsigned(Scale(text)))
    IN  (IF IsNegative(Scale(text)) THEN -n ELSE n) - Cardinality(AfterPoint(Mantissa(text)))

LiteralDecimal(text) ==
    [kind |-> "decimal", neg |-> IsNegative(Mantissa(text)),
     digits |-> OnlyDigits(Mantissa(text)), exp |-> LiteralExp(text)]

DenotesDecimal(text) ==
    /\ IsLiteral(text)
    /\ NumberOf(Unsigned(Scale(text))) <= MaxExp
    /\ InExpRange(LiteralExp(text))
    /\ ~DecimalRejected(OnlyDigits(Mantissa(text)), LiteralExp(text))
=============================================================================
