---------------------------- MODULE StrupleCppJson ----------------------------
(***************************************************************************)
(* from_json and to_json of the C++ port (struple_json.hpp), over the same *)
(* texts of tokens.  Scalars are read and written by the statements of     *)
(* struple_json.c, except where a definition below says otherwise.  What   *)
(* may throw is the set of its outcomes: one, or none when it throws.      *)
(***************************************************************************)
EXTENDS StrupleCpp, StrupleJsonText

(* Variant with a bug: values at the limit are refused. *)
AtTheLimit(d) == d >= MaxDepth

(* parse_value and render: the top level is level 0. *)
TooDeep(d) == d > MaxDepth

-----------------------------------------------------------------------------
(* from_json. *)

(* parse_number: digits must follow the point and the exponent mark. *)
CppNumberOK(chars) ==
    LET body == IF IsNegative(chars) THEN Tail(chars) ELSE chars
    IN  /\ NumberOK(chars)
        /\ Last(Mantissa(body)) # POINT
        /\ EXPONENT \in ToSet(body) => Unsigned(Scale(body)) # <<>>

(* encode_int_text: from_chars reads a native integer if it fits. *)
CppIntText(neg, mag) ==
    IF FitsSigned(neg, mag, NativeWidth)
    THEN CppInteger(IF neg THEN -BeToU64(mag) ELSE BeToU64(mag))
    ELSE CppBig(neg, mag)

CppNumber(chars) ==
    IF ~CppNumberOK(chars) THEN {}
    ELSE IF ~IsFraction(chars) THEN {CppIntText(IsNegative(chars), DigitsToMag(OnlyDigits(chars)))}
    ELSE {<<FLOAT64>> \o EncFloatBits(f) : f \in {g \in {FloatOf(chars)} : g[1] % 128 # 127}}

(* parse_value and encode_json of a token that is a value by itself. *)
ScalarRead(tok) ==
    CASE tok.t = "null"   -> {<<NIL>>}
      [] tok.t = "true"   -> {<<BOOL_TRUE>>}
      [] tok.t = "false"  -> {<<BOOL_FALSE>>}
      [] tok.t = "string" -> IF StringOK(tok) THEN {EncFramed(STRING_CODE, StringBytes(tok.units))} ELSE {}
      [] tok.t = "number" -> CppNumber(tok.chars)

(* append_map, of entries whose keys are all different. *)
MapOf(entries) ==
    LET p == CHOOSE q \in Arrangements([i \in DOMAIN entries |-> entries[i].key]) : TRUE
    IN  EncFramed(MAP, MapInner(entries, p))

NoKeyTwice(entries) == IsInjective([i \in DOMAIN entries |-> entries[i].key])

(* The position of the first token of s after p that is not white space,   *)
(* if it is one of these.                                                  *)
Ahead(s, p, these) ==
    {i \in (p + 1)..Len(s) : s[i].t \in these /\ \A k \in (p + 1)..(i - 1) : s[k].t = "ws"}

Closed(s, p, bracket) == {[out |-> <<>>, pos |-> i] : i \in Ahead(s, p, {bracket})}

(* parse_value at depth d, which leaves what encode_json writes for it and *)
(* the position after it; and the loops of parse_array and parse_object,   *)
(* which leave the elements or the entries from p on.                      *)
CppParse(s) ==
    LET parse[what \in {"value", "item", "entry", "items", "entries"}, p \in Nat, d \in Nat] ==
            CASE what = "value" /\ TooDeep(d) -> {}
              [] what = "value" /\ ~TooDeep(d) ->
                  UNION (
                    {{[out |-> x, pos |-> i] : x \in ScalarRead(s[i])} :
                        i \in Ahead(s, p, {"null", "true", "false", "string", "number"})}
                    \cup {{[out |-> EncFramed(ARRAY, FlattenSeq(r.out)), pos |-> r.pos] :
                            r \in Closed(s, i, "]") \cup parse["items", i, d]} :
                        i \in Ahead(s, p, {"["})}
                    \cup {{[out |-> MapOf(r.out), pos |-> r.pos] :
                            r \in Closed(s, i, "}") \cup {q \in parse["entries", i, d] : NoKeyTwice(q.out)}} :
                        i \in Ahead(s, p, {"{"})})
              [] what = "item"  -> {[out |-> <<v.out>>, pos |-> v.pos] : v \in parse["value", p, d + 1]}
              [] what = "entry" ->
                  UNION {{[out |-> <<[key   |-> EncFramed(STRING_CODE, StringBytes(s[k].units)),
                                      value |-> v.out]>>, pos |-> v.pos] :
                            v \in UNION {parse["value", c, d + 1] : c \in Ahead(s, k, {":"})}} :
                        k \in {i \in Ahead(s, p, {"string"}) : StringOK(s[i])}}
              [] what \in {"items", "entries"} ->
                  UNION {{[out |-> e.out \o r.out, pos |-> r.pos] :
                            r \in Closed(s, e.pos, IF what = "items" THEN "]" ELSE "}")
                                    \cup UNION {parse[what, c, d] : c \in Ahead(s, e.pos, {","})}} :
                        e \in parse[IF what = "items" THEN "item" ELSE "entry", p, d]}
    IN  parse["value", 0, 0]

CppFromJson(s) ==
    {r.out : r \in {q \in CppParse(s) : \A i \in (q.pos + 1)..Len(s) : s[i].t = "ws"}}

-----------------------------------------------------------------------------
(* to_json. *)

(* The n-digit decimals next to a number given by all its digits. *)
Neighbours(d, adj, n) ==
    IF n >= Len(d) THEN {[digits |-> d, adj |-> adj]}
    ELSE {[digits |-> SubSeq(c, 1, n), adj |-> adj + Len(c) - n] :
            c \in {MagText(ToBE(NumberOf(SubSeq(d, 1, n)) + up)) : up \in {0, 1}}}

Only(S) == CHOOSE x \in S : TRUE

(* to_chars: a decimal of the fewest digits that reads back as |f|; of two *)
(* of those the nearer.                                                    *)
CppShortest(f, exact, adj) ==
    LET from[n \in Nat] ==
            Only({IF back = {} THEN from[n + 1]
                  ELSE CHOOSE r \in back : Cardinality(back) = 2 => r = Rounded(exact, adj, n) :
                    back \in {{r \in Neighbours(exact, adj, n) : ReadsBack(f, r)}}})
    IN  from[1]

(* render_float, of a finite float. *)
CppFloatText(f) ==
    IF FloatSign(f) = 0 THEN <<0>>
    ELSE Only({Minus(FloatSign(f) < 0) \o EcmaText(r) :
                r \in {CppShortest(f, digits, Len(digits) - Fives(Decompose(f))) :
                        digits \in {ExactDigits(m) : m \in {Decompose(f)}}}})

IntegerText(i) == Minus(i < 0) \o MagText(ToBE(IF i < 0 THEN -i ELSE i))

(* A digit above 9, which next() may give, becomes another character. *)
CppDecimalText(e) ==
    LET d == [i \in DOMAIN e.data |-> IF e.data[i] > 9 THEN OTHER_CHAR ELSE e.data[i]]
    IN  DecimalText([neg |-> e.negative, digits |-> d, exp |-> e.dec_exp])

(* render, for an element that is not a container. *)
CppScalar(e) ==
    CASE e.kind \in {"nil", "undef"} -> {Symbol("null")}
      [] e.kind = "bool"   -> {Symbol(IF e.boolean THEN "true" ELSE "false")}
      [] IsFloat(e) /\ NumClass(e) # 1 -> {Symbol("null")}
      [] IsFloat(e) /\ NumClass(e) = 1 -> {NumberTok(CppFloatText(f)) : f \in {SemFloat(e)}}
      [] e.kind \in {"int", "timestamp"} -> {NumberTok(IntegerText(e.integer))}
      [] e.kind = "bigint"  -> {NumberTok(Minus(e.negative) \o MagText(e.data))}
      [] e.kind = "decimal" -> {NumberTok(CppDecimalText(e))}
      [] e.kind = "uuid"    -> {StringOf(RenderUnits(UuidText(e.data)))}
      [] e.kind = "string"  -> {StringOf(RenderUnits(e.str))}
      [] e.kind = "bytes"   -> {StringOf(RenderUnits(Base64(e.data)))}

Joined(parts) ==
    FlattenSeq([i \in DOMAIN parts |-> (IF i = 1 THEN <<>> ELSE <<Symbol(",")>>) \o parts[i]])

KeyTokens(x) == IF x.kind = "string" THEN x.out ELSE <<StringOf(RenderUnits(Spelled(x.out)))>>

Entries(l) ==
    [i \in 1..(Len(l) \div 2) |-> KeyTokens(l[2*i - 1]) \o <<Symbol(":")>> \o l[2*i].out]

(* render of every element in b at depth d. *)
CppRender[b \in Seq(Byte), d \in Nat] ==
    UNION {
        CASE k.rc = 0  -> {<<>>}
          [] k.rc = -1 -> {}
          [] k.rc = 1  ->
              LET text ==
                    CASE TooDeep(d) -> {}
                      [] ~TooDeep(d) /\ k.el.kind = "map" ->
                            {<<Symbol("{")>> \o Joined(Entries(l)) \o <<Symbol("}")>> :
                                l \in {x \in CppRender[k.el.data, d + 1] : Len(x) % 2 = 0}}
                      [] ~TooDeep(d) /\ k.el.kind \in {"array", "set"} ->
                            {<<Symbol("[")>> \o Joined([i \in DOMAIN l |-> l[i].out]) \o <<Symbol("]")>> :
                                l \in CppRender[k.el.data, d + 1]}
                      [] OTHER -> {<<x>> : x \in CppScalar(k.el)}
              IN  {<<[kind |-> k.el.kind, out |-> x]>> \o rest : x \in text, rest \in CppRender[Onward(b, k), d]}
        : k \in {CppNext(b, 0)}}

CppToJson(b) ==
    UNION {CASE k.rc = 0  -> {<<Symbol("null")>>}
             [] k.rc = -1 -> {}
             [] k.rc = 1  -> {l[1].out : l \in CppRender[SubSeq(b, 1, k.pos), 0]}
           : k \in {CppNext(b, 0)}}
=============================================================================
