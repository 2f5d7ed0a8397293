----------------------------- MODULE StrupleJson -----------------------------
(***************************************************************************)
(* struple_from_json and struple_to_json composed: a text is parsed and    *)
(* encoded, the bytes rendered, and what was rendered parsed and encoded   *)
(* and rendered again; or the same starting from bytes.                    *)
(***************************************************************************)
EXTENDS StrupleJsonParse, StrupleJsonRender, StrupleCppJson

CONSTANTS
    Texts,      \* the texts started from
    Buffers     \* the buffers started from

(* A number token is all that parse_number takes: the sign, digits, point  *)
(* and exponent in their order, and no number after it.                    *)
WellLexed(s) ==
    \A i \in DOMAIN s : s[i].t = "number" =>
        /\ i < Len(s) => s[i + 1].t # "number"
        /\ s[i].chars # <<>>
        /\ LET body     == IF IsNegative(s[i].chars) THEN Tail(s[i].chars) ELSE s[i].chars
               mantissa == Mantissa(body)
           IN  /\ ToSet(mantissa) \subseteq Digit \cup {POINT}
               /\ Cardinality({k \in DOMAIN mantissa : mantissa[k] = POINT}) <= 1
               /\ ToSet(Unsigned(Scale(body))) \subseteq Digit

ASSUME JsonAssumption ==
    /\ \A s \in Texts : s \in Seq(ToSet(s)) /\ WellLexed(s)
    /\ Buffers \subseteq Seq(Byte)

VARIABLES
    fromText,   \* started from a text?
    kept        \* <<the buffer rendered first>>, once its text is parsed

vars == <<parseVars, renderVars, fromText, kept>>

JsonInit ==
    /\ misfreed = FALSE
    /\ kept = <<>>
    /\ RenderIdle
    /\ \/ /\ fromText = TRUE
          /\ text \in Texts
          /\ buffer = <<>>
          /\ ParseStart
       \/ /\ fromText = FALSE
          /\ buffer \in Buffers
          /\ text = <<>>
          /\ at = 0 /\ stack = <<>> /\ value = NoNode /\ parser = "idle" /\ live = {}

-----------------------------------------------------------------------------
(* The nodes of the tree v, level by level.                                *)
Children(v) ==
    CASE v.kind = "array"  -> ToSet(v.items)
      [] v.kind = "object" -> ToSet(v.vals)
      [] OTHER -> {}

Tree(v) ==
    LET level[n \in 0..MaxDepth] ==
            IF n = 0 THEN {v} ELSE UNION {Children(x) : x \in level[n - 1]}
    IN  UNION {level[n] : n \in 0..MaxDepth}

(* encode_json.  Keys are unique C strings: qsort has one arrangement.     *)
EncodeJson(root) ==
    LET encode[v \in Tree(root)] ==
            CASE v.kind = "null"   -> <<NIL>>
              [] v.kind = "bool"   -> <<IF v.val THEN BOOL_TRUE ELSE BOOL_FALSE>>
              [] v.kind = "int"    -> EncIntText(v.number)
              [] v.kind = "float"  -> <<FLOAT64>> \o EncFloatBits(v.number)
              [] v.kind = "string" -> EncFramed(STRING_CODE, v.data)
              [] v.kind = "array"  ->
                    EncFramed(ARRAY, FlattenSeq([i \in DOMAIN v.items |-> encode[v.items[i]]]))
              [] v.kind = "object" ->
                    LET entries == [i \in DOMAIN v.keys |->
                                      [key |-> EncFramed(STRING_CODE, CString(v.keys[i].data)),
                                       value |-> encode[v.vals[i]]]]
                        p == CHOOSE q \in Arrangements([i \in DOMAIN entries |-> entries[i].key]) : TRUE
                    IN  EncFramed(MAP, MapInner(entries, p))
    IN  encode[root]

(* The rest of struple_from_json: encode the tree and free it. *)
FromJson ==
    /\ parser = "parsed"
    /\ buffer' = EncodeJson(value)
    /\ Free(value.owns \o <<ROOT>>)
    /\ value' = NoNode
    /\ parser' = "idle"
    /\ UNCHANGED <<text, at, stack, readers, element, outs, renderer, fromText, kept>>

(* The caller parses what was rendered. *)
ReadBack ==
    /\ renderer = "rendered"
    /\ kept = <<>>
    /\ kept' = <<buffer>>
    /\ text' = outs[1]
    /\ at' = 0
    /\ stack' = <<>>
    /\ parser' = "value"
    /\ live' = {ROOT}
    /\ element' = NoneYet
    /\ outs' = <<>>
    /\ renderer' = "idle"
    /\ UNCHANGED <<value, misfreed, buffer, readers, fromText>>

Parsing   == ParseStep /\ UNCHANGED <<renderVars, fromText, kept>>
Rendering == parser = "idle" /\ RenderStep /\ UNCHANGED <<parseVars, fromText, kept>>

Answered ==
    \/ parser = "rejected"
    \/ renderer = "refused"
    \/ renderer = "rendered" /\ kept # <<>>

Finished == Answered /\ UNCHANGED vars

JsonNext == Parsing \/ FromJson \/ Rendering \/ ReadBack \/ Finished

JsonSpec == JsonInit /\ [][JsonNext]_vars

-----------------------------------------------------------------------------
(* struple_json.c:231, 266 and 766: however deep the text or the bytes are *)
(* nested, parse_value is called MaxDepth levels down at most and render   *)
(* one more, with one temporary text per key; and nothing is read past the *)
(* end of the text.                                                        *)
InBounds ==
    /\ at \in 0..Len(text)
    /\ Len(stack) <= MaxDepth
    /\ Len(readers) <= MaxDepth + 2
    /\ Len(outs) <= MaxDepth + 2

TypeOK ==
    /\ InBounds
    /\ parser \in {"idle", "value", "key", "got", "failed", "parsed", "rejected"}
    /\ misfreed \in BOOLEAN
    /\ buffer \in Seq(Byte)
    /\ renderer \in {"idle", "render", "loop", "back", "abort", "rendered", "refused"}
    /\ kept \in Seq(Seq(Byte))

(* struple_json.c, the fail labels of parse_array and parse_object: at any *)
(* time every allocated block belongs to one activation, key or node that  *)
(* will free it, nothing is freed twice, and a parse that failed, anywhere *)
(* inside any nesting, holds nothing.                                      *)
HeldBy(f) ==
    (IF f.kind = "object" THEN KeyBlocks(f.key) ELSE <<>>) \o Parts(f) \o f.owns

EveryBlockOwned ==
    LET held == FlattenSeq([i \in DOMAIN stack |-> HeldBy(stack[i])])
                  \o (IF parser \in {"got", "parsed"} THEN value.owns ELSE <<>>)
                  \o (IF parser \in {"idle", "rejected"} THEN <<>> ELSE <<ROOT>>)
    IN  /\ ~misfreed
        /\ live = ToSet(held)
        /\ Cardinality(live) = Len(held)

(* struple_json_parse accepts a text exactly when it is a JSON document    *)
(* nested at most MaxDepth deep, with no key twice in an object, no lone   *)
(* surrogate and no number beyond the doubles ("reject", "Item 4" and      *)
(* "Item 5" in the source).  Four forms that JSON does not have are taken  *)
(* as if they were put right (Corrected): leading zeros, as in 01, a point *)
(* without digits after it, an exponent mark without digits, and control   *)
(* characters inside strings.  Keys are the same when they agree up to a   *)
(* NUL (see StringsKept).  Whether raw bytes are UTF-8 is not judged.      *)
IsDocument(s) == IsJson(Corrected(NoWs(s)), TRUE) /\ Nesting(NoWs(s)) <= MaxDepth

AcceptsDocuments ==
    parser \in {"parsed", "rejected"} => (parser = "parsed" <=> IsDocument(text))

(* Elements whose numbers are equal in value, in the same places. *)
IsNumber(e) == IsExact(e) \/ IsFloat(e)

EqualElement(x, y, inside) ==
    IF x.kind \in {"array", "map"} THEN x.kind = y.kind /\ inside
    ELSE IF IsNumber(x) /\ IsNumber(y) THEN Numbers(x, y) = 0
    ELSE x = y

SameTuple(x, y, Same(_, _)) ==
    /\ Len(x) = Len(y)
    /\ \A i \in DOMAIN x : EqualElement(x[i], y[i], Same(x[i].data, y[i].data))

SameValues[a \in Seq(Byte), b \in Seq(Byte)] ==
    SameTuple(Elements[a], Elements[b], LAMBDA c, d : SameValues[c, d])

(* README.md, "JSON": integers of any size "round-trips losslessly".  What *)
(* from_json made of any text is rendered, the rendered text is accepted,  *)
(* and it stands for the same values and is rendered the same again --     *)
(* unless one of its integers is a -256^n that the decoder loses           *)
(* (ExcessFormExact of StrupleReader): that one is rendered as -0 and then *)
(* as 0, and neither text nor value is kept.                               *)
LosesInteger(b) == \E e \in Contained[b] : LostInteger(e)


(* The first element of a buffer can be rendered: everything in it is      *)
(* readable, every map has a value for each key, and render is not called  *)
(* deeper than MaxDepth.                                                   *)
RenderableAt[b \in Seq(Byte), d \in Nat] ==
    \A e \in ToSet(Elements[b]) :
        /\ e.kind # "error"
        /\ d <= MaxDepth
        /\ e.kind \in {"array", "set", "map"} => RenderableAt[e.data, d + 1]
        /\ e.kind = "map" => Len(Elements[e.data]) % 2 = 0

FirstElement(b) == SubSeq(b, 1, Next(b, 0).pos)

(* struple_to_json succeeds on exactly those buffers, whatever their map   *)
(* keys are, and then has written JSON (struple_json.c:637, "exact JSON    *)
(* number literal").  A decimal whose digits begin with a zero, which no   *)
(* encoder writes and the decoder accepts, keeps that zero in its literal: *)
(* 05 is not JSON, and all else in such a text is.                         *)
LeadingZero(e) == e.kind = "decimal" /\ e.digits # <<>> /\ e.digits[1] = 0

WithoutLeadingZeros(s) ==
    [i \in DOMAIN s |-> IF s[i].t = "number" THEN NumberTok(NoLeadingZeros(s[i].chars)) ELSE s[i]]

RendersJson ==
    /\ renderer = "rendered" =>
          /\ RenderableAt[FirstElement(buffer), 0]
          /\ \/ IsJson(outs[1], FALSE)
             \/ /\ \E e \in Contained[FirstElement(buffer)] : LeadingZero(e)
                /\ IsJson(WithoutLeadingZeros(outs[1]), FALSE)
          /\ Nesting(outs[1]) <= MaxDepth + 1
    /\ renderer = "refused" => Next(buffer, 0).rc = -1 \/ ~RenderableAt[FirstElement(buffer), 0]

(* A number by itself is rendered as a literal of exactly the value of the *)
(* element as decoded, a float as one that reads back as itself ("exact    *)
(* JSON number literal", "the shortest decimal that round-trips").  An     *)
(* element decoded with a sign and no value (SignedNought) is rendered as  *)
(* a zero.                                                                 *)
Denotes(chars, e) ==
    /\ IsLiteral(chars)
    /\ SignedNought(e) => ToSet(OnlyDigits(Mantissa(chars))) = {0}
    /\ IsExact(e) /\ ~SignedNought(e) =>
          Numbers(e, [LiteralDecimal(chars) EXCEPT !.digits = Trimmed(@)]) = 0
    /\ IsFloat(e) => DoubleCompare(FloatOf(chars), SemFloat(e)) = 0

NumbersExact ==
    renderer = "rendered" /\ Len(outs[1]) = 1 /\ outs[1][1].t = "number" =>
        Denotes(outs[1][1].chars, Next(buffer, 0).el)

(* from_json of the C++ port gives the same bytes and rejects the same     *)
(* texts, except that it wants digits after a point and an exponent mark,  *)
(* keeps the NULs of a key, and takes an empty container one level deeper. *)
BareMark(tok) == tok.t = "number" /\ NumberOK(tok.chars) /\ ~CppNumberOK(tok.chars)
WithNul(tok)  == tok.t = "string" /\ StringOK(tok) /\ 0 \in ToSet(StringBytes(tok.units))

ParseAlike ==
    parser = "rejected" \/ (parser = "idle" /\ renderer = "idle" /\ text # <<>>) =>
        \A bytes \in {CppFromJson(text)} :
            \/ \E tok \in ToSet(text) : WithNul(tok)
            \/ /\ parser = "idle"
               /\ bytes = {buffer} \/ (bytes = {} /\ \E tok \in ToSet(text) : BareMark(tok))
            \/ /\ parser = "rejected"
               /\ bytes = {} \/ Nesting(NoWs(text)) = MaxDepth + 1

(* to_json gives the same text, except that it writes a float in fewer     *)
(* digits where the C port misses the shortest ones (struple_json.c:598),  *)
(* and that it also renders decimals that next() of the C port rejects, as *)
(* no number.                                                              *)
SignificantDigits(chars) ==
    Len(NoTrailingZeros(Trimmed(OnlyDigits(Mantissa(chars)))))

SameToken(c, x) ==
    \/ c = x
    \/ /\ c.t = "number" /\ x.t = "number"
       /\ SignificantDigits(c.chars) > SignificantDigits(x.chars)
       /\ \A f \in {FloatOf(c.chars)} : f = FloatOf(x.chars)

NotANumber(tok) == tok.t = "number" /\ OTHER_CHAR \in ToSet(tok.chars)

RenderAlike ==
    renderer \in {"rendered", "refused"} =>
        \A json \in {CppToJson(buffer)} :
            \/ /\ renderer = "rendered"
               /\ \E x \in json :
                     Len(x) = Len(outs[1]) /\ \A i \in DOMAIN x : SameToken(outs[1][i], x[i])
            \/ /\ renderer = "refused"
               /\ \A x \in json : \E tok \in ToSet(x) : NotANumber(tok)

(* Whatever the text or the bytes, from_json and to_json of the two ports  *)
(* answer alike but for the differences listed with the parts.             *)
JsonPortsAgree == ParseAlike /\ RenderAlike

(* struple_json.c:90, "byte length (embedded NULs preserved)": the strings *)
(* of a text are the strings of what it is encoded to.                     *)
StringsIn[b \in Seq(Byte)] ==
    UNION {CASE e.kind = "string" -> {e.data}
             [] e.kind \in {"array", "map"} -> StringsIn[e.data]
             [] OTHER -> {} : e \in ToSet(Elements[b])}

StringsKept ==
    fromText /\ kept = <<>> /\ parser = "idle" =>
        StringsIn[buffer] = {StringBytes(tok.units) : tok \in {t \in ToSet(text) : t.t = "string"}}
=============================================================================
