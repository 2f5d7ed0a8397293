-------------------------- MODULE StrupleJsonParse --------------------------
(***************************************************************************)
(* struple_json_parse: recursive descent over a text, building a tree of   *)
(* allocated nodes.  Frames are the activations of parse_array and         *)
(* parse_object; memory is the set of blocks allocated and not yet freed,  *)
(* so that what a parse that fails half-way releases can be told from what *)
(* it holds.                                                               *)
(*                                                                         *)
(* A node lists the blocks free_internals would free for it, in "owns".    *)
(***************************************************************************)
EXTENDS StrupleJsonText

VARIABLES
    text,    \* the text
    at,      \* p->i: tokens consumed
    stack,   \* the activations, the innermost last
    value,   \* the node the last parse_value returned
    parser,  \* "idle"; "value": parse_value is called; "key": an object
             \* expects a key; "got", "failed": a call has returned 0, -1;
             \* "parsed", "rejected": struple_json_parse has returned
    live,    \* the blocks allocated
    misfreed \* TRUE once a block was freed that was not live

parseVars == <<text, at, stack, value, parser, live, misfreed>>

NoNode == [kind |-> "none", owns |-> <<>>]
ROOT   == <<"node", 0>>
Block(what, p) == <<what, p>>

ParseStart ==
    /\ at = 0
    /\ stack = <<>>
    /\ value = NoNode
    /\ parser = "value"
    /\ live = {ROOT}

(* free, of several blocks in turn. *)
Free(blocks) ==
    /\ live' = live \ ToSet(blocks)
    /\ misfreed' = (misfreed \/ Cardinality(ToSet(blocks)) < Len(blocks)
                             \/ ~(ToSet(blocks) \subseteq live))

Allocate(blocks) ==
    /\ live' = live \cup ToSet(blocks)
    /\ UNCHANGED misfreed

-----------------------------------------------------------------------------
(* The text ahead. *)

SkipWs(p) ==
    CHOOSE q \in p..Len(text) :
        /\ \A i \in (p + 1)..q : text[i].t = "ws"
        /\ q = Len(text) \/ text[q + 1].t # "ws"

Token(p) == IF p >= Len(text) THEN [t |-> "end"] ELSE text[p + 1]

(* The position of the next token that counts. *)
Here == SkipWs(at)

(* parse_value returns 0 with node v, having consumed up to p. *)
Return(v, p) ==
    /\ value' = v
    /\ at' = p
    /\ parser' = "got"

-----------------------------------------------------------------------------
(* parse_value. *)

ParseLiteral ==
    /\ parser = "value"
    /\ Token(Here).t \in {"null", "true", "false"}
    /\ Return(IF Token(Here).t = "null" THEN [kind |-> "null", owns |-> <<>>]
              ELSE [kind |-> "bool", val |-> Token(Here).t = "true", owns |-> <<>>],
              Here + 1)
    /\ UNCHANGED <<text, stack, live, misfreed>>

ParseString ==
    /\ parser = "value"
    /\ StringOK(Token(Here))
    /\ Return([kind |-> "string", data |-> StringBytes(Token(Here).units),
               owns |-> <<Block("str", Here)>>], Here + 1)
    /\ Allocate(<<Block("str", Here)>>)
    /\ UNCHANGED <<text, stack>>

ParseNumber ==
    /\ parser = "value"
    /\ Token(Here).t = "number"
    /\ NumberOK(Token(Here).chars)
    /\ \E v \in {NumberValue(Token(Here).chars)} :
          IF Overflows(v)
          THEN /\ parser' = "failed"
               /\ UNCHANGED <<at, value, live, misfreed>>
          ELSE \E owned \in {IF v.kind = "int" THEN <<Block("str", Here)>> ELSE <<>>} :
                  /\ Return([kind |-> v.kind, number |-> v.number, owns |-> owned], Here + 1)
                  /\ Allocate(owned)
    /\ UNCHANGED <<text, stack>>

(* Nothing a value starts with, or a string or number that is none. *)
ParseNothing ==
    /\ parser = "value"
    /\ CASE Token(Here).t = "string" -> ~StringOK(Token(Here))
         [] Token(Here).t = "number" -> ~NumberOK(Token(Here).chars)
         [] OTHER -> Token(Here).t \in {"end", "]", "}", ",", ":", "bad"}
    /\ parser' = "failed"
    /\ UNCHANGED <<text, at, stack, value, live, misfreed>>

(* The head of parse_array. *)
BeginArray(toodeep) ==
    /\ parser = "value"
    /\ Token(Here).t = "["
    /\ \E p \in {SkipWs(Here + 1)} :
          IF toodeep
          THEN /\ parser' = "failed"
               /\ UNCHANGED <<at, stack, value, live, misfreed>>
          ELSE IF Token(p).t = "]"
          THEN /\ Return([kind |-> "array", items |-> <<>>, owns |-> <<>>], p + 1)
               /\ UNCHANGED <<stack, live, misfreed>>
          ELSE /\ stack' = Append(stack, [kind |-> "array", items |-> <<>>,
                                          owns |-> <<Block("items", Here)>>])
               /\ Allocate(<<Block("items", Here)>>)
               /\ parser' = "value"
               /\ at' = p
               /\ UNCHANGED value
    /\ UNCHANGED text

(* Variant with a bug: the level the array is in is tested, not its own. *)
DepthOfParent == BeginArray(Len(stack) > MaxDepth)
OpenArray == BeginArray(Len(stack) + 1 > MaxDepth)

(* The head of parse_object.  Its blocks come with the first key. *)
OpenObject ==
    /\ parser = "value"
    /\ Token(Here).t = "{"
    /\ \E p \in {SkipWs(Here + 1)} :
          IF Len(stack) + 1 > MaxDepth
          THEN /\ parser' = "failed"
               /\ UNCHANGED <<at, stack, value>>
          ELSE IF Token(p).t = "}"
          THEN /\ Return([kind |-> "object", keys |-> <<>>, vals |-> <<>>, owns |-> <<>>], p + 1)
               /\ UNCHANGED stack
          ELSE /\ stack' = Append(stack, [kind |-> "object", keys |-> <<>>, vals |-> <<>>,
                                          key |-> <<>>, owns |-> <<>>])
               /\ parser' = "key"
               /\ at' = p
               /\ UNCHANGED value
    /\ UNCHANGED <<text, live, misfreed>>

-----------------------------------------------------------------------------
(* The loop of parse_object: a key and its colon, then parse_value.        *)

Inner == stack[Len(stack)]

(* Variant with a bug: only the key before is compared. *)
LastKeyOnly(k) == Inner.keys # <<>> /\ CString(Last(Inner.keys).data) = CString(k)

DuplicateKey(k) == \E i \in DOMAIN Inner.keys : CString(Inner.keys[i].data) = CString(k)

KeyAhead ==
    /\ StringOK(Token(Here))
    /\ ~DuplicateKey(StringBytes(Token(Here).units))
    /\ Token(SkipWs(Here + 1)).t = ":"

(* No key, one that is there already, or one without a colon: what was     *)
(* allocated for it is freed.                                              *)
NoKey ==
    /\ parser = "key"
    /\ ~KeyAhead
    /\ parser' = "failed"
    /\ UNCHANGED <<text, at, stack, value, live, misfreed>>

ParseKey ==
    /\ parser = "key"
    /\ KeyAhead
    /\ at' = SkipWs(Here + 1) + 1
    /\ \E arrays \in {IF Inner.keys = <<>> THEN <<Block("keys", Here), Block("vals", Here)>>
                      ELSE Inner.owns} :
          /\ stack' = [stack EXCEPT ![Len(stack)].owns = arrays,
                                    ![Len(stack)].key =
                          <<[data |-> StringBytes(Token(Here).units), owns |-> Block("str", Here)]>>]
          /\ Allocate(arrays \o <<Block("str", Here)>>)
    /\ parser' = "value"
    /\ UNCHANGED <<text, value>>

-----------------------------------------------------------------------------
(* A call of parse_value has returned 0 to a container. *)

OwnedBy(nodes) == FlattenSeq([i \in DOMAIN nodes |-> nodes[i].owns])
KeyBlocks(ks)  == [i \in DOMAIN ks |-> ks[i].owns]

(* The blocks free_internals frees for a finished or unfinished container. *)
Parts(f) == IF f.kind = "array" THEN OwnedBy(f.items)
            ELSE KeyBlocks(f.keys) \o OwnedBy(f.vals)

(* The container with the new element counted in. *)
WithElement(f) ==
    IF f.kind = "array" THEN [f EXCEPT !.items = Append(@, value)]
    ELSE [f EXCEPT !.keys = @ \o f.key, !.vals = Append(@, value), !.key = <<>>]

NodeOf(f) ==
    IF f.kind = "array" THEN [kind |-> "array", items |-> f.items, owns |-> Parts(f) \o f.owns]
    ELSE [kind |-> "object", keys |-> f.keys, vals |-> f.vals, owns |-> Parts(f) \o f.owns]

Closing(f) == IF f.kind = "array" THEN "]" ELSE "}"

(* A comma, the end of the container, or something else. *)
GotElement ==
    /\ parser = "got"
    /\ stack # <<>>
    /\ \E f \in {WithElement(Inner)} :
          \/ /\ Token(Here).t = ","
             /\ stack' = Append(Front(stack), f)
             /\ parser' = IF f.kind = "array" THEN "value" ELSE "key"
             /\ at' = Here + 1
             /\ UNCHANGED value
          \/ /\ Token(Here).t = Closing(f)
             /\ stack' = Front(stack)
             /\ Return(NodeOf(f), Here + 1)
          \/ /\ Token(Here).t \notin {",", Closing(f)}
             /\ stack' = Append(Front(stack), f)
             /\ parser' = "failed"
             /\ UNCHANGED <<at, value>>
    /\ UNCHANGED <<text, live, misfreed>>

(* Variant with a bug: only counted elements are freed, not the key whose  *)
(* value failed.                                                           *)
PendingKeyLeaks ==
    /\ parser = "failed"
    /\ stack # <<>>
    /\ Free(Parts(Inner) \o Inner.owns)
    /\ stack' = Front(stack)
    /\ UNCHANGED <<text, at, value, parser>>

(* fail: free what this activation holds, the key whose value failed       *)
(* first, and return -1.                                                   *)
Unwind ==
    /\ parser = "failed"
    /\ stack # <<>>
    /\ Free((IF Inner.kind = "object" THEN KeyBlocks(Inner.key) ELSE <<>>)
              \o Parts(Inner) \o Inner.owns)
    /\ stack' = Front(stack)
    /\ UNCHANGED <<text, at, value, parser>>

-----------------------------------------------------------------------------
(* The end of struple_json_parse. *)

ParseReturns ==
    /\ parser = "got"
    /\ stack = <<>>
    /\ IF Here = Len(text)
       THEN /\ parser' = "parsed"
            /\ UNCHANGED <<value, live, misfreed>>
       ELSE /\ parser' = "rejected"
            /\ value' = NoNode
            /\ Free(value.owns \o <<ROOT>>)
    /\ at' = Here
    /\ UNCHANGED <<text, stack>>

ParseFails ==
    /\ parser = "failed"
    /\ stack = <<>>
    /\ parser' = "rejected"
    /\ value' = NoNode
    /\ Free(<<ROOT>>)
    /\ UNCHANGED <<text, at, stack>>

ParseStep ==
    \/ ParseLiteral \/ ParseString \/ ParseNumber \/ ParseNothing
    \/ OpenArray \/ OpenObject \/ NoKey \/ ParseKey
    \/ GotElement \/ Unwind \/ ParseReturns \/ ParseFails

-----------------------------------------------------------------------------
(* The reference: the grammar of RFC 8259, by matching brackets.           *)

(* A sign, a whole part without leading zeros, digits after the point and  *)
(* after the exponent mark if there are any.                               *)
Body(chars)  == IF IsNegative(chars) THEN Tail(chars) ELSE chars
WholePart(m) == SubSeq(m, 1, FirstOf({k \in DOMAIN m : m[k] = POINT} \cup {Len(m) + 1}) - 1)

JsonNumber(chars) ==
    LET m     == Mantissa(Body(chars))
        whole == WholePart(m)
    IN  /\ IsLiteral(chars)
        /\ whole # <<>> /\ ToSet(whole) \subseteq Digit
        /\ whole[1] = 0 => Len(whole) = 1
        /\ Last(m) # POINT

(* Quoted at both ends, of known escapes and of bytes that need none; and  *)
(* the surrogates make pairs.                                              *)
JsonString(tok) ==
    LET us    == tok.units
        pairs == {i \in 1..(Len(us) - 1) : HighSurrogate(us[i]) /\ LowSurrogate(us[i + 1])}
    IN  /\ tok.t = "string" /\ tok.closed
        /\ \A i \in DOMAIN us : us[i][1] # "bad" /\ (us[i][1] = "raw" => us[i][2] >= 32)
        /\ {i \in DOMAIN us : HighSurrogate(us[i]) \/ LowSurrogate(us[i])}
              = UNION {{i, i + 1} : i \in pairs}

(* What the parser takes beyond that grammar, put right: leading zeros, a  *)
(* point or an exponent mark with no digits after it, and control          *)
(* characters as they are.                                                 *)
NoLeadingZeros(chars) ==
    LET whole == WholePart(Mantissa(Body(chars)))
        rest  == SubSeq(Body(chars), Len(whole) + 1, Len(Body(chars)))
    IN  Minus(IsNegative(chars))
          \o (IF whole # <<>> /\ Trimmed(whole) = <<>> THEN <<0>> ELSE Trimmed(whole)) \o rest

NoBareMarks(chars) ==
    LET m == Mantissa(chars)
    IN  m \o (IF m # <<>> /\ Last(m) = POINT THEN <<0>> ELSE <<>>)
          \o (IF Mark(chars) > Len(chars) THEN <<>>
              ELSE <<EXPONENT>> \o Scale(chars)
                     \o (IF Unsigned(Scale(chars)) = <<>> THEN <<0>> ELSE <<>>))

NoControls(us) ==
    [i \in DOMAIN us |-> IF us[i][1] = "raw" /\ us[i][2] < 32 THEN <<"u", us[i][2]>> ELSE us[i]]

Corrected(s) ==
    [i \in DOMAIN s |->
        CASE s[i].t = "number" -> NumberTok(NoBareMarks(NoLeadingZeros(s[i].chars)))
          [] s[i].t = "string" -> [s[i] EXCEPT !.units = NoControls(@)]
          [] OTHER -> s[i]]

NoWs(s) == SelectSeq(s, LAMBDA tok : tok.t # "ws")

(* How many brackets are open after the first k tokens. *)
OpenAfter(s, k) ==
    Cardinality({i \in 1..k : s[i].t \in {"[", "{"}})
      - Cardinality({i \in 1..k : s[i].t \in {"]", "}"}})

Nesting(s) == Max({OpenAfter(s, k) : k \in 0..Len(s)})

(* What stands between s[lo] and s[hi], cut at the commas that no bracket  *)
(* encloses.                                                               *)
Commas(s, lo, hi) ==
    {k \in lo..hi : s[k].t = "," /\ OpenAfter(s, k) = OpenAfter(s, lo - 1)}

Cut(lo, hi, marks) ==
    {p \in ({lo} \cup {k + 1 : k \in marks}) \X ({hi} \cup {k - 1 : k \in marks}) :
        p[1] <= p[2] + 1 /\ \A k \in marks : k < p[1] \/ k > p[2]}

Pieces(s, lo, hi) == Cut(lo, hi, Commas(s, lo, hi))

JsonScalar(tok, strict) ==
    \/ tok.t \in {"null", "true", "false"}
    \/ JsonString(tok)
    \/ /\ tok.t = "number" /\ JsonNumber(tok.chars)
       /\ strict => ~Overflows(NumberValue(tok.chars))

JsonKey(tok) == CString(StringBytes(tok.units))

Members(s, pieces, strict) ==
    /\ \A p \in pieces :
          /\ p[1] + 2 <= p[2] /\ JsonString(s[p[1]])
          /\ s[p[1] + 1].t = ":"
    /\ strict => \A p, q \in pieces : p # q => JsonKey(s[p[1]]) # JsonKey(s[q[1]])

(* Is s, without white space, one JSON value?  Strictly: one whose objects *)
(* have unique keys and whose numbers are in range.                        *)
IsJson(s, strict) ==
    LET isValue[lo \in Nat, hi \in Nat] ==
            \/ lo = hi /\ JsonScalar(s[lo], strict)
            \/ hi = lo + 1 /\ <<s[lo].t, s[hi].t>> \in {<<"[", "]">>, <<"{", "}">>}
            \/ /\ lo + 1 < hi /\ s[lo].t = "[" /\ s[hi].t = "]"
               /\ \A p \in Pieces(s, lo + 1, hi - 1) : p[1] <= p[2] /\ isValue[p[1], p[2]]
            \/ /\ lo + 1 < hi /\ s[lo].t = "{" /\ s[hi].t = "}"
               /\ Members(s, Pieces(s, lo + 1, hi - 1), strict)
               /\ \A p \in Pieces(s, lo + 1, hi - 1) : isValue[p[1] + 2, p[2]]
    IN  s # <<>> /\ isValue[1, Len(s)]
=============================================================================
