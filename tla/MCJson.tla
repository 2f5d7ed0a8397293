------------------------------- MODULE MCJson -------------------------------
(***************************************************************************)
(* Texts: every sequence of up to four structural tokens; documents cut    *)
(* short, with a token dropped, replaced or white space put in anywhere;   *)
(* strings and numbers of every shape.  Buffers: every kind of element,    *)
(* maps with every kind of key, nested up to two levels too deep, cut      *)
(* short or malformed inside.                                              *)
(***************************************************************************)
EXTENDS StrupleJson

Chars(s) == StringOf([i \in DOMAIN s |-> <<"raw", s[i]>>])
A == Chars(<<97>>)
B == Chars(<<98>>)

Structure == {Symbol(c) : c \in {"[", "]", "{", "}", ",", ":"}} \cup {A}

(* The tokens of a text of one-letter names. *)
Document(names) ==
    [i \in DOMAIN names |-> CASE names[i] = "a" -> A [] names[i] = "b" -> B
                              [] names[i] = "1" -> NumberTok(<<1>>)
                              [] names[i] = "2.5" -> NumberTok(<<2, POINT, 5>>)
                              [] OTHER -> Symbol(names[i])]

Documents ==
    {Document(<<"{", "a", ":", "[", "1", ",", "b", "]", ",", "b", ":", "{", "a", ":", "2.5", "}", "}">>),
     Document(<<"[", "[", "a", ",", "1", "]", ",", "[", "]", ",", "{", "}", "]">>)}

Damaged(d) ==
    {SubSeq(d, 1, n) : n \in DOMAIN d}
      \cup {RemoveAt(d, n) : n \in DOMAIN d}
      \cup {InsertAt(d, n, tok) : n \in DOMAIN d, tok \in {Symbol("ws"), Symbol("bad")}}
      \cup {ReplaceAt(d, n, tok) : n \in DOMAIN d, tok \in Structure}

(* Duplicate keys apart and nested, keys that agree up to a NUL, nesting   *)
(* at the limit and past it.                                               *)
NulKey(b) == StringOf(<<<<"raw", 97>>, <<"u", 0>>, <<"raw", b>>>>)
Others ==
    {Document(<<"{", "a", ":", "1", ",", "b", ":", "1", ",", "a", ":", "1", "}">>),
     Document(<<"{", "a", ":", "{", "a", ":", "1", "}", "}">>),
     Document(<<"{", "b", ":", "1", ",", "a", ":", "b", "}">>),
     Document(<<"[", "[", "[", "]", "]", "]">>), Document(<<"[", "[", "{", "}", "]", "]">>),
     Document(<<"{", "a", ":", "[", "{", "}", "]", "}">>),
     Document(<<"ws", "{", "ws", "a", "ws", ":", "ws", "1", "ws", "}", "ws">>), Document(<<"ws", "[", "ws", "]">>),
     <<Symbol("{"), A, Symbol(":"), Symbol("null"), Symbol(","), NulKey(98), Symbol(":"), Symbol("true"), Symbol("}")>>,
     <<Symbol("{"), NulKey(98), Symbol(":"), Symbol("false"), Symbol("}")>>}

Strings ==
    {<<>>, <<<<"raw", 31>>, <<"raw", 127>>, <<"raw", 200>>>>, <<<<"esc", 34>>, <<"esc", 92>>, <<"esc", 47>>>>,
     <<<<"esc", 10>>, <<"esc", 9>>, <<"esc", 13>>, <<"esc", 8>>, <<"esc", 12>>>>, <<<<"bad", 0>>>>,
     <<<<"u", 0>>, <<"u", 27>>, <<"u", 233>>, <<"u", 8364>>>>, <<<<"u", 55357>>, <<"u", 56832>>, <<"raw", 97>>>>,
     <<<<"u", 55357>>>>, <<<<"u", 56832>>>>, <<<<"u", 55357>>, <<"u", 55357>>, <<"u", 56832>>>>,
     <<<<"u", 55357>>, <<"raw", 97>>>>, <<<<"u", 55357>>, <<"bad", 0>>>>}

NumberTexts ==
    {<<0>>, <<MINUS, 0>>, <<0, 1>>, <<MINUS, 0, 0>>, <<0, 0, POINT, 5>>, <<MINUS>>, <<3, 2, 7, 6, 7>>, <<3, 2, 7, 6, 8>>, <<MINUS, 3, 2, 7, 6, 8>>,
     <<MINUS, 3, 2, 7, 6, 9>>, <<6, 5, 5, 3, 6>>,
     <<MINUS, 1, 6, 7, 7, 7, 2, 1, 5>>, <<MINUS, 1, 6, 7, 7, 7, 2, 1, 6>>, <<MINUS, 1, 6, 7, 7, 7, 2, 1, 7>>,
     <<2, 1, 4, 7, 4, 8, 3, 6, 4, 8>>, <<MINUS, 2, 1, 4, 7, 4, 8, 3, 6, 4, 9>>,
     <<0, POINT, 0>>, <<MINUS, 0, POINT>>, <<1, POINT>>, <<1, EXPONENT>>, <<1, EXPONENT, MINUS>>, <<1, POINT, EXPONENT, 1>>, <<2, EXPONENT, 2>>,
     <<1, POINT, 5>>, <<0, POINT, 1>>, <<MINUS, 0, POINT, 0, 0, 3>>, <<0, POINT, 0, 3>>, <<9, 9, POINT, 7, 6>>, <<5, 1, 1, POINT, 5>>,
     <<1, EXPONENT, 4>>, <<6, 5, 4, 0, 8, POINT>>, <<6, 5, 4, 7, 1, POINT, 9>>, <<6, 5, 4, 7, 2, POINT>>,
     <<MINUS, 1, EXPONENT, 9>>, <<1, EXPONENT, MINUS, 4, 0>>}

ScalarTexts ==
    {<<tok>> : tok \in {Symbol("null"), Symbol("true"), Symbol("false"), Symbol("ws"), Symbol("bad"), [A EXCEPT !.closed = FALSE]}
                         \cup {StringOf(s) : s \in Strings} \cup {NumberTok(c) : c \in NumberTexts}}

MCTexts ==
    UNION {[1..n -> Structure] : n \in 0..4} \cup UNION {Damaged(d) \cup {d} : d \in Documents}
      \cup Others \cup ScalarTexts
      \cup {<<Symbol("[")>> \o s \o <<Symbol(","), NumberTok(<<1>>), Symbol("]")>> : s \in ScalarTexts}

-----------------------------------------------------------------------------
Decimal(n, d, e) == EncDecimal(n, d, e)
One    == EncInt(FALSE, <<1>>)
Arr(s) == EncFramed(ARRAY, s)
Map(s) == EncFramed(MAP, s)
Key    == EncFramed(STRING_CODE, <<97>>)

(* Decimals no encoder writes: a leading zero digit, before the point and  *)
(* after it and in an exponent's notation; digits all zero.                *)
Lenient_ ==
    {<<DECIMAL, DEC_SIGN_POS>> \o s : s \in
        {<<INT_ZERO, 6, 0>>, <<INT_ZERO, 1, 0>>} \cup
        {<<INT_ZERO + 1, adj>> \o d : adj \in {1, 2, 3, 9}, d \in {<<6, 0>>, <<1, 0>>, <<1, 1, 0>>, <<3, 6, 0>>}}}
      \cup {<<DECIMAL, DEC_SIGN_NEG>> \o s : s \in {<<223, 254, 255>>, <<222, 253, 249, 255>>, <<222, 253, 254, 254, 255>>}}

Numbers_ ==
    {Decimal(n, d, e) : n \in BOOLEAN, d \in {<<5>>, <<1, 2, 3>>}, e \in {-9, -6, -4, -3, -1, 0, 3, 4, 62}}
      \cup {Decimal(FALSE, <<>>, 0), <<FLOAT32>> \o EncFloatBits(<<120, 64>>)}
      \cup {<<FLOAT64>> \o EncFloatBits(<<b, f>>) : b \in {1, 93, 110, 119, 126, 127, 247, 255}, f \in {0, 1, 153, 255}}
      \cup {<<FLOAT64>> \o EncFloatBits(<<0, f>>) : f \in {0, 1, 3}}
      \cup Lenient_
      \cup {<<TIMESTAMP>> \o s : s \in {<<0, 0>>, <<127, 255>>, <<128, 5>>}}
      \cup {EncInt(n, m) : n \in BOOLEAN, m \in {<<>>, <<10>>, <<128, 0>>, <<1, 0, 0, 0>>}}

Plain_ ==
    {<<NIL>>, <<UNDEF>>, <<BOOL_FALSE>>, <<BOOL_TRUE>>, <<UUID, 1, 35, 69, 103, 137, 171>>, Key,
     EncFramed(STRING_CODE, <<0, 8, 9, 10, 12, 13, 31, 34, 47, 92, 127, 200>>),
     EncFramed(BYTES, <<>>), EncFramed(BYTES, <<0>>), EncFramed(BYTES, <<255, 240>>), EncFramed(BYTES, <<105, 183, 29, 251>>)}

Inner_ ==
    {<<>>, One, Key \o One, One \o Key, Key \o Key, <<NIL, UNDEF>>, Key, Key \o One \o EncFramed(STRING_CODE, <<98>>),
     Key \o One \o <<NIL>> \o Key, EncFramed(STRING_CODE, <<49>>) \o One \o One \o One, <<99>>, Key \o <<99>>, Key \o One \o <<99>>,
     Arr(<<>>) \o One, Arr(Key) \o Key, Arr(<<99>>) \o One, Map(Key \o One) \o Map(Key \o Key), Map(Map(One \o One) \o One) \o One,
     EncFramed(STRING_CODE, <<34, 0, 92>>) \o Arr(One), Arr(Arr(<<>>)), Arr(Arr(One)), Arr(Arr(Arr(<<>>))) \o One,
     EncFramed(SET, One \o Key), Map(Map(Key \o One \o Key)) \o One}

MCBuffers ==
    {<<>>, <<99>>, <<NIL, 99>>, <<ARRAY, NIL>>, <<DECIMAL, DEC_SIGN_POS, INT_ZERO, 120, 0>>} \cup Numbers_ \cup Plain_
      \cup {EncFramed(c, s) : c \in {ARRAY, MAP}, s \in Inner_} \cup {EncFramed(SET, One)}
      \cup {Map(s \o s) : s \in Plain_ \cup Lenient_} \cup {Arr(n) : n \in Numbers_}
=============================================================================
