---------------------------- MODULE MCTranscode ----------------------------
(***************************************************************************)
(* Inputs that decode but are not what the encoder writes: padded decimal  *)
(* exponents and coefficients, negative zero and every NaN, and streams of *)
(* two elements so that an error may follow output.                        *)
(***************************************************************************)
EXTENDS StrupleTranscode

DecimalBytes == {0, 6, 51, 204, 255}
Exponents ==
    {<<32>>, <<33, 3>>, <<33, 0>>, <<33, 4>>, <<31, 252>>, <<31, 255>>, <<31, 251>>, <<223>>,
     <<222, 252>>, <<222, 255>>, <<224, 3>>, <<224, 0>>, <<30, 255, 255>>, <<49>>}
Decimals ==
    {<<DECIMAL, g>> \o e \o s : g \in 0..3, e \in Exponents, s \in BoundedSeq(DecimalBytes, 3)}

Floats == {<<FLOAT32, a>> : a \in {0, 127, 128, 255}}
            \cup {<<FLOAT64, a, b>> : a \in {0, 127, 128, 255}, b \in {0, 1, 128}}

Others == {<<NIL>>, <<INT_ZERO + 1, 5>>, <<INT_ZERO + 2, 0, 5>>, <<INT_ZERO - 2, 0, 0>>, <<INT_NEG_BIG, 254>>,
           <<INT_ZERO - 1, 0>>, <<INT_ZERO - 1, 127>>, <<INT_ZERO - 1, 128>>, <<INT_ZERO - 3, 128, 0, 0>>,
           <<INT_NEG_BIG, 254, 252, 127, 255, 254>>, <<TIMESTAMP, 0>>, <<TIMESTAMP, 130>>, <<UUID, 0, 7>>,
           <<STRING_CODE, 0, 255, 0>>, <<ARRAY, 0, 255>>, <<MAP, STRING_CODE, 0>>, <<99>>}

MCBuffers ==
    Decimals \cup {d \o t : d \in Floats \cup Others, t \in Floats \cup Others \cup {<<>>}}
             \cup {t \o d : d \in {x \in Decimals : Len(x) <= 5}, t \in {<<NIL>>, <<33, 5>>}}
=============================================================================
