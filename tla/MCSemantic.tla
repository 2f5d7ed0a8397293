----------------------------- MODULE MCSemantic -----------------------------
(***************************************************************************)
(* Pairs of numbers around every boundary the comparisons have (the exact  *)
(* integers of the float, the native type, the fixed slots, powers of two  *)
(* and of 256, the window of decimal orders of magnitude) and of decimals  *)
(* as only a lenient reader takes them, and pairs of tuples and of         *)
(* containers, nested up to one level too deep, cut short or malformed     *)
(* inside.                                                                 *)
(***************************************************************************)
EXTENDS StrupleSemantic

Natives_ == {0, 1, 511, 512, 513, 515, 32767}
Magnitudes_ ==
    {<<128, 0>>, <<128, 1>>, <<255, 255>>, <<1, 0, 0>>, <<127, 255, 255>>, <<128, 0, 0>>, <<255, 255, 255>>,
     <<1, 0, 0, 0>>, <<1, 0, 0, 1>>, <<127, 255, 255, 255>>, <<128, 0, 0, 0>>, <<128, 0, 0, 1>>}
Floats_ ==
    {<<0, 0>>, <<0, 1>>, <<0, 128>>, <<1, 0>>, <<10, 0>>, <<10, 1>>, <<10, 2>>, <<16, 0>>,
     <<17, 0>>, <<17, 1>>, <<25, 0>>, <<32, 0>>, <<127, 0>>, <<127, 1>>}
Decimals_ ==
    {[d |-> d, e |-> e] : d \in {<<1>>, <<3, 9, 0, 6, 2, 5>>}, e \in {-60, -9, -8, 0, 40}}
      \cup {[d |-> <<5, 1, 2>>, e |-> 0], [d |-> <<5, 1, 2, 5>>, e |-> -1],
            [d |-> <<6, 5, 5, 3, 6>>, e |-> 0], [d |-> <<1, 6, 7, 7, 7, 2, 1, 6>>, e |-> 0],
            [d |-> <<2, 1, 4, 7, 4, 8, 3, 6, 4, 8>>, e |-> 0]}

(* Decimals no encoder writes: padded, of zeros only (of either sign and   *)
(* with an exponent), and with a pair of digits above 99.                  *)
Padded_   == {<<DECIMAL, DEC_SIGN_POS, 33, 1, 11, 1, 0>>, <<DECIMAL, DEC_SIGN_POS, INT_ZERO, 6, 0>>}
Zeros_    == {<<DECIMAL, DEC_SIGN_POS, INT_ZERO, 1, 0>>, <<DECIMAL, DEC_SIGN_NEG, 223, 254, 255>>,
              <<DECIMAL, DEC_SIGN_POS, 33, 40, 1, 1, 0>>}
Overfull_ == {<<DECIMAL, DEC_SIGN_POS, INT_ZERO, 102, 0>>, <<DECIMAL, DEC_SIGN_NEG, 223, 100, 255>>}

NumberBytes ==
    {EncInt(n, m) : n \in BOOLEAN, m \in Magnitudes_ \cup {ToBE(i) : i \in Natives_}}
      \cup {<<FLOAT64>> \o EncFloatBits([f EXCEPT ![1] = @ + s]) : f \in Floats_, s \in {0, 128}}
      \cup {<<FLOAT32>> \o EncFloatBits(<<10, 1>>), <<FLOAT64, 127, 255>>}
      \cup {EncDecimal(n, x.d, x.e) : n \in BOOLEAN, x \in Decimals_}
      \cup {<<DECIMAL, DEC_SIGN_ZERO>>} \cup Padded_ \cup Zeros_ \cup Overfull_

Scalars_ == {<<NIL>>, <<UNDEF>>, <<BOOL_FALSE>>, <<BOOL_TRUE>>, <<TIMESTAMP, 0, 5>>, <<TIMESTAMP, 200, 5>>,
             <<UUID, 7>>, <<STRING_CODE, 0, 255, 0>>, <<STRING_CODE, 0>>, <<STRING_CODE, 65, 0, NIL>>, <<BYTES, 0>>, <<BYTES, 65, 0>>}

One     == EncInt(FALSE, <<1>>)
Decimal == EncDecimal(FALSE, <<1>>, 0)
Arr(s)  == EncFramed(ARRAY, s)

Members_ == << <<NIL>>, One, Decimal, One >>

Tuples_ ==
    {<<>>, <<99>>, <<NIL, 99>>, <<NIL, NIL>>, One \o <<NIL>>, Decimal \o <<UNDEF>>, One \o <<STRING_CODE>>,
     Arr(<<>>), Arr(One), Arr(Decimal), Arr(One) \o <<NIL>>, Arr(Decimal) \o <<UNDEF>>, Arr(One) \o Arr(<<NIL>>),
     Arr(<<99>>), Arr(<<NIL, 99>>), Arr(<<NIL, NIL>>), Arr(Arr(<<>>)), Arr(Arr(One)), Arr(Arr(Decimal) \o <<NIL>>),
     Arr(Arr(Arr(<<>>))), Arr(Arr(Arr(One)) \o <<99>>), Arr(One \o Arr(Arr(<<>>))),
     EncFramed(MAP, <<STRING_CODE, 0>> \o One), EncFramed(MAP, <<STRING_CODE, 0>> \o Decimal),
     EncFramed(MAP, <<NIL>> \o One \o <<UNDEF>> \o Decimal),
     EncFramed(SET, One), EncFramed(SET, <<>>), EncInt(TRUE, <<1, 0, 0, 0>>) \o <<NIL>>,
     Arr(EncInt(TRUE, <<1, 0, 0, 0>>)), Arr(<<DECIMAL, DEC_SIGN_POS, INT_ZERO, 1, 0>>),
     Arr(<<DECIMAL, DEC_SIGN_POS, INT_ZERO, 102, 0>>), One \o <<DECIMAL, DEC_SIGN_POS, INT_ZERO, 102, 0>>}
      \cup {EncFramed(SET, SetInner(Members_, p)) : p \in Arrangements(Members_)}

MCArguments ==
    (NumberBytes \X NumberBytes) \cup ((Tuples_ \cup Scalars_) \X (Tuples_ \cup Scalars_))
=============================================================================
