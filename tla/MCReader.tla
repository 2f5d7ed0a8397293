------------------------------ MODULE MCReader ------------------------------
(***************************************************************************)
(* Short buffers that begin with a chosen type code: integers of every     *)
(* slot width and both big-int codes, frames (terminator, escape, nesting, *)
(* an element after the frame), decimals of both signs.                    *)
(***************************************************************************)
EXTENDS StruplePorts

IntCodes     == {INT_NEG_BIG, INT_ZERO, INT_POS_BIG} \cup FixedNeg \cup FixedPos
IntBytes     == {0, 1, 4, 128, 251, 254, 255}
FrameBytes   == {TERMINATOR, NIL, 33, STRING_CODE, 255}
DecimalBytes == {0, 1, 51, 204, 255}
ExpCodes     == {29, 30, 31, INT_ZERO, 33, 34, 222, 223, 224}

MCBuffers ==
    {<<c>> \o s : c \in IntCodes, s \in BoundedSeq(IntBytes, 3)}
      \cup {<<c>> \o s : c \in {INT_ZERO - 4, INT_ZERO - 3, INT_ZERO + 4},
                        s \in SeqOf({0, 127, 128, 255}, 4)}
      \cup {<<INT_NEG_BIG, 254, 251>> \o s : s \in BoundedSeq({0, 127, 255}, 5)}
      \cup {<<INT_POS_BIG, 1, 4>> \o s : s \in BoundedSeq({0, 127, 128}, 5)}
      \cup {<<c>> \o s : c \in {STRING_CODE, ARRAY}, s \in BoundedSeq(FrameBytes, 4)}
      \cup {<<DECIMAL, g>> \o s : g \in 0..3, s \in BoundedSeq(DecimalBytes, 1)}
      \cup {<<DECIMAL, g, e>> \o s :
              g \in {DEC_SIGN_NEG, DEC_SIGN_POS}, e \in ExpCodes,
              s \in BoundedSeq(DecimalBytes, 3)}
      \cup {<<DECIMAL, DEC_SIGN_POS, INT_ZERO - 2>> \o s : s \in SeqOf({0, 51, 128, 255}, 4)}
      \cup {<<TIMESTAMP, 127, 3>>, <<TIMESTAMP, 128, 0>>, <<UUID, 9>>, <<FLOAT64, 1>>}
=============================================================================
