------------------------------- MODULE MCView -------------------------------
(***************************************************************************)
(* Streams of up to three elements, some of them cut short or followed by  *)
(* a byte that is no type code, and containers to descend into, one with   *)
(* malformed contents.                                                     *)
(***************************************************************************)
EXTENDS StrupleView

Pieces ==
    {<<NIL>>, <<INT_ZERO + 1, 7>>, EncFramed(STRING_CODE, <<0>>),
     EncFramed(ARRAY, <<NIL, NIL>>), EncFramed(MAP, <<STRING_CODE, 0, ARRAY, 0>>),
     EncFramed(SET, <<99>>)}

Broken == {<<>>, <<99>>, <<STRING_CODE, 1>>, <<INT_ZERO + 2, 7>>}

MCBuffers ==
    {FlattenSeq(s) \o r : s \in BoundedSeq(Pieces, 2), r \in Broken}
      \cup {<<NIL>> \o FlattenSeq(s) : s \in BoundedSeq(Pieces, 2)}
=============================================================================
