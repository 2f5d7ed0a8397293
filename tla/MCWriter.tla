------------------------------ MODULE MCWriter ------------------------------
(***************************************************************************)
(* Two writers over three families of contents: one scalar of any kind, at *)
(* every boundary of the encodings; tuples of two elements chosen for the  *)
(* framing (a zero byte, an 0xFF byte, a prefix pair) and containers of    *)
(* containers of them; tuples of four elements, so that a map has two      *)
(* entries to order.                                                       *)
(***************************************************************************)
EXTENDS StrupleOrder, TLC

Integer(negative, mag) == [kind |-> "bigint", neg |-> negative, mag |-> mag]
Str(s)             == [kind |-> "string", data |-> s]
Decimal(n, d, e)   == [kind |-> "decimal", neg |-> n, digits |-> d, exp |-> e]

(* Around every power of 256 and every half of one, past the fixed range.  *)
Magnitudes ==
    {<<1>>, <<128>>, <<255>>, <<1, 0>>, <<1, 1>>, <<127, 255>>, <<128, 0>>, <<128, 1>>,
     <<1, 0, 0>>, <<0, 0>>}

(* -256^n for a slot wider than native but not the widest is the integer   *)
(* the C decoder loses (ExcessFormExact of StrupleReader): with these      *)
(* widths there is none.                                                   *)
ScalarLeaves ==
    {Integer(n, m) : n \in BOOLEAN, m \in Magnitudes}
      \cup {[kind |-> "f32", bits |-> <<b>>] : b \in {128, 129}}
      \cup {[kind |-> "f64", bits |-> b] : b \in {<<128, 0>>, <<255, 0>>, <<127, 3>>, <<0, 1>>}}
      \cup {Decimal(n, d, 0) : n \in BOOLEAN, d \in {<<0>>, <<0, 5, 1>>, <<5, 0, 9>>}}
      \cup {Decimal(n, <<5, 0>>, e) : n \in BOOLEAN, e \in {-4, 1, 2}}
      \cup {[kind |-> "timestamp", data |-> <<b>>] : b \in {127, 255}}
      \cup {[kind |-> "uuid", data |-> <<0, 255>>]}
      \cup {[kind |-> "bool", val |-> TRUE]}
      \cup {[kind |-> "bytes", data |-> <<>>], Str(<<>>), Str(<<0>>)}
MapLeaves == {[kind |-> "nil"], [kind |-> "undef"]}
MCLeaves  == ScalarLeaves \cup MapLeaves

ASSUME InstanceKeepsLeaves == LeavesKept

(* Every part of a literal, each of the scanner's rejections, and both     *)
(* ends of the exponent range.                                             *)
MCTexts ==
    {<<MINUS>>, <<EXPONENT, 5>>, <<5, OTHER_CHAR>>, <<5, POINT, 1, POINT>>,
     <<5, EXPONENT, PLUS>>, <<5, EXPONENT, 4>>, <<5, EXPONENT, 3>>, <<POINT, 5, EXPONENT, 3>>,
     <<MINUS, 0, POINT, 5, 1>>, <<0, POINT, 0, 5, EXPONENT, MINUS, 3>>,
     <<PLUS, POINT, 0, 0, 5, EXPONENT, MINUS, 2>>}

(* The three families.  The writers are in the same one at any time.       *)
OneScalar(b) == Len(b) <= 6 /\ Len(Split[b]) <= 1 /\ (b # <<>> => b[1] < ARRAY)
Framing(b) ==
    /\ Len(b) <= 8
    /\ ToSet(b) \subseteq {TERMINATOR, 255, STRING_CODE, INT_ZERO - 1, 254, ARRAY, MAP, SET}
    /\ Len(Split[b]) <= (IF Len(b) <= 4 THEN 2 ELSE 1)
Mapping(b) ==
    /\ Len(b) <= 6
    /\ \/ Len(b) <= 4 /\ ToSet(b) \subseteq {NIL, UNDEF}
       \/ b # <<>> /\ b[1] = MAP /\ ToSet(b) \subseteq {NIL, UNDEF, MAP, TERMINATOR} /\ Len(Split[b]) = 1

MCWithin(contents) ==
    \/ \A w \in Writers : OneScalar(contents[w])
    \/ \A w \in Writers : Framing(contents[w])
    \/ \A w \in Writers : Mapping(contents[w])

(* No action reads call, and ImplementsStore looks at call' of each step.  *)
Memory == <<data, cap>>

WriterSymmetry == Permutations(Writers)
=============================================================================
