---------------------------- MODULE StrupleOrder ----------------------------
(***************************************************************************)
(* The order the format promises on values, stated without reference to    *)
(* the encoding (README.md, "memcmp order is tuple order"), and kept by    *)
(* whatever the writers hold.                                              *)
(***************************************************************************)
EXTENDS StrupleWriter

(* The order of the kinds. *)
Rank == [nil |-> 1, undef |-> 2, bool |-> 3, int |-> 4, f32 |-> 5, f64 |-> 6, decimal |-> 7,
         timestamp |-> 8, uuid |-> 9, string |-> 10, bytes |-> 11, array |-> 12, map |-> 13,
         set |-> 14]

(* The values that have nothing inside, and the values whose containers    *)
(* are nested less than d deep.                                            *)
ScalarValues ==
    [kind : {"nil", "undef"}]
      \cup [kind : {"bool"}, val : BOOLEAN]
      \cup [kind : {"int"}, neg : BOOLEAN, mag : Seq(Byte)]
      \cup [kind : {"f32", "f64"}, bits : Seq(Byte)]
      \cup [kind : {"decimal"}, neg : BOOLEAN, digits : Seq(0..9), adj : Int]
      \cup [kind : {"timestamp", "uuid", "string", "bytes"}, data : Seq(Byte)]

ContainersOf(V) ==
    [kind : {"array"}, items : Seq(V)] \cup [kind : {"set"}, members : SUBSET V]
      \cup [kind : {"map"}, entries : SUBSET Seq(V)]

ValuesWithin[d \in Nat] ==
    IF d = 0 THEN {} ELSE ScalarValues \cup ContainersOf(ValuesWithin[d - 1])

-----------------------------------------------------------------------------
(* Two scalars of one kind. *)
ScalarCompare(x, y) ==
    CASE x.kind \in {"nil", "undef"} -> 0
      [] x.kind = "bool" -> IF x.val = y.val THEN 0 ELSE IF x.val THEN 1 ELSE -1
      [] x.kind = "int" -> SignedCompare(x.neg, y.neg, MagnitudeCompare(x.mag, y.mag))
      [] x.kind \in {"f32", "f64"} -> PatternCompare(x.bits, y.bits, TRUE)
      [] x.kind = "decimal" -> SignedCompare(x.neg, y.neg, DecimalMagnitudeCompare(x, y))
      [] x.kind = "timestamp" -> PatternCompare(x.data, y.data, FALSE)
      [] x.kind \in {"uuid", "string", "bytes"} -> Compare(x.data, y.data)

(* Tuples compare element by element, a proper prefix first.  order gives   *)
(* that of two elements.                                                   *)
TupleCompare(order, s, t) ==
    LET n    == IF Len(s) < Len(t) THEN Len(s) ELSE Len(t)
        diff == {i \in 1..n : order[<<s[i], t[i]>>] # 0}
    IN  IF diff # {} THEN order[<<s[FirstOf(diff)], t[FirstOf(diff)]>>]
        ELSE SignOf(Len(s) - Len(t))

(* A set listed in order: the i-th is above i - 1 others. *)
Ranked(S, order) ==
    [i \in 1..Cardinality(S) |->
        CHOOSE x \in S : Cardinality({y \in S : order[<<y, x>>] < 0}) = i - 1]

(* Maps and sets compare as their entries listed in order. *)
Listed(v, order) ==
    CASE v.kind = "array" -> v.items
      [] v.kind = "set"   -> Ranked(v.members, order)
      [] v.kind = "map"   ->
            FlattenSeq(Ranked(v.entries, [p \in v.entries \X v.entries |->
                                             TupleCompare(order, p[1], p[2])]))

(* Two values, order being that of the values inside them. *)
ElementCompare(order, x, y) ==
    IF x.kind # y.kind THEN SignOf(Rank[x.kind] - Rank[y.kind])
    ELSE IF x.kind \notin {"array", "map", "set"} THEN ScalarCompare(x, y)
    ELSE TupleCompare(order, Listed(x, order), Listed(y, order))

ValueOrder[d \in Nat] ==
    [p \in ValuesWithin[d] \X ValuesWithin[d] |-> ElementCompare(ValueOrder[d - 1], p[1], p[2])]

-----------------------------------------------------------------------------
(* README.md, "raw bytes are directly memcmp-comparable": whatever was     *)
(* appended to two writers, through whatever containers, comparing their   *)
(* bytes orders the tuples of values they hold (nested no deeper than      *)
(* there are bytes).                                                       *)
ByteOrderIsValueOrder ==
    \A a, b \in Writers :
        Compare(data[a], data[b]) =
            TupleCompare(ValueOrder[Len(data[a]) + Len(data[b])], Unpack[data[a]], Unpack[data[b]])
=============================================================================
