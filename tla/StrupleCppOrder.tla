---------------------------- MODULE StrupleCppOrder ----------------------------
(***************************************************************************)
(* semanticOrder of the C++ port: the recursion of sem_order_depth, over   *)
(* elements that own their bytes.  Its numeric comparisons are those of    *)
(* struple.c statement by statement, so StrupleNumbers stands for both; an *)
(* exception is the order ERROR.                                           *)
(***************************************************************************)
EXTENDS NumericOrder, StrupleCpp

(* The fields of a number under the names StrupleNumbers has for them. *)
AsNumber(x) ==
    CASE x.kind = "int"     -> [kind |-> "int", neg |-> x.integer < 0,
                                mag |-> ToBE(IF x.integer < 0 THEN -x.integer ELSE x.integer)]
      [] x.kind = "bigint"  -> [kind |-> "bigint", neg |-> x.negative, mag |-> x.data]
      [] x.kind = "decimal" -> [kind |-> "decimal", neg |-> x.negative, digits |-> x.data, exp |-> x.dec_exp]
      [] OTHER -> x

(* sem_elements, given the order of what two containers hold.  Strings are *)
(* compared in data, where next() puts the bytes of every kind but them.   *)
CppElements(x, y, inside) ==
    IF ClassOf(x) # ClassOf(y) THEN SignOf(ClassOf(x) - ClassOf(y))
    ELSE CASE x.kind \in {"nil", "undef"} -> 0
           [] x.kind = "bool" -> (IF x.boolean THEN 1 ELSE 0) - (IF y.boolean THEN 1 ELSE 0)
           [] x.kind \in {"int", "bigint", "f32", "f64", "decimal"} -> Numbers(AsNumber(x), AsNumber(y))
           [] x.kind = "timestamp" -> SignOf(x.integer - y.integer)
           [] x.kind \in {"uuid", "string", "bytes"} -> Compare(x.data, y.data)
           [] IsContainer(x) -> inside

(* What a walk that read x and y answers, given the orders inside of them  *)
(* and after them.                                                         *)
AfterBoth(x, y, inside, rest) ==
    CASE -1 \in {x.rc, y.rc} -> ERROR
      [] -1 \notin {x.rc, y.rc} /\ 0 \in {x.rc, y.rc} -> SignOf(x.rc - y.rc)
      [] OTHER -> LET c == CppElements(x.el, y.el, inside) IN IF c # 0 THEN c ELSE rest

(* Variant with a bug: the level is not counted up on the way down. *)
LevelNotCounted(depth) == depth

(* The level sem_elements hands to the walk inside two containers. *)
LevelInside(depth) == depth + 1

CppOrder[a \in Seq(Byte), b \in Seq(Byte), depth \in Nat] ==
    LET x == CppNext(a, 0)
        y == CppNext(b, 0)
    IN  IF depth > MaxDepth THEN ERROR
        ELSE AfterBoth(x, y, CppOrder[x.el.data, y.el.data, LevelInside(depth)],
                       CppOrder[Onward(a, x), Onward(b, y), depth])

(* The order of tuples in which numbers compare as the code compares them  *)
(* and any two strings are one.                                            *)
IsNumber(e) == IsExact(e) \/ IsFloat(e)

StringBlindOrder[a \in Seq(Byte), b \in Seq(Byte), depth \in Nat] ==
    LET x == Elements[a]
        y == Elements[b]
        at(i) == IF x[i].kind = "string" /\ y[i].kind = "string" THEN 0
                 ELSE IF IsNumber(x[i]) /\ IsNumber(y[i]) THEN Numbers(x[i], y[i])
                 ELSE ElementsOrder(x[i], y[i], StringBlindOrder[x[i].data, y[i].data, depth + 1])
    IN  IF depth > MaxDepth THEN ERROR
        ELSE FirstDifference([i \in DOMAIN x \cap DOMAIN y |-> at(i)], x, y)

(* Somewhere in b is a pair of digits that next() accepts in C++ only. *)
Overfull[b \in Seq(Byte)] ==
    LET x == CppNext(b, 0)
    IN  /\ x.rc = 1
        /\ \/ OverfullPair(x.el)
           \/ IsContainer(x.el) /\ Overfull[x.el.data]
           \/ Overfull[Onward(b, x)]
=============================================================================
