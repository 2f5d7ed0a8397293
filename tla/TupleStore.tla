----------------------------- MODULE TupleStore -----------------------------
(***************************************************************************)
(* What the writers promise, without bytes: every writer holds a tuple of  *)
(* values, each append call adds exactly one value at the end (or nothing, *)
(* when a decimal is rejected), and sets and maps are mathematical sets.   *)
(* StrupleWriter is shown to implement this specification when its bytes   *)
(* are read back by the decoder.                                           *)
(***************************************************************************)
EXTENDS Integers, Sequences, SequencesExt

CONSTANTS
    Writers,          \* the writers in use
    Leaves,           \* the element arguments of the scalar append calls
    ValueOf(_),       \* the value an element argument denotes
    Rejected(_)       \* the arguments whose append call must fail

VARIABLES
    tuple,            \* tuple[w]: the values packed into w, in order
    call              \* the last call: [op, w] and its argument

vars == <<tuple, call>>

Init ==
    /\ tuple = [w \in Writers |-> <<>>]
    /\ call = [op |-> "none"]

(* A failed append leaves the tuple alone. *)
AppendLeaf(w, e) ==
    /\ call' = [op |-> "leaf", w |-> w, arg |-> e, rc |-> IF Rejected(e) THEN -1 ELSE 0]
    /\ tuple' = IF Rejected(e) THEN tuple
                ELSE [tuple EXCEPT ![w] = Append(@, ValueOf(e))]

AppendArray(w, c) ==
    /\ call' = [op |-> "array", w |-> w, arg |-> c]
    /\ tuple' = [tuple EXCEPT ![w] =
                    Append(@, [kind |-> "array", items |-> tuple[c]])]

(* A set value holds each member once, whatever order they were given in. *)
AppendSet(w, c) ==
    /\ call' = [op |-> "set", w |-> w, arg |-> c]
    /\ tuple' = [tuple EXCEPT ![w] =
                    Append(@, [kind |-> "set", members |-> ToSet(tuple[c])])]

(* A map value pairs the tuple's odd positions (keys) with the next ones. *)
Pairs(t) == {<<t[2*i - 1], t[2*i]>> : i \in 1..(Len(t) \div 2)}

AppendMap(w, c) ==
    /\ Len(tuple[c]) % 2 = 0
    /\ call' = [op |-> "map", w |-> w, arg |-> c]
    /\ tuple' = [tuple EXCEPT ![w] =
                    Append(@, [kind |-> "map", entries |-> Pairs(tuple[c])])]

(* struple_writer_append of another writer's bytes concatenates tuples. *)
Concat(w, c) ==
    /\ call' = [op |-> "concat", w |-> w, arg |-> c]
    /\ tuple' = [tuple EXCEPT ![w] = @ \o tuple[c]]

Clear(w) ==
    /\ call' = [op |-> "clear", w |-> w]
    /\ tuple' = [tuple EXCEPT ![w] = <<>>]

Next ==
    \E w \in Writers :
        \/ \E e \in Leaves : AppendLeaf(w, e)
        \/ \E c \in Writers \ {w} :
              \/ AppendArray(w, c)
              \/ AppendSet(w, c)
              \/ AppendMap(w, c)
              \/ Concat(w, c)
        \/ Clear(w)

Spec == Init /\ [][Next]_vars
=============================================================================
