----------------------------- MODULE TupleView -----------------------------
(***************************************************************************)
(* What navigating a tuple promises, without bytes to scan: a view is a    *)
(* sequence of elements followed by a rest that is not an element (nothing *)
(* when the tuple is well formed), and every function answers from it.     *)
(***************************************************************************)
EXTENDS Integers, Sequences, SequencesExt

CONSTANT Indices    \* the indices asked for

VARIABLES
    items,   \* the elements, as byte strings
    residue, \* what follows the last element: empty in a well-formed tuple
    asked,   \* the call in progress: [op, index]
    reply    \* [rc, bytes]: the last call's answer, if it was given

vars == <<items, residue, asked, reply>>

NoReply    == [rc |-> 0, bytes |-> <<>>]
NoCall     == [op |-> "none", index |-> 0]
Operations == {"count", "at", "nth_rest", "take"}
WellFormed == residue = <<>>

Lesser(a, b)   == IF a < b THEN a ELSE b
Dropped(n) == FlattenSeq(SubSeq(items, Lesser(n, Len(items)) + 1, Len(items))) \o residue
Taken(n)   == FlattenSeq(SubSeq(items, 1, Lesser(n, Len(items))))

AnswerTo(c) ==
    CASE c.op = "count" -> [rc |-> IF WellFormed THEN Len(items) ELSE -1, bytes |-> <<>>]
      [] c.op = "at" ->
            IF c.index < Len(items) THEN [rc |-> 1, bytes |-> items[c.index + 1]]
            ELSE [rc |-> IF WellFormed THEN 0 ELSE -1, bytes |-> <<>>]
      [] c.op = "nth_rest" -> [rc |-> 1, bytes |-> Dropped(c.index)]
      [] c.op = "take"     -> [rc |-> 1, bytes |-> Taken(c.index)]

Calls == [op : {"count"}, index : {0}] \cup [op : Operations \ {"count"}, index : Indices]

Init ==
    /\ asked = NoCall
    /\ reply = NoReply

Ask ==
    /\ asked = NoCall
    /\ asked' \in Calls
    /\ reply' = NoReply
    /\ UNCHANGED <<items, residue>>

Answer ==
    /\ asked # NoCall
    /\ reply' = AnswerTo(asked)
    /\ asked' = NoCall
    /\ UNCHANGED <<items, residue>>

(* tail is nth_rest(1). *)
ViewTail ==
    /\ asked = NoCall
    /\ reply' = [rc |-> 1, bytes |-> Dropped(1)]
    /\ UNCHANGED <<items, residue, asked>>

(* The caller navigates on in what it was given. *)
Follow ==
    /\ asked = NoCall
    /\ reply.rc = 1
    /\ FlattenSeq(items') \o residue' = reply.bytes
    /\ UNCHANGED <<asked, reply>>

(* contained_items: the contents of the container at the head, if it is    *)
(* one (which bytes those are is the decoder's business).                  *)
Contained ==
    /\ asked = NoCall
    /\ reply' \in [rc : {-1, 0, 1}, bytes : Seq(0..255)]
    /\ items = <<>> /\ WellFormed => reply'.rc = 0
    /\ UNCHANGED <<items, residue, asked>>

Next == Ask \/ Answer \/ ViewTail \/ Follow \/ Contained

SafeSpec == Init /\ [][Next]_vars

Spec == SafeSpec /\ WF_vars(Answer)
=============================================================================
