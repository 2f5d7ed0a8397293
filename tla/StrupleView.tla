---------------------------- MODULE StrupleView ----------------------------
(***************************************************************************)
(* Navigation (the struple_view functions): loops of skip() and            *)
(* next_view() over a borrowed buffer.  Every call starts over; nothing    *)
(* is kept between calls but the view the caller holds.                    *)
(***************************************************************************)
EXTENDS StrupleValues

CONSTANTS
    Buffers,    \* the byte strings viewed first
    Indices     \* the index and n arguments

ASSUME ViewAssumption == Buffers \subseteq Seq(Byte) /\ Indices \subseteq Nat

VARIABLES
    view,    \* the bytes of the view the caller holds
    call,    \* the scan being executed: [op, index]
    i,       \* elements passed (0 between calls)
    pos,     \* the reader's position (0 between calls)
    reply    \* [rc, bytes]: the last call's return code and out view, if it returned

vars == <<view, call, i, pos, reply>>

NoCall == [op |-> "none", index |-> 0]
Empty  == <<>>
NoReply == [rc |-> 0, bytes |-> Empty]

Init ==
    /\ view \in Buffers
    /\ call = NoCall
    /\ i = 0
    /\ pos = 0
    /\ reply = NoReply

(* struple_view_count, _at (and _head, index 0), _nth_rest and _take. *)
Start(op, n) ==
    /\ call = NoCall
    /\ call' = [op |-> op, index |-> n]
    /\ reply' = NoReply
    /\ UNCHANGED <<view, i, pos>>

(* Variant with a bug: one skip too many. *)
OneTooMany(span) ==
    /\ call # NoCall
    /\ call.op \in {"nth_rest", "take"} => i <= call.index
    /\ span.rc = 1
    /\ ~(call.op = "at" /\ i = call.index)

(* Does the loop go round again?  nth_rest and take stop after n skips, at *)
(* when it holds the element it wants; the others at the end or an error.  *)
GoesOn(span) ==
    /\ call # NoCall
    /\ call.op \in {"nth_rest", "take"} => i < call.index
    /\ span.rc = 1
    /\ ~(call.op = "at" /\ i = call.index)

(* Variants with a bug: counting down, a span's end taken for its length. *)
CountedDown ==
    \E span \in {ElementSpan(view, pos)} :
        /\ GoesOn(span)
        /\ pos' = span.end
        /\ i' = i - 1
        /\ UNCHANGED <<view, call, reply>>
EndIsLength ==
    \E span \in {ElementSpan(view, pos)} :
        /\ GoesOn(span)
        /\ pos' = pos + span.end
        /\ i' = i + 1
        /\ UNCHANGED <<view, call, reply>>

Pass ==
    \E span \in {ElementSpan(view, pos)} :
        /\ GoesOn(span)
        /\ pos' = span.end
        /\ i' = i + 1
        /\ UNCHANGED <<view, call, reply>>

Outcome(span) ==
    CASE call.op = "count" -> [rc |-> IF span.rc = 0 THEN i ELSE -1, bytes |-> Empty]
      [] call.op = "at" ->
            [rc |-> span.rc,
             bytes |-> IF span.rc = 1 THEN SubSeq(view, pos + 1, span.end) ELSE Empty]
      [] call.op = "nth_rest" -> [rc |-> 1, bytes |-> SubSeq(view, pos + 1, Len(view))]
      [] call.op = "take"     -> [rc |-> 1, bytes |-> SubSeq(view, 1, pos)]

Finish ==
    \E span \in {ElementSpan(view, pos)} :
        /\ call # NoCall
        /\ ~GoesOn(span)
        /\ reply' = Outcome(span)
        /\ call' = NoCall
        /\ i' = 0
        /\ pos' = 0
        /\ UNCHANGED view

(* struple_view_tail: one next_view whose return code is not looked at. *)
ViewTail ==
    \E span \in {ElementSpan(view, 0)} :
        /\ call = NoCall
        /\ reply' = [rc |-> 1, bytes |->
                       IF span.rc = 1 THEN SubSeq(view, span.end + 1, Len(view)) ELSE view]
        /\ UNCHANGED <<view, call, i, pos>>

(* struple_view_contained_items: the unescaped contents of a container at  *)
(* the head.                                                               *)
ContainedItems ==
    \E r \in {Next(view, 0)} :
        /\ call = NoCall
        /\ reply' = IF r.rc = 1 /\ r.el.kind \in {"array", "map", "set"}
                    THEN [rc |-> 1, bytes |-> r.el.data]
                    ELSE [rc |-> IF r.rc = 1 THEN 0 ELSE r.rc, bytes |-> Empty]
        /\ UNCHANGED <<view, call, i, pos>>

(* The caller navigates on in the view it was given. *)
Follow ==
    /\ call = NoCall
    /\ reply.rc = 1
    /\ view' = reply.bytes
    /\ UNCHANGED <<call, i, pos, reply>>

LoopStep == Pass \/ Finish

ViewNext ==
    \/ LoopStep
    \/ Start("count", 0)
    \/ \E op \in {"at", "nth_rest", "take"}, n \in Indices : Start(op, n)
    \/ ViewTail
    \/ ContainedItems
    \/ Follow

Spec == Init /\ [][ViewNext]_vars /\ WF_vars(LoopStep)

-----------------------------------------------------------------------------
TypeOK ==
    /\ view \in Seq(Byte)
    /\ call.op \in {"none", "count", "at", "nth_rest", "take"}
    /\ i \in Nat
    /\ pos \in Nat
    /\ reply.rc \in Int
    /\ reply.bytes \in Seq(Byte)

(* A scan is where i elements end, and never leaves the view. *)
ScanSynchronised ==
    call # NoCall =>
      /\ pos <= Len(view)
      /\ i <= Len(Split[view])
      /\ SubSeq(view, 1, pos) = FlattenSeq(SubSeq(Split[view], 1, i))

(* Every function answers as if the tuple had been split once, and on      *)
(* malformed bytes all of them agree where the elements end: count errs    *)
(* and at() finds exactly the elements before, nth_rest and take cut at    *)
(* the same place and lose no byte, tail is nth_rest(1).                   *)
Residue(b) == SubSeq(b, Len(FlattenSeq(Split[b])) + 1, Len(b))

Abstract == INSTANCE TupleView WITH
               items   <- Split[view],
               residue <- Residue(view),
               asked   <- call

AnswersFromTuple == Abstract!Spec
=============================================================================
