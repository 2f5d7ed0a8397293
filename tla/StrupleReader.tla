---------------------------- MODULE StrupleReader ----------------------------
(***************************************************************************)
(* struple_reader: a cursor over one borrowed buffer, driven by a caller   *)
(* that mixes next(), next_view() and skip() in any order and may go on    *)
(* calling after an error.  peek_type() and rest() are pure (operators).   *)
(***************************************************************************)
EXTENDS StrupleDecode

CONSTANT Buffers    \* the byte strings a reader may be initialised with

ASSUME BufferAssumption == Buffers \subseteq Seq(Byte)

VARIABLES
    buf,     \* r->buf, r->len: the borrowed bytes, never written
    pos,     \* r->pos: bytes consumed
    from,    \* where the last call started
    ret,     \* the last call's return code (1 before the first call)
    el,      \* the element the last next() produced
    failed   \* some call has returned -1

vars == <<buf, pos, from, ret, el, failed>>

ReturnCode == {-1, 0, 1}

TypeOK ==
    /\ buf \in Seq(Byte)
    /\ pos \in Nat
    /\ from \in Nat
    /\ ret \in ReturnCode
    /\ failed \in BOOLEAN

Init ==
    /\ buf \in Buffers
    /\ pos = 0
    /\ from = 0
    /\ ret = 1
    /\ el = NoElement
    /\ failed = FALSE

(* Variant with a bug: the end is tested after the read. *)
EndTestedLate ==
    LET r == Next(buf, pos)
    IN  /\ pos' = r.pos
        /\ ret' = IF r.rc = 1 /\ r.pos = Len(buf) THEN 0 ELSE r.rc
        /\ el' = r.el
        /\ from' = pos
        /\ failed' = (failed \/ r.rc = -1)
        /\ UNCHANGED buf

(* struple_reader_next: decode the element at pos. *)
CallNext ==
    LET r == Next(buf, pos)
    IN  /\ pos' = r.pos
        /\ ret' = r.rc
        /\ el' = r.el
        /\ from' = pos
        /\ failed' = (failed \/ r.rc = -1)
        /\ UNCHANGED buf

(* Variant with a bug: a rejected span puts a type code back. *)
TypeCodePutBack ==
    LET s == ElementSpan(buf, pos)
    IN  /\ pos' = IF s.rc = 1 THEN s.end ELSE pos - 1
        /\ ret' = s.rc
        /\ el' = NoElement
        /\ from' = pos
        /\ failed' = (failed \/ s.rc = -1)
        /\ UNCHANGED buf

(* struple_reader_next_view and struple_reader_skip: pos moves only when   *)
(* the span is accepted; skip() drops the view.                            *)
CallNextView ==
    LET s == ElementSpan(buf, pos)
    IN  /\ pos' = IF s.rc = 1 THEN s.end ELSE pos
        /\ ret' = s.rc
        /\ el' = NoElement
        /\ from' = pos
        /\ failed' = (failed \/ s.rc = -1)
        /\ UNCHANGED buf

ReaderNext == CallNext \/ CallNextView

Spec == Init /\ [][ReaderNext]_vars

(* struple_reader_peek_type and struple_reader_rest. *)
PeekType == IF pos < Len(buf) THEN buf[pos + 1] ELSE -1
Rest     == Bytes(buf, pos, Len(buf) - pos)

-----------------------------------------------------------------------------
(* The offsets at which elements of b start or end, found by skipping only *)
(* (one skip per byte at most).                                            *)
SkipTo(b, p) == LET s == ElementSpan(b, p) IN IF s.rc = 1 THEN s.end ELSE p

Boundaries(b) ==
    LET at[n \in 0..Len(b)] == IF n = 0 THEN 0 ELSE SkipTo(b, at[n - 1])
    IN  {at[n] : n \in 0..Len(b)}

(* The cursor never leaves the buffer, whatever the bytes are and whatever *)
(* is called after an error: take() compares with r->len - r->pos, which   *)
(* would wrap if pos could pass len.                                       *)
PosInBounds == pos \in 0..Len(buf)

(* next() and next_view()/skip() may be mixed freely: until a call reports *)
(* an error, every element next() decodes ends where skip() would have     *)
(* ended it, so the cursor always stands on an element boundary.           *)
Synchronised == ~failed => pos \in Boundaries(buf)

(* Strict decode: the bytes of every integer next() accepts are the bytes  *)
(* the encoder writes for it.  The one integer decoded to a wrong          *)
(* magnitude (see ExcessFormExact) is left out here.                       *)
IsInt(e)  == e.kind \in {"int", "bigint"}
Consumed  == Bytes(buf, from, pos - from)
StrictInts ==
    ret = 1 /\ IsInt(el) /\ el.mag # <<0>> => EncInt(el.neg, el.mag) = Consumed

(* README.md, Integers: "negatives in *excess* form (value + 2^(8*width))".*)
(* The magnitude decoded for a negative slot, of an integer element or of  *)
(* the exponent inside a decimal, is 2^(8*width) less the slot, and so     *)
(* never zero: the borrow of an all-zero slot is kept at every width.      *)
IntSlotExact ==
    LET code == buf[from + 1]
    IN  IsInt(el) /\ code \in FixedNeg =>
            el.neg /\ Trimmed(el.mag) = SlotMagnitude(Bytes(buf, from + 1, SlotWidth(code)))

ExponentSlotExact ==
    el.kind = "decimal" /\ el.digits # <<>> =>
        LET code == Signed(el.neg, Bytes(buf, from + 2, 1))[1]
            slot == Signed(el.neg, Bytes(buf, from + 3, SlotWidth(code)))
        IN  code \in FixedNeg => ToBE(-(el.exp + Len(el.digits))) = SlotMagnitude(slot)

ExcessFormExact == ret = 1 => IntSlotExact /\ ExponentSlotExact

(* A successful call consumes at least one byte, end of stream consumes    *)
(* none and is reported exactly when nothing is left: a caller looping on  *)
(* 1 always stops.                                                         *)
Progress ==
    [][/\ ret' = 1 => pos' > pos
       /\ ret' = 0 <=> pos = Len(buf)
       /\ pos' >= pos]_vars

(* An element is self-delimiting: what follows it in the buffer never      *)
(* changes how it is decoded, as long as what follows begins with a type   *)
(* code (never 0xFF).  Nested containers and struple_writer_append rely on *)
(* it.                                                                     *)
DecodedAlike ==
    CallNext /\ ret' = 1 =>
        \A b \in Bare \cup {ARRAY} : Next(Bytes(buf, pos, pos' - pos) \o <<b>>, 0).el = el'
SelfDelimiting == [][DecodedAlike]_vars
=============================================================================
