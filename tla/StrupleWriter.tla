---------------------------- MODULE StrupleWriter ----------------------------
(***************************************************************************)
(* struple_writer: growable buffers filled by the append calls.  Several   *)
(* writers are in use at once, because a container is packed into a child  *)
(* writer first and its bytes are then framed into the parent.             *)
(***************************************************************************)
EXTENDS StrupleValues, StrupleDecimalText

CONSTANTS
    Writers,      \* the writers in use
    Leaves,       \* the element arguments of the scalar append calls
    Texts,        \* the arguments of struple_append_decimal_string
    InitialCap,   \* first allocation in bytes (64)
    Within(_)     \* bound: the contents (a value of data) the writers may reach

(* A scalar append call: containers have calls of their own, and the       *)
(* exponent of a decimal is an int32_t.                                    *)
ScalarArgument(e) ==
    /\ e.kind \notin {"array", "set", "map"}
    /\ e.kind = "decimal" => InExpRange(e.exp)

ASSUME WriterAssumption ==
    /\ InitialCap \in Nat \ {0}
    /\ Leaves \subseteq Encodable /\ \A e \in Leaves : ScalarArgument(e)
    /\ Texts \subseteq Seq(Characters)

(* No scalar appended is an integer that next() loses. *)
LeavesKept == \A e \in Leaves : KeptElement(e)

VARIABLES
    data,     \* data[w]: the w->len bytes written
    cap,      \* cap[w]: bytes allocated
    call      \* the last call, its argument and, where it has one, its result

vars == <<data, cap, call>>

TypeOK ==
    /\ data \in [Writers -> Seq(Byte)]
    /\ cap \in [Writers -> Nat]

Init ==
    /\ data = [w \in Writers |-> <<>>]
    /\ cap = [w \in Writers |-> 0]
    /\ call = [op |-> "none"]

(* Variant with a bug: off by one in the capacity test. *)
GrownLate(c, needed) ==
    LET enough[n \in Nat \ {0}] == IF n >= needed THEN n ELSE enough[2 * n]
    IN  IF needed <= c + 1 THEN c ELSE enough[IF c = 0 THEN InitialCap ELSE c]

(* sw_reserve: keep the allocation when it suffices, else double it from   *)
(* the current size (or from the first allocation) until it does.          *)
Grown(c, needed) ==
    LET enough[n \in Nat \ {0}] == IF n >= needed THEN n ELSE enough[2 * n]
    IN  IF needed <= c THEN c ELSE enough[IF c = 0 THEN InitialCap ELSE c]

(* Append bytes to w; a call that appends nothing allocates nothing. *)
Emit(w, bytes) ==
    /\ data' = [data EXCEPT ![w] = @ \o bytes]
    /\ Within(data')
    /\ cap' = [cap EXCEPT ![w] = IF bytes = <<>> THEN @
                                 ELSE Grown(@, Len(data[w]) + Len(bytes))]

(* struple_append_nil ... struple_append_bytes: one scalar element. *)
AppendLeaf(w, e) ==
    /\ Emit(w, EncElement(e))
    /\ call' = [op |-> "leaf", w |-> w, arg |-> e,
                rc |-> IF e.kind = "decimal" /\ DecimalRejected(e.digits, e.exp) THEN -1 ELSE 0]

(* struple_append_decimal_string. *)
AppendDecimalString(w, text) ==
    /\ Emit(w, EncDecimalText(text))
    /\ call' = [op |-> "leaf", w |-> w, arg |-> [kind |-> "text", chars |-> text],
                rc |-> IF TextRejected(text) THEN -1 ELSE 0]

(* struple_append_array: the child writer's bytes, framed. *)
AppendArray(w, c) ==
    /\ Emit(w, EncFramed(ARRAY, data[c]))
    /\ call' = [op |-> "array", w |-> w, arg |-> c]

(* struple_append_set: each element of the child writer is one member. *)
AppendSet(w, c) ==
    /\ \E p \in Arrangements(Split[data[c]]) :
          Emit(w, EncFramed(SET, SetInner(Split[data[c]], p)))
    /\ call' = [op |-> "set", w |-> w, arg |-> c]

(* struple_append_map: elements of the child writer alternate as key and   *)
(* value.  Keys are distinct: the code documents no rule for duplicates.   *)
Entries(elems) ==
    [i \in 1..(Len(elems) \div 2) |-> [key |-> elems[2*i - 1], value |-> elems[2*i]]]
Keys(elems) == [i \in 1..(Len(elems) \div 2) |-> elems[2*i - 1]]

AppendMap(w, c) ==
    LET elems == Split[data[c]]
    IN  /\ Len(elems) % 2 = 0
        /\ IsInjective(Keys(elems))
        /\ \E p \in Arrangements(Keys(elems)) :
              Emit(w, EncFramed(MAP, MapInner(Entries(elems), p)))
        /\ call' = [op |-> "map", w |-> w, arg |-> c]

(* struple_writer_append: raw bytes, here another writer's elements. *)
Concat(w, c) ==
    /\ Emit(w, data[c])
    /\ call' = [op |-> "concat", w |-> w, arg |-> c]

(* Variant with a bug: a free gives back the first allocation only. *)
FirstBlockFreed(w) ==
    /\ data' = [data EXCEPT ![w] = <<>>]
    /\ cap' = [cap EXCEPT ![w] = @ - InitialCap]
    /\ call' = [op |-> "clear", w |-> w]

(* struple_writer_reset keeps the allocation, struple_writer_free does not. *)
Reset(w) ==
    /\ data' = [data EXCEPT ![w] = <<>>]
    /\ call' = [op |-> "clear", w |-> w]
    /\ UNCHANGED cap

Free(w) ==
    /\ data' = [data EXCEPT ![w] = <<>>]
    /\ cap' = [cap EXCEPT ![w] = 0]
    /\ call' = [op |-> "clear", w |-> w]

WriterNext ==
    \E w \in Writers :
        \/ \E e \in Leaves : AppendLeaf(w, e)
        \/ \E text \in Texts : AppendDecimalString(w, text)
        \/ \E c \in Writers \ {w} :
              \/ AppendArray(w, c)
              \/ AppendSet(w, c)
              \/ AppendMap(w, c)
              \/ Concat(w, c)
        \/ Reset(w)
        \/ Free(w)

Spec == Init /\ [][WriterNext]_vars

-----------------------------------------------------------------------------
(* Decoding a writer's bytes and appending every element to a fresh writer *)
(* reproduces the bytes: an encoding is canonical.                         *)
Canonical == \A w \in Writers : Transcoded[data[w]] = data[w]

(* sw_reserve runs before every write: whatever mix of appends, resets and *)
(* frees came before, every byte written lies in the allocation.           *)
WithinAllocation == \A w \in Writers : Len(data[w]) <= cap[w]

(* The writers implement the abstract store: reading the bytes back gives  *)
(* exactly the values appended, in order; a rejected decimal emits         *)
(* nothing, and the text of a number adds the decimal its grammar denotes. *)
ArgumentValue(e) ==
    ScalarValue(IF e.kind = "text" THEN LiteralDecimal(e.chars) ELSE e)
ArgumentRejected(e) ==
    CASE e.kind = "text"    -> ~DenotesDecimal(e.chars)
      [] e.kind = "decimal" -> DecimalRejected(e.digits, e.exp)
      [] OTHER -> FALSE

Store == INSTANCE TupleStore WITH
            tuple    <- [w \in Writers |-> Unpack[data[w]]],
            Leaves   <- Leaves \cup {[kind |-> "text", chars |-> t] : t \in Texts},
            ValueOf  <- ArgumentValue,
            Rejected <- ArgumentRejected

ImplementsStore == Store!Spec
=============================================================================
