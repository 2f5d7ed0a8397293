----------------------------- MODULE StrupleMap -----------------------------
(***************************************************************************)
(* Lookup in an encoded map (src/c/struple.c, map navigation and indexed   *)
(* map): struple_map_get scans the inner stream, struple_indexed_map_init  *)
(* materialises it once and struple_indexed_map_find searches the index.   *)
(*                                                                         *)
(* A key's bytes are abstracted to a natural number with the same order    *)
(* (struple_compare is then integer comparison), the stream to the key /   *)
(* value pairs struple_map_next yields and what follows the last of them.  *)
(***************************************************************************)
EXTENDS Integers, Sequences

CONSTANTS
    Streams,    \* the inner streams: [pairs, tail]
    Values,     \* the encoded values
    Sought,     \* the keys looked up
    NoValue,    \* contents of an out parameter nothing was written to
    FirstCap    \* entries in the first allocation of an index (8)

(* After the last pair: end of stream, a key without a value, or a         *)
(* malformed element.                                                      *)
Tails == {"end", "odd", "bad"}
Pair  == [key : Nat, value : Values]

ASSUME StreamAssumption == Streams \subseteq [pairs : Seq(Pair), tail : Tails]
ASSUME SoughtAssumption == Sought \subseteq Nat
ASSUME CapAssumption    == FirstCap \in Nat \ {0}

VARIABLES
    inner,      \* the stream, borrowed and never written
    pc,         \* "idle", or the loop being executed
    key,        \* the key argument of the current or last lookup
    at,         \* pairs consumed by the current scan or build
    entries,    \* the index array
    cap,        \* its allocated length while it is built
    built,      \* struple_indexed_map_init succeeded and was not freed
    lo, hi,     \* the binary search window
    initRc,     \* the last struple_indexed_map_init's return code
    reply       \* [rc, value]: the last lookup's return code and out value

vars == <<inner, pc, key, at, entries, cap, built, lo, hi, initRc, reply>>

NoKey    == -1
NotFound == [rc |-> 0, value |-> NoValue]
Found(v) == [rc |-> 1, value |-> v]

Init ==
    /\ inner \in Streams
    /\ pc = "idle"
    /\ key = NoKey
    /\ at = 0
    /\ entries = <<>>
    /\ cap = 0
    /\ built = FALSE
    /\ lo = 0
    /\ hi = 0
    /\ initRc = 0
    /\ reply = NotFound

-----------------------------------------------------------------------------
(* struple_map_get: a fresh iterator, then one pair per turn of the loop.  *)
StartGet(k) ==
    /\ pc = "idle"
    /\ pc' = "scan"
    /\ key' = k
    /\ at' = 0
    /\ UNCHANGED <<inner, entries, cap, built, lo, hi, initRc, reply>>

(* A smaller key is passed over. *)
ScanNext ==
    /\ pc = "scan"
    /\ at < Len(inner.pairs)
    /\ inner.pairs[at + 1].key < key
    /\ at' = at + 1
    /\ UNCHANGED <<inner, pc, key, entries, cap, built, lo, hi, initRc, reply>>

(* Variant with a bug: where the scan stops is taken for the key. *)
StoppedIsFound ==
    /\ pc = "scan"
    /\ at < Len(inner.pairs) => inner.pairs[at + 1].key >= key
    /\ reply' = IF at < Len(inner.pairs) THEN Found(inner.pairs[at + 1].value) ELSE NotFound
    /\ pc' = "idle"
    /\ UNCHANGED <<inner, key, at, entries, cap, built, lo, hi, initRc>>

(* The key is there, or the scan is past its place, or struple_map_next    *)
(* stopped returning 1: at the end of the stream and on an error alike.    *)
ScanStop ==
    /\ pc = "scan"
    /\ at < Len(inner.pairs) => inner.pairs[at + 1].key >= key
    /\ reply' = IF at < Len(inner.pairs) /\ inner.pairs[at + 1].key = key
                THEN Found(inner.pairs[at + 1].value) ELSE NotFound
    /\ pc' = "idle"
    /\ UNCHANGED <<inner, key, at, entries, cap, built, lo, hi, initRc>>

-----------------------------------------------------------------------------
(* struple_indexed_map_init: one pass over the stream. *)
StartInit ==
    /\ pc = "idle"
    /\ ~built
    /\ pc' = "build"
    /\ at' = 0
    /\ entries' = <<>>
    /\ cap' = 0
    /\ UNCHANGED <<inner, key, built, lo, hi, initRc, reply>>

(* The array is doubled when the next entry does not fit. *)
BuildNext ==
    /\ pc = "build"
    /\ at < Len(inner.pairs)
    /\ entries' = Append(entries, inner.pairs[at + 1])
    /\ cap' = IF Len(entries) + 1 > cap THEN (IF cap = 0 THEN FirstCap ELSE 2 * cap) ELSE cap
    /\ at' = at + 1
    /\ UNCHANGED <<inner, pc, key, built, lo, hi, initRc, reply>>

(* realloc may fail: the entries so far are freed. *)
BuildOutOfMemory ==
    /\ pc = "build"
    /\ at < Len(inner.pairs)
    /\ Len(entries) + 1 > cap
    /\ entries' = <<>>
    /\ initRc' = -1
    /\ pc' = "idle"
    /\ UNCHANGED <<inner, key, at, cap, built, lo, hi, reply>>

(* Variant with a bug: the entries before an error are left behind. *)
PartialIndexLeft ==
    /\ pc = "build"
    /\ at = Len(inner.pairs)
    /\ built' = (inner.tail = "end")
    /\ initRc' = IF inner.tail = "end" THEN 0 ELSE -1
    /\ pc' = "idle"
    /\ UNCHANGED <<inner, key, at, entries, cap, lo, hi, reply>>

(* A stream that does not end cleanly gives no index at all. *)
BuildStop ==
    /\ pc = "build"
    /\ at = Len(inner.pairs)
    /\ built' = (inner.tail = "end")
    /\ entries' = IF inner.tail = "end" THEN entries ELSE <<>>
    /\ initRc' = IF inner.tail = "end" THEN 0 ELSE -1
    /\ pc' = "idle"
    /\ UNCHANGED <<inner, key, at, cap, lo, hi, reply>>

(* struple_indexed_map_free. *)
FreeIndex ==
    /\ pc = "idle"
    /\ built
    /\ built' = FALSE
    /\ entries' = <<>>
    /\ UNCHANGED <<inner, pc, key, at, cap, lo, hi, initRc, reply>>

-----------------------------------------------------------------------------
(* Variant with a bug: the window is the allocation, not the entries. *)
WindowIsCapacity(k) ==
    /\ pc = "idle"
    /\ built
    /\ pc' = "find"
    /\ key' = k
    /\ lo' = 0
    /\ hi' = cap
    /\ UNCHANGED <<inner, at, entries, cap, built, initRc, reply>>

(* struple_indexed_map_find and _get: binary search over the index. *)
StartFind(k) ==
    /\ pc = "idle"
    /\ built
    /\ pc' = "find"
    /\ key' = k
    /\ lo' = 0
    /\ hi' = Len(entries)
    /\ UNCHANGED <<inner, at, entries, cap, built, initRc, reply>>

Mid == lo + (hi - lo) \div 2

(* The probed entry is not the key: one bound moves. *)
Narrow(newLo, newHi) ==
    /\ pc = "find"
    /\ lo < hi
    /\ entries[Mid + 1].key # key
    /\ lo' = IF entries[Mid + 1].key < key THEN newLo ELSE lo
    /\ hi' = IF entries[Mid + 1].key < key THEN hi ELSE newHi
    /\ UNCHANGED <<inner, pc, key, at, entries, cap, built, initRc, reply>>

(* Variants with a bug in the new bounds: hi falls below 0, hi passes over *)
(* an entry, lo does not move past the probed entry.                       *)
HighBelowZero == Narrow(Mid + 1, Mid - 1)
EntryPassed   == Narrow(Mid + 1, IF Mid > lo THEN Mid - 1 ELSE lo)
LowStays      == Narrow(Mid, Mid)

(* One half of the window is dropped, the probed entry with it. *)
FindNarrow == Narrow(Mid + 1, Mid)

FindStop ==
    /\ pc = "find"
    /\ lo < hi => entries[Mid + 1].key = key
    /\ reply' = IF lo < hi THEN Found(entries[Mid + 1].value) ELSE NotFound
    /\ pc' = "idle"
    /\ UNCHANGED <<inner, key, at, entries, cap, built, lo, hi, initRc>>

LoopStep ==
    \/ ScanNext \/ ScanStop
    \/ BuildNext \/ BuildOutOfMemory \/ BuildStop
    \/ FindNarrow \/ FindStop

Call ==
    \/ \E k \in Sought : StartGet(k) \/ StartFind(k)
    \/ StartInit
    \/ FreeIndex

Next == LoopStep \/ Call

(* A loop that was entered is executed: the library is plain sequential    *)
(* code and no call waits for anything.  Callers owe no further calls.     *)
Spec == Init /\ [][Next]_vars /\ WF_vars(LoopStep)

-----------------------------------------------------------------------------
TypeOK ==
    /\ inner \in [pairs : Seq(Pair), tail : Tails]
    /\ pc \in {"idle", "scan", "build", "find"}
    /\ key \in Nat \cup {NoKey}
    /\ at \in Nat
    /\ entries \in Seq(Pair)
    /\ cap \in Nat
    /\ built \in BOOLEAN
    /\ lo \in Nat
    /\ hi \in Nat
    /\ initRc \in {-1, 0}
    /\ reply \in [rc : {0, 1}, value : Values \cup {NoValue}]

(* Every array access of the two loops is inside its array, for any stream *)
(* at all, sorted or not.                                                  *)
AccessInBounds ==
    /\ pc \in {"scan", "build"} => at <= Len(inner.pairs)
    /\ pc = "build" => Len(entries) = at /\ at <= cap
    /\ pc = "find" => lo <= hi /\ hi <= Len(entries)

(* An index that was built holds exactly the stream's pairs, in order; one *)
(* that failed half-way holds nothing.                                     *)
IndexIsStream ==
    pc # "build" => entries = IF built THEN inner.pairs ELSE <<>>

(* Entries in canonical order; equal keys, which struple_append_map does   *)
(* not remove, are allowed.                                                *)
SortedPairs(s) == \A i, j \in DOMAIN s : i < j => s[i].key <= s[j].key

Sorted == SortedPairs(inner.pairs)

(* On a sorted map neither search ever discards the key it looks for: what *)
(* the scan passed and what the window excludes differ from it.            *)
NothingDiscarded ==
    Sorted =>
      /\ pc = "scan" => \A i \in 1..at : inner.pairs[i].key < key
      /\ pc = "find" => /\ \A i \in 1..lo : entries[i].key < key
                        /\ \A i \in (hi + 1)..Len(entries) : entries[i].key > key

(* Both lookups implement the abstract map: each call answers as           *)
(* OrderedMap says, and does answer.  The promise is for streams that end  *)
(* cleanly, in canonical order; what is asked of others is not seen        *)
(* through it.                                                             *)
Sound    == Sorted /\ inner.tail = "end"
Contents == {<<inner.pairs[i].key, inner.pairs[i].value>> : i \in DOMAIN inner.pairs}
Asked    == IF Sound /\ pc \in {"scan", "find"} THEN key ELSE NoKey
Answered == IF Sound THEN reply ELSE NotFound

Abstract == INSTANCE OrderedMap WITH
               contents <- Contents,
               asked    <- Asked,
               reply    <- Answered

ImplementsMap == Abstract!Spec

(* struple.h:188 on struple_map_get, "1 found (fills *out), 0 not found,   *)
(* -1 error": a scan that comes to a key without a value or to a malformed *)
(* element answers -1, not what it answers when the key is not there.      *)
MeetsError == pc = "scan" /\ at = Len(inner.pairs) /\ inner.tail # "end"

ErrorsReported == [][MeetsError /\ pc' = "idle" => reply'.rc = -1]_vars

(* Every call returns. *)
CallsReturn == pc # "idle" ~> pc = "idle"
=============================================================================
