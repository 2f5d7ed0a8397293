-------------------------- MODULE StrupleMapProofs --------------------------
(***************************************************************************)
(* Proofs about StrupleMap, for every stream, every set of keys and every  *)
(* allocation size.                                                        *)
(*                                                                         *)
(* The safety invariants are not inductive by themselves: that the index   *)
(* is the stream needs what the build loop has copied so far (BuildPrefix) *)
(* and that a search runs only over a built index (SearchBuilt).           *)
(***************************************************************************)
EXTENDS StrupleMap, SequenceTheorems, TLAPS

BuildPrefix ==
    pc = "build" => ~built /\ \A i \in 1..at : entries[i] = inner.pairs[i]

SearchBuilt ==
    /\ pc = "find" => built
    /\ pc \in {"scan", "find"} => key \in Nat

IInv ==
    /\ TypeOK
    /\ AccessInBounds
    /\ BuildPrefix
    /\ SearchBuilt
    /\ IndexIsStream
    /\ NothingDiscarded

-----------------------------------------------------------------------------
(* Two sequences of the same length with the same elements are equal.      *)
LEMMA SeqExtensional ==
    ASSUME NEW S, NEW s \in Seq(S), NEW t \in Seq(S),
           Len(s) = Len(t), \A i \in 1..Len(s) : s[i] = t[i]
    PROVE  s = t
  BY SeqEqual

(* The probe lies in the window it is taken from.                          *)
LEMMA MidInWindow ==
    ASSUME lo \in Nat, hi \in Nat, lo < hi
    PROVE  Mid \in Nat /\ lo <= Mid /\ Mid < hi
  BY DEF Mid

LEMMA InitIInv == Init => IInv
  <1> SUFFICES ASSUME Init PROVE IInv
    OBVIOUS
  <1>1. inner \in [pairs : Seq(Pair), tail : Tails]
    BY StreamAssumption DEF Init
  <1>2. TypeOK
    <2>1. <<>> \in Seq(Pair)
      OBVIOUS
    <2>2. NotFound \in [rc : {0, 1}, value : Values \cup {NoValue}]
      BY DEF NotFound
    <2>3. QED
      BY <1>1, <2>1, <2>2 DEF Init, TypeOK
  <1>3. AccessInBounds /\ BuildPrefix /\ SearchBuilt /\ IndexIsStream /\ NothingDiscarded
    BY DEF Init, AccessInBounds, BuildPrefix, SearchBuilt, IndexIsStream, NothingDiscarded
  <1>4. QED
    BY <1>2, <1>3 DEF IInv

(* A pair of the stream or of the index has a numeric key.                 *)
LEMMA PairTyping ==
    ASSUME TypeOK
    PROVE  /\ \A i \in 1..Len(inner.pairs) : inner.pairs[i] \in Pair
           /\ \A i \in 1..Len(entries) : entries[i] \in Pair
           /\ Len(inner.pairs) \in Nat
           /\ Len(entries) \in Nat
  BY DEF TypeOK

LEMMA NextTypeOK == TypeOK /\ SearchBuilt /\ AccessInBounds /\ [Next]_vars => TypeOK'
  <1> SUFFICES ASSUME TypeOK, SearchBuilt, AccessInBounds, [Next]_vars PROVE TypeOK'
    OBVIOUS
  <1>1. ASSUME NEW k \in Sought, StartGet(k) PROVE TypeOK'
    BY <1>1, SoughtAssumption DEF StartGet, TypeOK
  <1>2. ASSUME NEW k \in Sought, StartFind(k) PROVE TypeOK'
    BY <1>2, SoughtAssumption DEF StartFind, TypeOK
  <1>3. CASE StartInit
    BY <1>3 DEF StartInit, TypeOK
  <1>4. CASE FreeIndex
    <2>1. <<>> \in Seq(Pair)
      OBVIOUS
    <2>2. entries' = <<>> /\ built' = FALSE
      BY <1>4, Zenon DEF FreeIndex
    <2>3. UNCHANGED <<inner, pc, key, at, cap, lo, hi, initRc, reply>>
      BY <1>4, Zenon DEF FreeIndex
    <2>4. QED
      BY <2>1, <2>2, <2>3 DEF TypeOK
  <1>5. CASE ScanNext
    BY <1>5 DEF ScanNext, TypeOK
  <1>6. CASE ScanStop
    <2>1. reply' \in [rc : {0, 1}, value : Values \cup {NoValue}]
      BY <1>6, PairTyping DEF ScanStop, TypeOK, Found, NotFound, Pair
    <2>2. QED
      BY <1>6, <2>1 DEF ScanStop, TypeOK
  <1>7. CASE BuildNext
    <2>1. entries' \in Seq(Pair)
      BY <1>7, PairTyping DEF BuildNext, TypeOK
    <2>2. cap' \in Nat
      BY <1>7, CapAssumption DEF BuildNext, TypeOK
    <2>3. QED
      BY <1>7, <2>1, <2>2 DEF BuildNext, TypeOK
  <1>8. CASE BuildOutOfMemory
    BY <1>8 DEF BuildOutOfMemory, TypeOK
  <1>9. CASE BuildStop
    BY <1>9 DEF BuildStop, TypeOK
  <1>10. CASE FindNarrow
    BY <1>10, MidInWindow DEF FindNarrow, Narrow, TypeOK
  <1>11. CASE FindStop
    <2>1. reply' \in [rc : {0, 1}, value : Values \cup {NoValue}]
      <3>1. CASE lo < hi
        <4>1. Mid + 1 \in 1..Len(entries)
          BY <1>11, <3>1, MidInWindow, PairTyping DEF FindStop, AccessInBounds, TypeOK
        <4>2. QED
          BY <1>11, <3>1, <4>1, PairTyping DEF FindStop, Found, Pair
      <3>2. CASE ~(lo < hi)
        BY <1>11, <3>2 DEF FindStop, NotFound
      <3>3. QED
        BY <3>1, <3>2
    <2>2. QED
      BY <1>11, <2>1 DEF FindStop, TypeOK
  <1>12. CASE UNCHANGED vars
    BY <1>12 DEF vars, TypeOK
  <1>13. QED
    BY <1>1, <1>2, <1>3, <1>4, <1>5, <1>6, <1>7, <1>8, <1>9, <1>10, <1>11, <1>12
       DEF Next, LoopStep, Call

LEMMA NextAccessInBounds ==
    TypeOK /\ AccessInBounds /\ [Next]_vars => AccessInBounds'
  <1> SUFFICES ASSUME TypeOK, AccessInBounds, [Next]_vars PROVE AccessInBounds'
    OBVIOUS
  <1> USE PairTyping DEF AccessInBounds
  <1>1. ASSUME NEW k \in Sought, StartGet(k) PROVE AccessInBounds'
    BY <1>1 DEF StartGet
  <1>2. ASSUME NEW k \in Sought, StartFind(k) PROVE AccessInBounds'
    BY <1>2 DEF StartFind
  <1>3. CASE StartInit
    BY <1>3 DEF StartInit
  <1>4. CASE FreeIndex
    BY <1>4 DEF FreeIndex
  <1>5. CASE ScanNext
    BY <1>5 DEF ScanNext, TypeOK
  <1>6. CASE ScanStop
    BY <1>6 DEF ScanStop
  <1>7. CASE BuildNext
    <2>1. Len(entries') = at' /\ at' <= Len(inner'.pairs)
      BY <1>7 DEF BuildNext, TypeOK
    <2>2. at' <= cap'
      BY <1>7, CapAssumption DEF BuildNext, TypeOK
    <2>3. QED
      BY <1>7, <2>1, <2>2 DEF BuildNext
  <1>8. CASE BuildOutOfMemory
    BY <1>8 DEF BuildOutOfMemory
  <1>9. CASE BuildStop
    BY <1>9 DEF BuildStop
  <1>10. CASE FindNarrow
    BY <1>10, MidInWindow DEF FindNarrow, Narrow, TypeOK
  <1>11. CASE FindStop
    BY <1>11 DEF FindStop
  <1>12. CASE UNCHANGED vars
    BY <1>12 DEF vars
  <1>13. QED
    BY <1>1, <1>2, <1>3, <1>4, <1>5, <1>6, <1>7, <1>8, <1>9, <1>10, <1>11, <1>12
       DEF Next, LoopStep, Call

LEMMA NextSearchBuilt == SearchBuilt /\ [Next]_vars => SearchBuilt'
  <1> SUFFICES ASSUME SearchBuilt, [Next]_vars PROVE SearchBuilt'
    OBVIOUS
  <1> USE DEF SearchBuilt
  <1>1. ASSUME NEW k \in Sought, StartGet(k) \/ StartFind(k) PROVE SearchBuilt'
    BY <1>1, SoughtAssumption DEF StartGet, StartFind
  <1>2. CASE StartInit \/ FreeIndex
    BY <1>2 DEF StartInit, FreeIndex
  <1>3. CASE LoopStep
    BY <1>3 DEF LoopStep, ScanNext, ScanStop, BuildNext, BuildOutOfMemory, BuildStop,
                FindNarrow, Narrow, FindStop
  <1>4. CASE UNCHANGED vars
    BY <1>4 DEF vars
  <1>5. QED
    BY <1>1, <1>2, <1>3, <1>4 DEF Next, Call

LEMMA NextIndex ==
    /\ TypeOK /\ AccessInBounds /\ SearchBuilt /\ BuildPrefix /\ IndexIsStream
    /\ [Next]_vars
    => BuildPrefix' /\ IndexIsStream'
  <1> SUFFICES ASSUME TypeOK, AccessInBounds, SearchBuilt, BuildPrefix, IndexIsStream,
                      [Next]_vars
               PROVE  BuildPrefix' /\ IndexIsStream'
    OBVIOUS
  <1> USE DEF BuildPrefix, IndexIsStream
  <1>1. ASSUME NEW k \in Sought, StartGet(k) \/ StartFind(k) PROVE BuildPrefix' /\ IndexIsStream'
    BY <1>1 DEF StartGet, StartFind
  <1>2. CASE StartInit
    BY <1>2 DEF StartInit
  <1>3. CASE FreeIndex
    BY <1>3 DEF FreeIndex
  <1>4. CASE ScanNext \/ ScanStop \/ FindNarrow \/ FindStop
    BY <1>4 DEF ScanNext, ScanStop, FindNarrow, Narrow, FindStop
  <1>5. CASE BuildNext
    <2>1. Len(entries) = at /\ at \in Nat
      BY <1>5 DEF BuildNext, AccessInBounds, TypeOK
    <2>2. \A i \in 1..at : entries'[i] = entries[i]
      BY <1>5, <2>1, PairTyping DEF BuildNext, TypeOK
    <2>3. entries'[at + 1] = inner.pairs[at + 1]
      BY <1>5, <2>1, PairTyping DEF BuildNext, TypeOK
    <2>4. QED
      BY <1>5, <2>1, <2>2, <2>3 DEF BuildNext
  <1>6. CASE BuildOutOfMemory
    BY <1>6 DEF BuildOutOfMemory
  <1>7. CASE BuildStop
    <2>1. entries = inner.pairs
      BY <1>7, SeqExtensional, PairTyping DEF BuildStop, AccessInBounds, TypeOK
    <2>2. QED
      BY <1>7, <2>1 DEF BuildStop
  <1>8. CASE UNCHANGED vars
    BY <1>8 DEF vars
  <1>9. QED
    BY <1>1, <1>2, <1>3, <1>4, <1>5, <1>6, <1>7, <1>8 DEF Next, LoopStep, Call

(* The scan passes only smaller keys; in a sorted index, dropping the probe *)
(* and the half on its wrong side drops no equal key.                       *)
LEMMA NextNothingDiscarded == IInv /\ [Next]_vars => NothingDiscarded'
  <1> SUFFICES ASSUME IInv, [Next]_vars PROVE NothingDiscarded'
    OBVIOUS
  <1>0. /\ TypeOK /\ AccessInBounds /\ SearchBuilt /\ IndexIsStream /\ NothingDiscarded
        /\ inner' = inner
    BY DEF IInv, Next, LoopStep, Call, StartGet, StartFind, StartInit, FreeIndex, ScanNext,
           ScanStop, BuildNext, BuildOutOfMemory, BuildStop, FindNarrow, Narrow, FindStop, vars
  <1> SUFFICES ASSUME Sorted
               PROVE  /\ pc' = "scan" => \A i \in 1..at' : inner.pairs[i].key < key'
                      /\ pc' = "find" =>
                           /\ \A i \in 1..lo' : entries'[i].key < key'
                           /\ \A i \in (hi' + 1)..Len(entries') : entries'[i].key > key'
    BY <1>0 DEF NothingDiscarded, Sorted, SortedPairs
  <1>1. ASSUME NEW k \in Sought, StartGet(k) \/ StartFind(k) PROVE NothingDiscarded'
    BY <1>1, <1>0, PairTyping DEF StartGet, StartFind, NothingDiscarded
  <1>2. CASE ScanNext
    BY <1>2, <1>0, PairTyping DEF ScanNext, NothingDiscarded, TypeOK
  <1>3. CASE FindNarrow
    <2>1. entries = inner.pairs /\ lo < hi /\ key \in Nat
      BY <1>3, <1>0, Zenon DEF FindNarrow, Narrow, SearchBuilt, IndexIsStream
    <2>2. /\ Mid \in Nat /\ lo <= Mid /\ Mid < hi /\ hi <= Len(entries)
          /\ lo \in Nat /\ hi \in Nat /\ Len(entries) \in Nat
      BY <1>3, <1>0, <2>1, MidInWindow, PairTyping DEF FindNarrow, Narrow, AccessInBounds, TypeOK
    <2>3. \A i \in 1..Len(entries) : entries[i].key \in Nat
      BY <1>0, PairTyping DEF Pair
    <2>4. /\ \A i \in 1..(Mid + 1) : entries[i].key <= entries[Mid + 1].key
          /\ \A i \in (Mid + 1)..Len(entries) : entries[Mid + 1].key <= entries[i].key
      BY <1>0, <2>1, <2>2, <2>3, PairTyping, SMTT(30) DEF Sorted, SortedPairs, TypeOK
    <2>5. CASE entries[Mid + 1].key < key
      BY <1>3, <1>0, <2>1, <2>2, <2>3, <2>4, <2>5 DEF FindNarrow, Narrow, NothingDiscarded
    <2>6. CASE ~(entries[Mid + 1].key < key)
      <3>1. entries[Mid + 1].key > key
        BY <1>3, <2>1, <2>2, <2>3, <2>6 DEF FindNarrow, Narrow
      <3>2. QED
        BY <1>3, <1>0, <2>1, <2>2, <2>3, <2>4, <2>6, <3>1 DEF FindNarrow, Narrow, NothingDiscarded
    <2>7. QED
      BY <2>5, <2>6
  <1>4. CASE StartInit \/ FreeIndex \/ ScanStop \/ FindStop
    BY <1>4 DEF StartInit, FreeIndex, ScanStop, FindStop
  <1>5. CASE BuildNext \/ BuildOutOfMemory \/ BuildStop
    BY <1>5 DEF BuildNext, BuildOutOfMemory, BuildStop
  <1>6. CASE UNCHANGED vars
    BY <1>6, <1>0 DEF vars, NothingDiscarded
  <1>7. QED
    BY <1>1, <1>2, <1>3, <1>4, <1>5, <1>6, <1>0 DEF Next, LoopStep, Call, NothingDiscarded,
       Sorted, SortedPairs

LEMMA NextIInv == IInv /\ [Next]_vars => IInv'
  BY NextTypeOK, NextAccessInBounds, NextSearchBuilt, NextIndex, NextNothingDiscarded DEF IInv

(* The inductive invariant of building, scanning and searching: types,     *)
(* bounds, what the index holds, what the window has excluded.             *)
THEOREM Invariance == Spec => []IInv
  <1>1. QED
    BY InitIInv, NextIInv, PTL DEF Spec

(* The state of the map code keeps its types whatever the stream holds.    *)
THEOREM TypeCorrect == Spec => []TypeOK
  <1>1. IInv => TypeOK
    BY DEF IInv
  <1>2. QED
    BY <1>1, Invariance, PTL

(* No lookup or build reads or writes outside its array, on any stream,    *)
(* sorted or not, well-formed or not, of any length.                       *)
THEOREM BoundsSafe == Spec => []AccessInBounds
  <1>1. IInv => AccessInBounds
    BY DEF IInv
  <1>2. QED
    BY <1>1, Invariance, PTL

(* struple_indexed_map_init is all or nothing: the index of a well-formed  *)
(* stream is the stream, any failure (allocation included) leaves none.    *)
THEOREM IndexFaithful == Spec => []IndexIsStream
  <1>1. IInv => IndexIsStream
    BY DEF IInv
  <1>2. QED
    BY <1>1, Invariance, PTL

(* Neither the early exit of the scan nor the binary search ever excludes  *)
(* the key sought, in any sorted map, duplicate keys included.             *)
THEOREM SearchSound == Spec => []NothingDiscarded
  <1>1. IInv => NothingDiscarded
    BY DEF IInv
  <1>2. QED
    BY <1>1, Invariance, PTL

-----------------------------------------------------------------------------
(* On canonical maps the code implements OrderedMap.                       *)

SeqKey(i) == inner.pairs[i].key

(* A scan that stops has the answer the abstract map gives.                *)
LEMMA ScanAnswers ==
    ASSUME IInv, Sorted, ScanStop
    PROVE  reply' \in Abstract!Answers(key)
  <1> DEFINE n == Len(inner.pairs)
  <1>1. /\ n \in Nat /\ at \in Nat /\ at <= n /\ key \in Nat
        /\ \A i \in 1..n : inner.pairs[i] \in Pair
        /\ \A i \in 1..at : SeqKey(i) < key
        /\ DOMAIN inner.pairs = 1..n
    BY PairTyping DEF IInv, TypeOK, AccessInBounds, SearchBuilt, NothingDiscarded, ScanStop, SeqKey
  <1>2. CASE at < n /\ SeqKey(at + 1) = key
    <2>1. reply' = [rc |-> 1, value |-> inner.pairs[at + 1].value]
      BY <1>2 DEF ScanStop, Found, SeqKey
    <2>2. <<key, inner.pairs[at + 1].value>> \in Contents
      BY <1>1, <1>2 DEF Contents, SeqKey
    <2>3. QED
      BY <2>1, <2>2 DEF Abstract!Answers
  <1>3. CASE ~(at < n /\ SeqKey(at + 1) = key)
    <2>1. reply' = NotFound
      BY <1>3, <1>1 DEF ScanStop, SeqKey
    <2>2. \A i \in 1..n : SeqKey(i) # key
      <3>1. CASE at = n
        BY <3>1, <1>1 DEF SeqKey, Pair
      <3>2. CASE at < n
        <4>1. SeqKey(at + 1) > key
          BY <3>2, <1>1, <1>3 DEF ScanStop, SeqKey, Pair
        <4>2. \A i \in 1..n : SeqKey(i) \in Nat
          BY <1>1 DEF SeqKey, Pair
        <4>3. \A i \in (at + 1)..n : SeqKey(at + 1) <= SeqKey(i)
          <5>1. \A i, j \in 1..n : i < j => SeqKey(i) <= SeqKey(j)
            BY <1>1 DEF Sorted, SortedPairs, SeqKey
          <5>2. QED
            BY <5>1, <4>2, <3>2, <1>1
        <4>4. QED
          BY <4>1, <4>2, <4>3, <3>2, <1>1
      <3>3. QED
        BY <3>1, <3>2, <1>1
    <2>3. {p \in Contents : p[1] = key} = {}
      BY <2>2, <1>1 DEF Contents, SeqKey
    <2>4. QED
      BY <2>1, <2>3 DEF Abstract!Answers, Abstract!NotFound, NotFound
  <1>4. QED
    BY <1>2, <1>3

(* So has a binary search that stops.                                      *)
LEMMA FindAnswers ==
    ASSUME IInv, Sorted, FindStop
    PROVE  reply' \in Abstract!Answers(key)
  <1> DEFINE n == Len(inner.pairs)
  <1>1. entries = inner.pairs
    BY Zenon DEF IInv, SearchBuilt, IndexIsStream, FindStop
  <1>2. /\ n \in Nat /\ lo \in Nat /\ hi \in Nat /\ lo <= hi /\ hi <= n /\ key \in Nat
        /\ \A i \in 1..n : inner.pairs[i] \in Pair
        /\ \A i \in 1..lo : SeqKey(i) < key
        /\ \A i \in (hi + 1)..n : SeqKey(i) > key
        /\ DOMAIN inner.pairs = 1..n
    BY <1>1, PairTyping
       DEF IInv, TypeOK, AccessInBounds, SearchBuilt, NothingDiscarded, FindStop, SeqKey
  <1>3. CASE lo < hi
    <2>1. Mid + 1 \in 1..n
      BY <1>2, <1>3, MidInWindow
    <2>2. /\ reply' = [rc |-> 1, value |-> inner.pairs[Mid + 1].value]
          /\ SeqKey(Mid + 1) = key
      BY <1>1, <1>3 DEF FindStop, Found, SeqKey
    <2>3. <<key, inner.pairs[Mid + 1].value>> \in Contents
      BY <1>2, <2>1, <2>2 DEF Contents, SeqKey
    <2>4. QED
      BY <2>2, <2>3 DEF Abstract!Answers
  <1>4. CASE ~(lo < hi)
    <2>1. reply' = NotFound
      BY <1>4 DEF FindStop
    <2>2. \A i \in 1..n : SeqKey(i) \in Nat
      BY <1>2 DEF SeqKey, Pair
    <2>3. \A i \in 1..n : SeqKey(i) # key
      BY <1>2, <1>4, <2>2
    <2>4. {p \in Contents : p[1] = key} = {}
      BY <2>3, <1>2 DEF Contents, SeqKey
    <2>5. QED
      BY <2>1, <2>4 DEF Abstract!Answers, Abstract!NotFound, NotFound
  <1>5. QED
    BY <1>3, <1>4

LEMMA InitMaps == Init => Abstract!Init
  BY DEF Init, Abstract!Init, Abstract!NotFound, NotFound, Asked, Answered

(* The stream is never written, so a map stays sound or unsound.           *)
LEMMA StreamKept == [Next]_vars => inner' = inner
  BY DEF Next, LoopStep, Call, StartGet, StartFind, StartInit, FreeIndex,
         ScanNext, ScanStop, BuildNext, BuildOutOfMemory, BuildStop, FindNarrow, Narrow, FindStop, vars

(* Nothing is seen of a stream that is out of order or does not end        *)
(* cleanly.                                                                *)
LEMMA UnsoundStutters ==
    ASSUME ~Sound, [Next]_vars
    PROVE  UNCHANGED Abstract!vars
  BY StreamKept DEF Abstract!vars, Contents, Asked, Answered, Sound, Sorted

(* Every step is a question, an answer, or invisible.                      *)
LEMMA StepMaps ==
    IInv /\ [Next]_vars => [Abstract!Next]_Abstract!vars
  <1> SUFFICES ASSUME IInv, Sound, [Next]_vars
               PROVE  Abstract!Next \/ UNCHANGED Abstract!vars
    BY UnsoundStutters
  <1> Sorted /\ Sound'
    BY StreamKept DEF Sound, Sorted
  <1> USE DEF Abstract!vars, Asked, Answered
  <1>1. ASSUME NEW k \in Sought, StartGet(k) \/ StartFind(k)
        PROVE  Abstract!Ask(k)
    BY <1>1, SoughtAssumption DEF StartGet, StartFind, Abstract!Ask, Contents
  <1>2. CASE StartInit \/ FreeIndex
    BY <1>2 DEF StartInit, FreeIndex, Contents
  <1>3. CASE ScanNext \/ FindNarrow
    BY <1>3 DEF ScanNext, FindNarrow, Narrow, Contents
  <1>4. CASE BuildNext \/ BuildOutOfMemory \/ BuildStop
    BY <1>4 DEF BuildNext, BuildOutOfMemory, BuildStop, Contents
  <1>5. CASE ScanStop
    <2>1. key \in Nat /\ pc = "scan" /\ pc' = "idle" /\ inner' = inner
      BY <1>5 DEF ScanStop, IInv, SearchBuilt
    <2>2. Abstract!Answer
      BY <1>5, <2>1, ScanAnswers DEF Abstract!Answer, Contents, NoKey
    <2>3. QED
      BY <2>2 DEF Abstract!Next
  <1>6. CASE FindStop
    <2>1. key \in Nat /\ pc = "find" /\ pc' = "idle" /\ inner' = inner
      BY <1>6 DEF FindStop, IInv, SearchBuilt
    <2>2. Abstract!Answer
      BY <1>6, <2>1, FindAnswers DEF Abstract!Answer, Contents, NoKey
    <2>3. QED
      BY <2>2 DEF Abstract!Next
  <1>7. CASE UNCHANGED vars
    BY <1>7 DEF vars, Contents
  <1>8. QED
    BY <1>1, <1>2, <1>3, <1>4, <1>5, <1>6, <1>7 DEF Next, LoopStep, Call, Abstract!Next

(* On every stream that ends cleanly with its keys in order, of any        *)
(* length, struple_map_get and struple_indexed_map_get answer as the       *)
(* abstract map does: the safety part of ImplementsMap.                    *)
THEOREM Refinement == Spec => Abstract!SafeSpec
  BY InitMaps, StepMaps, Invariance, PTL DEF Spec, Abstract!SafeSpec
=============================================================================
