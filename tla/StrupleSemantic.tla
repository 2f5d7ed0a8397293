--------------------------- MODULE StrupleSemantic ---------------------------
(***************************************************************************)
(* struple_semantic_order: two readers walk two buffers in lockstep and    *)
(* the walk recurses into containers.  A frame is one activation of        *)
(* sem_order_impl: its readers' positions and their scratch buffers, from  *)
(* which the activation it calls reads.  The caller compares a with b and  *)
(* then, if it likes, b with a.                                            *)
(***************************************************************************)
EXTENDS StrupleCppOrder

CONSTANT Arguments    \* the pairs of byte strings compared first

ASSUME ArgumentAssumption == Arguments \subseteq Seq(Byte) \X Seq(Byte)

VARIABLES
    args,      \* the two buffers of the current call
    frames,    \* the activations, the innermost last
    pc,        \* "loop" in the innermost, "back" in the caller of one that
               \* returned, "done" when the call has returned
    order,     \* *order: -1, 0 or 1
    err,       \* *err
    memory,    \* FALSE once an allocation has failed
    first      \* <<the result of the call with the arguments as given>>, once
               \* it is known and the exchanged call has begun

vars == <<args, frames, pc, order, err, memory, first>>

(* struple_reader_init, for both readers of an activation. *)
Entered == [pos |-> <<0, 0>>, scratch |-> << <<>>, <<>> >>]

Init ==
    /\ args \in Arguments
    /\ frames = <<Entered>>
    /\ pc = "loop"
    /\ order = 0
    /\ err = FALSE
    /\ memory = TRUE
    /\ first = <<>>

Depth == Len(frames) - 1

(* The bytes the readers of an activation run over. *)
Inputs(i) == IF i = 1 THEN args ELSE frames[i - 1].scratch

Input(side) == Inputs(Len(frames))[side]

Read(side) == Next(Input(side), Last(frames).pos[side])

(* Where the readers stand after both have read; a framed element is       *)
(* unescaped into its reader's scratch buffer.                             *)
Advanced(r) ==
    [pos     |-> [side \in {1, 2} |-> r[side].pos],
     scratch |-> [side \in {1, 2} |->
                    IF r[side].el.kind \in DOMAIN FramedCode THEN r[side].el.data
                    ELSE Last(frames).scratch[side]]]

(* The innermost activation returns with *order = o and *err = e. *)
Leave(o, e) ==
    /\ frames' = Front(frames)
    /\ pc' = IF Len(frames) = 1 THEN "done" ELSE "back"
    /\ order' = o
    /\ err' = e

Both(r, S) == \A side \in {1, 2} : r[side].rc \in S

-----------------------------------------------------------------------------
(* One turn of the loop. *)

(* An element of either buffer is malformed. *)
Malformed ==
    /\ pc = "loop"
    /\ \E r \in {<<Read(1), Read(2)>>} :
        /\ ~Both(r, {0, 1})
        /\ Leave(0, TRUE)
    /\ UNCHANGED <<args, memory, first>>

(* Variant with a bug: the answer is not reduced to its sign. *)
LengthDifference ==
    /\ pc = "loop"
    /\ \E r \in {<<Read(1), Read(2)>>} :
        /\ Both(r, {0, 1}) /\ ~Both(r, {1})
        /\ Leave(Len(Input(1)) - Len(Input(2)), err)
    /\ UNCHANGED <<args, memory, first>>

(* One of them, or both, has ended. *)
Ended ==
    /\ pc = "loop"
    /\ \E r \in {<<Read(1), Read(2)>>} :
        /\ Both(r, {0, 1}) /\ ~Both(r, {1})
        /\ Leave(SignOf(r[1].rc - r[2].rc), err)
    /\ UNCHANGED <<args, memory, first>>

SameContainer(x, y) == IsContainer(x) /\ x.kind = y.kind

(* sem_elements without its container case. *)
ElementOrder(x, y) ==
    IF ClassOf(x) # ClassOf(y) THEN SignOf(ClassOf(x) - ClassOf(y))
    ELSE CASE x.kind \in {"nil", "undef"} -> 0
           [] x.kind = "bool" -> (IF x.val THEN 1 ELSE 0) - (IF y.val THEN 1 ELSE 0)
           [] IsExact(x) \/ IsFloat(x) -> Numbers(x, y)
           [] x.kind = "timestamp" -> Compare(FlipSign(x.data), FlipSign(y.data))
           [] x.kind \in {"uuid", "string", "bytes"} -> Compare(x.data, y.data)

(* Two elements that are not containers of one class: the first difference *)
(* ends the walk.                                                          *)
ComparedElements ==
    /\ pc = "loop"
    /\ \E r \in {<<Read(1), Read(2)>>} :
        /\ Both(r, {1})
        /\ ~SameContainer(r[1].el, r[2].el)
        /\ \E c \in {ElementOrder(r[1].el, r[2].el)} :
              IF c # 0 THEN Leave(c, err)
              ELSE /\ frames' = Front(frames) \o <<Advanced(r)>>
                   /\ UNCHANGED <<pc, order, err>>
    /\ UNCHANGED <<args, memory, first>>

(* A comparison that needs memory did not get it. *)
OutOfMemory ==
    /\ pc = "loop"
    /\ \E r \in {<<Read(1), Read(2)>>} :
        /\ Both(r, {1})
        /\ \A side \in {1, 2} : IsExact(r[side].el) \/ IsFloat(r[side].el)
        /\ Allocates(r[1].el, r[2].el)
        /\ Leave(0, TRUE)
    /\ memory' = FALSE
    /\ UNCHANGED <<args, first>>

(* Variant with a bug: the caller's level is tested, not the new one. *)
OneLevelMore ==
    /\ pc = "loop"
    /\ \E r \in {<<Read(1), Read(2)>>} :
        /\ Both(r, {1})
        /\ SameContainer(r[1].el, r[2].el)
        /\ IF Depth > MaxDepth
           THEN /\ frames' = Front(frames) \o <<Advanced(r)>>
                /\ pc' = "back"
                /\ err' = TRUE
           ELSE /\ frames' = Front(frames) \o <<Advanced(r), Entered>>
                /\ UNCHANGED <<pc, err>>
        /\ order' = 0
    /\ UNCHANGED <<args, memory, first>>

(* Two containers of one class: recurse, unless that is too deep. *)
Descend ==
    /\ pc = "loop"
    /\ \E r \in {<<Read(1), Read(2)>>} :
        /\ Both(r, {1})
        /\ SameContainer(r[1].el, r[2].el)
        /\ IF Depth + 1 > MaxDepth
           THEN /\ frames' = Front(frames) \o <<Advanced(r)>>
                /\ pc' = "back"
                /\ err' = TRUE
           ELSE /\ frames' = Front(frames) \o <<Advanced(r), Entered>>
                /\ UNCHANGED <<pc, err>>
        /\ order' = 0
    /\ UNCHANGED <<args, memory, first>>

(* Variant with a bug: an equal container is compared once more. *)
ComparedAgain ==
    /\ pc = "back"
    /\ IF err \/ order # 0 THEN Leave(order, err)
       ELSE /\ frames' = [frames EXCEPT ![Len(frames)].pos = <<0, 0>>]
            /\ pc' = "loop"
            /\ UNCHANGED <<order, err>>
    /\ UNCHANGED <<args, memory, first>>

(* A recursive call has returned: pass an error or a difference on, or go  *)
(* on with the elements after the two containers.                          *)
Resume ==
    /\ pc = "back"
    /\ IF err \/ order # 0 THEN Leave(order, err)
       ELSE /\ pc' = "loop"
            /\ UNCHANGED <<frames, order, err>>
    /\ UNCHANGED <<args, memory, first>>

(* The caller asks again with the arguments exchanged. *)
Exchange ==
    /\ pc = "done"
    /\ first = <<>>
    /\ memory
    /\ first' = <<[order |-> order, err |-> err]>>
    /\ args' = <<args[2], args[1]>>
    /\ frames' = <<Entered>>
    /\ pc' = "loop"
    /\ order' = 0
    /\ err' = FALSE
    /\ UNCHANGED memory

(* The caller is done with the two arguments. *)
Finished ==
    /\ pc = "done"
    /\ first # <<>> \/ ~memory
    /\ UNCHANGED vars

WalkStep == Malformed \/ Ended \/ ComparedElements \/ OutOfMemory \/ Descend \/ Resume

SemanticNext == WalkStep \/ Exchange \/ Finished

Spec == Init /\ [][SemanticNext]_vars

-----------------------------------------------------------------------------
TypeOK ==
    /\ args \in Seq(Byte) \X Seq(Byte)
    /\ frames \in Seq([pos : Nat \X Nat, scratch : Seq(Byte) \X Seq(Byte)])
    /\ pc \in {"loop", "back", "done"}
    /\ order \in {-1, 0, 1}
    /\ err \in BOOLEAN
    /\ memory \in BOOLEAN
    /\ first \in Seq([order : {-1, 0, 1}, err : BOOLEAN])

(* STRUPLE_MAX_DEPTH bounds the recursion, and with it the stack: whatever *)
(* the buffers hold, no activation is entered below that level, and there  *)
(* is one until the call has returned.                                     *)
DepthBounded ==
    /\ Len(frames) <= MaxDepth + 1
    /\ pc # "done" => Len(frames) > 0

(* The element of a buffer of one. *)
Only(b) == IF Len(Elements[b]) = 1 THEN ToSet(Elements[b]) ELSE {}

Valued(b) == \A e \in Contained[b] : ~SignedNought(e)

IsNought(e) ==
    \/ IsIntKind(e) /\ Trimmed(e.mag) = <<>>
    \/ IsFloat(e) /\ FloatSign(SemFloat(e)) = 0
    \/ e.kind = "decimal" /\ e.digits = <<>>

(* The answer for an element x with a sign and no value: a lost -256^n is  *)
(* above every other negative big integer and below every other integer,   *)
(* and a decimal of zeros lies on its sign's side of zero                  *)
(* (struple.c:1502-1513).                                                  *)
NoughtOrder(x, y) ==
    /\ LostInteger(x) /\ IsIntKind(y) /\ ~LostInteger(y) =>
          order = IF y.kind = "bigint" /\ y.neg THEN 1 ELSE -1
    /\ ZeroDigits(x) /\ IsNought(y) /\ ~LostInteger(y) =>
          order = IF x.neg THEN -1 ELSE 1

(* README.md, "Semantic (numeric-value) order", and struple.h, "numbers by *)
(* exact mathematical value": the answer is the order of exact values,     *)
(* decided by the first difference, and the call fails exactly when a      *)
(* malformed element or a container nested deeper than MaxDepth comes      *)
(* before that difference (struple.h, "-1 on a malformed buffer").  Two    *)
(* kinds of element are not compared as the value of their bytes: the      *)
(* -256^n the decoder loses (ExcessFormExact of StrupleReader), and        *)
(* decimals of digits all zero.  What the code makes of those is           *)
(* NoughtOrder.                                                            *)
ResultIsExactOrder ==
    pc = "done" /\ memory =>
        /\ (\A side \in {1, 2} : Valued(args[side])) =>
              SemanticOrder[args[1], args[2], 0] = IF err THEN ERROR ELSE order
        /\ \A x \in Only(args[1]), y \in Only(args[2]) : NoughtOrder(x, y)

(* The port to C++ compares as the port to C does, with two exceptions: it *)
(* takes any two strings for equal (see CppOrdersByValue), and it goes on, *)
(* with an answer of its own, over a decimal whose pairs of digits go past *)
(* 99, where the C port reports a malformed buffer.                        *)
CppBlindToStrings ==
    pc = "done" /\ memory =>
        LET cpp   == CppOrder[args[1], args[2], 0]
            blind == StringBlindOrder[args[1], args[2], 0]
        IN  \/ cpp = blind
            \/ blind = ERROR /\ \E side \in {1, 2} : Overfull[args[side]]

(* struple.hpp: "Compare two encoded streams by *value*".  Where the C     *)
(* port has an answer and all numbers have a value, so does the C++ port,  *)
(* and it is the order of the values.                                      *)
CppOrdersByValue ==
    pc = "done" /\ memory /\ ~err /\ (\A side \in {1, 2} : Valued(args[side])) =>
        CppOrder[args[1], args[2], 0] = SemanticOrder[args[1], args[2], 0]

(* Exchanging the arguments reverses the answer, and fails when the other  *)
(* call failed: which reader meets a malformed element or an end first     *)
(* makes no difference.                                                    *)
Antisymmetric ==
    pc = "done" /\ memory /\ first # <<>> => first[1] = [order |-> -order, err |-> err]

(* README.md: semantic order differs from byte order only in how numbers   *)
(* of different kinds interleave.  On canonical buffers whose numbers are  *)
(* all of one kind it is memcmp order.  IsCanonical excludes the integers  *)
(* -256^n the encoder itself writes into slots wider than the native type, *)
(* since they transcode to 0: on those the two orders do disagree          *)
(* (NoughtOrder).                                                          *)
AgreesWithBytes ==
    /\ pc = "done" /\ ~err
    /\ \A side \in {1, 2} : IsCanonical[args[side]]
    /\ Cardinality(NumberKinds[args[1]] \cup NumberKinds[args[2]]) <= 1
    => order = Compare(args[1], args[2])

(* Bytes the readers of all activations have yet to read, then the         *)
(* activations, then whether one has just returned.                        *)
Unread(f, inputs) == Len(inputs[1]) - f.pos[1] + Len(inputs[2]) - f.pos[2]

Total(s) ==
    LET sum[n \in 0..Len(s)] == IF n = 0 THEN 0 ELSE sum[n - 1] + s[n]
    IN  sum[Len(s)]

Work ==
    Total([i \in DOMAIN frames |-> 2 * Unread(frames[i], Inputs(i)) + 2])
      + (IF pc = "back" THEN 1 ELSE 0)

(* The call returns: whatever the two buffers hold, every step of it       *)
(* leaves less to do, though it may open activations on bytes unescaped    *)
(* out of others (that a step is always possible until then is the         *)
(* absence of deadlock).                                                   *)
LessToDo == [][first' = first => Work' < Work]_vars
=============================================================================
