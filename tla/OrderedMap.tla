----------------------------- MODULE OrderedMap -----------------------------
(***************************************************************************)
(* What looking a key up in an encoded map promises, however it is done:   *)
(* a lookup answers with a value the map holds for that key, or with "not  *)
(* found" when it holds none.                                              *)
(***************************************************************************)
EXTENDS Integers

CONSTANTS
    Sought,     \* the keys looked up
    NoKey,      \* no lookup is in progress
    NoValue     \* the out parameter of a lookup that found nothing

VARIABLES
    contents,   \* the set of <<key, value>> pairs of the map
    asked,      \* the key being looked up, or NoKey
    reply       \* [rc, value]: the last lookup's answer

vars == <<contents, asked, reply>>

NotFound == [rc |-> 0, value |-> NoValue]

Answers(k) ==
    LET found == {p \in contents : p[1] = k}
    IN  IF found = {} THEN {NotFound} ELSE {[rc |-> 1, value |-> p[2]] : p \in found}

Init ==
    /\ asked = NoKey
    /\ reply = NotFound

Ask(k) ==
    /\ asked = NoKey
    /\ asked' = k
    /\ UNCHANGED <<contents, reply>>

Answer ==
    /\ asked # NoKey
    /\ reply' \in Answers(asked)
    /\ asked' = NoKey
    /\ UNCHANGED contents

Next == Answer \/ \E k \in Sought : Ask(k)

(* The promise without the obligation to answer at all. *)
SafeSpec == Init /\ [][Next]_vars

Spec == SafeSpec /\ WF_vars(Answer)
=============================================================================
