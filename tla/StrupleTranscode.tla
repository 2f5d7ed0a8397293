-------------------------- MODULE StrupleTranscode --------------------------
(***************************************************************************)
(* struple_transcode: a reader drives a writer, one element per turn of    *)
(* the loop.  The caller may feed the output of a successful call back in, *)
(* which is how the conformance vectors are round-tripped.                 *)
(***************************************************************************)
EXTENDS StrupleCpp

CONSTANT Buffers    \* the byte strings given to the first call

ASSUME BufferAssumption == Buffers \subseteq Seq(Byte)

VARIABLES
    buf,     \* the input
    pos,     \* the reader's position
    out,     \* the writer's bytes
    pc,      \* "loop" while struple_transcode runs, "done" when it returned
    rc,      \* its return code
    pass,    \* 1 for the first call, 2 for the call on its output
    narrowed \* a decoded exponent (int64) did not survive the cast to int32

vars == <<buf, pos, out, pc, rc, pass, narrowed>>

Init ==
    /\ buf \in Buffers
    /\ pos = 0
    /\ out = <<>>
    /\ pc = "loop"
    /\ rc = 0
    /\ pass = 1
    /\ narrowed = FALSE

(* Variant with a bug: the output is started over for every element. *)
OutputOverwritten ==
    /\ pc = "loop"
    /\ \E r \in {Next(buf, pos)} :
        /\ r.rc = 1
        /\ out' = EncElement(r.el)
        /\ pos' = r.pos
        /\ narrowed' = (narrowed \/ (r.el.kind = "decimal" /\ ~InExpRange(r.el.exp)))
        /\ UNCHANGED <<buf, pc, rc, pass>>

(* next() returned 1: append_element re-encodes the element.  It returns   *)
(* nothing, so an append that fails adds no bytes and the loop goes on.    *)
Element ==
    /\ pc = "loop"
    /\ \E r \in {Next(buf, pos)} :
        /\ r.rc = 1
        /\ out' = out \o EncElement(r.el)
        /\ pos' = r.pos
        /\ narrowed' = (narrowed \/ (r.el.kind = "decimal" /\ ~InExpRange(r.el.exp)))
        /\ UNCHANGED <<buf, pc, rc, pass>>

(* Variant with a bug: success is 1, as for next(). *)
SuccessIsOne ==
    /\ pc = "loop"
    /\ \E r \in {Next(buf, pos)} :
        /\ r.rc # 1
        /\ rc' = IF r.rc = 0 THEN 1 ELSE -1
        /\ pos' = r.pos
        /\ pc' = "done"
        /\ UNCHANGED <<buf, out, pass, narrowed>>

(* next() returned 0 or -1.  What was written before an error stays. *)
Return ==
    /\ pc = "loop"
    /\ \E r \in {Next(buf, pos)} :
        /\ r.rc # 1
        /\ rc' = r.rc
        /\ pos' = r.pos
        /\ pc' = "done"
        /\ UNCHANGED <<buf, out, pass, narrowed>>

(* The caller transcodes the output of a call that succeeded. *)
Again ==
    /\ pc = "done"
    /\ rc = 0
    /\ pass = 1
    /\ buf' = out
    /\ pos' = 0
    /\ out' = <<>>
    /\ pc' = "loop"
    /\ pass' = 2
    /\ UNCHANGED <<rc, narrowed>>

TranscodeNext == Element \/ Return \/ Again

Spec == Init /\ [][TranscodeNext]_vars

-----------------------------------------------------------------------------
TypeOK ==
    /\ buf \in Seq(Byte)
    /\ out \in Seq(Byte)
    /\ pos \in 0..Len(buf)
    /\ pc \in {"loop", "done"}
    /\ rc \in {-1, 0}
    /\ pass \in {1, 2}
    /\ narrowed \in BOOLEAN

(* One call makes any input canonical: whatever next() accepted, strict or *)
(* not, the output decodes again and a second call copies it unchanged.    *)
Idempotent == pass = 2 => SubSeq(buf, 1, pos) = out /\ (pc = "done" => rc = 0)

(* The output always holds the values read so far, in order: a decoded     *)
(* element is re-encoded to an equal one, whatever its bytes were, unless  *)
(* the exponent of a decimal was changed by the cast.                      *)
ValuesKept ==
    rc = 0 /\ ~narrowed => Unpack[out] = Unpack[SubSeq(buf, 1, pos)]

(* struple.h on struple_transcode: "Decode every element and re-encode it  *)
(* into `out` ... Returns 0 on success": no element is left out.           *)
EveryElementKept == pc = "done" /\ rc = 0 => Len(Split[out]) = Len(Split[buf])

(* The ports transcode alike: where struple_transcode succeeds without the *)
(* cast having changed an exponent, transcode of struple.hpp returns the   *)
(* same bytes; where it fails, that one throws, unless it took a pair of   *)
(* digits above 99; and where the cast bites, it keeps every value or      *)
(* throws, and drops nothing.                                              *)
TranscodesAlike ==
    pc = "done" =>
        LET c == CppTranscode[buf]
        IN  /\ rc = 0 /\ ~narrowed => c = [rc |-> 0, out |-> out]
            /\ rc = -1 => c.rc = -1 \/ \E b \in ToSet(Split[buf]) : OverfullPair(CppNext(b, 0).el)
            /\ rc = 0 /\ c.rc = 0 => Unpack[c.out] = Unpack[buf]
=============================================================================
