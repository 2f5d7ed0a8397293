----------------------------- MODULE StruplePorts -----------------------------
(***************************************************************************)
(* The C reader and the C++ Reader over one buffer, given the same calls.  *)
(* The conformance corpus holds the ports to the same bytes; this is what  *)
(* they are held to on every other buffer.                                 *)
(***************************************************************************)
EXTENDS StrupleReader, StrupleCpp

VARIABLE cpp    \* [pos, rc, el, failed]: pos_ of the C++ Reader, the outcome
                \* and element of its last call, whether some call has thrown

CppInit == cpp = [pos |-> 0, rc |-> 1, el |-> NoElement, failed |-> FALSE]

CppCalled(r) == cpp' = [pos |-> r.pos, rc |-> r.rc, el |-> r.el, failed |-> cpp.failed \/ r.rc = -1]

(* The caller calls next() of both. *)
BothNext == CallNext /\ CppCalled(CppNext(buf, cpp.pos))

(* The caller calls nextView() or skip() of both. *)
BothView == CallNextView /\ CppCalled(CppConsume(buf, cpp.pos))

PortsInit == Init /\ CppInit

PortsNext == BothNext \/ BothView

PortsSpec == PortsInit /\ [][PortsNext]_<<vars, cpp>>

-----------------------------------------------------------------------------
(* struple.hpp on take(): "pos_ <= len_ holds", which the unsigned         *)
(* subtraction in it relies on, whatever is called after an exception and  *)
(* wherever it left the cursor.                                            *)
CppPosInBounds == cpp.pos \in 0..Len(buf)

(* Both ports give the same elements and stop at the same places, up to    *)
(* the first error; and they report it at the same call, but for two       *)
(* cases.  next() in C++ accepts pairs of digits above 99; and skip() in   *)
(* C++, not in C, rejects a decimal for its exponent, one that next() of   *)
(* either port rejects too.                                                *)
PortsAgree ==
    [][~failed /\ ~cpp.failed =>
         \/ /\ ret' = cpp'.rc
            /\ ret' = 1 => pos' = cpp'.pos /\ SameElement(el', cpp'.el)
         \/ /\ ret' = -1 /\ cpp'.rc = 1
            /\ OverfullPair(cpp'.el)
         \/ /\ ret' = 1 /\ cpp'.rc = -1
            /\ el' = NoElement
            /\ buf[pos + 1] = DECIMAL
            /\ Next(buf, pos).rc = -1]_<<vars, cpp>>
=============================================================================
