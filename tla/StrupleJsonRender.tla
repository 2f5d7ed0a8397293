-------------------------- MODULE StrupleJsonRender --------------------------
(***************************************************************************)
(* struple_to_json: the first element of a buffer rendered as JSON text.   *)
(* A frame is one reader, that of the call itself or that of an activation *)
(* of render_array or render_map, with its scratch buffer: the activations *)
(* above it read the container's bytes there.  Output goes to the caller's *)
(* writer, or to a temporary one while a map key that is not a string is   *)
(* rendered.                                                               *)
(***************************************************************************)
EXTENDS StrupleJsonText

VARIABLES
    buffer,   \* the bytes to render
    readers,  \* the frames, the innermost last
    element,  \* the element render is called for
    outs,     \* the texts written so far, the innermost temporary one last
    renderer  \* "idle"; "render": render is called; "loop": an activation
              \* reads on; "back": render has returned 0; "abort": -1;
              \* "rendered", "refused": struple_to_json has returned 0, -1

renderVars == <<buffer, readers, element, outs, renderer>>

NoneYet == [kind |-> "none"]

RenderIdle ==
    /\ readers = <<>>
    /\ element = NoneYet
    /\ outs = <<>>
    /\ renderer = "idle"

Top    == readers[Len(readers)]
Nested == Len(readers) - 1      \* the depth argument of render

Source == IF Len(readers) = 1 THEN buffer ELSE readers[Len(readers) - 1].scratch

(* The reader of frame f after it has read r. *)
After(f, r) ==
    [f EXCEPT !.pos = r.pos,
              !.scratch = IF r.el.kind \in DOMAIN FramedCode THEN r.el.data ELSE @]

ReaderOf(kind) == [kind |-> kind, pos |-> 0, scratch |-> <<>>, empty |-> TRUE, key |-> FALSE]

SetTop(f) == Front(readers) \o <<f>>

Written(o, tokens) == Front(o) \o <<Last(o) \o tokens>>

Comma(f) == IF f.empty THEN <<>> ELSE <<Symbol(",")>>

-----------------------------------------------------------------------------
(* struple_to_json itself. *)

ReadFirst ==
    /\ renderer = "idle"
    /\ \E r \in {Next(buffer, 0)} :
          /\ readers' = IF r.rc = 1 THEN <<After(ReaderOf("root"), r)>> ELSE <<>>
          /\ element' = r.el
          /\ renderer' = CASE r.rc = 1 -> "render" [] r.rc = 0 -> "rendered" [] r.rc = -1 -> "refused"
          /\ outs' = IF r.rc = 0 THEN << <<Symbol("null")>> >> ELSE << <<>> >>
    /\ UNCHANGED buffer

ToJsonReturns ==
    /\ renderer = "back"
    /\ Len(readers) = 1
    /\ renderer' = "rendered"
    /\ readers' = <<>>
    /\ UNCHANGED <<buffer, element, outs>>

(* A failure is passed on through every activation; what was written of    *)
(* the text stays in the caller's writer.                                  *)
Abort ==
    /\ renderer = "abort"
    /\ renderer' = "refused"
    /\ readers' = <<>>
    /\ outs' = <<outs[1]>>
    /\ UNCHANGED <<buffer, element>>

-----------------------------------------------------------------------------
(* render. *)

RenderTooDeep ==
    /\ renderer = "render"
    /\ Nested > MaxDepth
    /\ renderer' = "abort"
    /\ UNCHANGED <<buffer, readers, element, outs>>

Container == element.kind \in {"array", "set", "map"}

RenderScalar ==
    /\ renderer = "render"
    /\ Nested <= MaxDepth
    /\ ~Container
    /\ outs' = Written(outs, <<ScalarToken(element)>>)
    /\ renderer' = "back"
    /\ UNCHANGED <<buffer, readers, element>>

RenderContainer ==
    /\ renderer = "render"
    /\ Nested <= MaxDepth
    /\ Container
    /\ outs' = Written(outs, <<Symbol(IF element.kind = "map" THEN "{" ELSE "[")>>)
    /\ readers' = Append(readers, ReaderOf(IF element.kind = "map" THEN "map" ELSE "array"))
    /\ renderer' = "loop"
    /\ UNCHANGED <<buffer, element>>

-----------------------------------------------------------------------------
(* One turn of render_array. *)
ArrayElement ==
    /\ renderer = "loop"
    /\ Top.kind = "array"
    /\ \E r \in {Next(Source, Top.pos)} :
          /\ r.rc = 1
          /\ outs' = Written(outs, Comma(Top))
          /\ readers' = SetTop([After(Top, r) EXCEPT !.empty = FALSE])
          /\ element' = r.el
    /\ renderer' = "render"
    /\ UNCHANGED buffer

(* The readers of both containers, at the end and at a malformed element. *)
Close ==
    /\ renderer = "loop"
    /\ Next(Source, Top.pos).rc = 0
    /\ outs' = Written(outs, <<Symbol(IF Top.kind = "map" THEN "}" ELSE "]")>>)
    /\ readers' = Front(readers)
    /\ renderer' = "back"
    /\ UNCHANGED <<buffer, element>>

MalformedInside ==
    /\ renderer = "loop"
    /\ Next(Source, Top.pos).rc = -1
    /\ renderer' = "abort"
    /\ UNCHANGED <<buffer, readers, element, outs>>

(* The colon, and the value that follows the key. *)
ReadValue(f, o) ==
    \E r \in {Next(Source, f.pos)} :
        /\ outs' = Written(o, <<Symbol(":")>>)
        /\ IF r.rc = 1
           THEN /\ readers' = SetTop([After(f, r) EXCEPT !.key = FALSE, !.empty = FALSE])
                /\ element' = r.el
                /\ renderer' = "render"
           ELSE /\ renderer' = "abort"
                /\ UNCHANGED <<readers, element>>


(* One turn of render_map: a key that is a string ...                      *)
StringKey ==
    /\ renderer = "loop"
    /\ Top.kind = "map"
    /\ \E r \in {Next(Source, Top.pos)} :
          /\ r.rc = 1
          /\ r.el.kind = "string"
          /\ ReadValue(After(Top, r),
                       Written(outs, Comma(Top) \o <<StringOf(RenderUnits(r.el.data))>>))
    /\ UNCHANGED buffer

(* ... or another element, rendered into a temporary writer ...            *)
OtherKey ==
    /\ renderer = "loop"
    /\ Top.kind = "map"
    /\ \E r \in {Next(Source, Top.pos)} :
          /\ r.rc = 1
          /\ r.el.kind # "string"
          /\ outs' = Append(Written(outs, Comma(Top)), <<>>)
          /\ readers' = SetTop([After(Top, r) EXCEPT !.key = TRUE])
          /\ element' = r.el
    /\ renderer' = "render"
    /\ UNCHANGED buffer

(* Variant with a bug: its text goes out as it is. *)
KeyUnquoted ==
    /\ renderer = "back"
    /\ Len(readers) > 1 /\ Top.key
    /\ ReadValue(Top, Written(Front(outs), Last(outs)))
    /\ UNCHANGED buffer

(* ... and then written as a string. *)
KeyRendered ==
    /\ renderer = "back"
    /\ Len(readers) > 1 /\ Top.key
    /\ ReadValue(Top, Written(Front(outs), <<StringOf(RenderUnits(Spelled(Last(outs))))>>))
    /\ UNCHANGED buffer

(* render has returned 0 for an array element or a map value. *)
ReadOn ==
    /\ renderer = "back"
    /\ Len(readers) > 1 /\ ~Top.key
    /\ renderer' = "loop"
    /\ UNCHANGED <<buffer, readers, element, outs>>

RenderStep ==
    \/ ReadFirst \/ ToJsonReturns \/ Abort
    \/ RenderTooDeep \/ RenderScalar \/ RenderContainer
    \/ ArrayElement \/ Close \/ MalformedInside
    \/ StringKey \/ OtherKey \/ KeyRendered \/ ReadOn
=============================================================================
