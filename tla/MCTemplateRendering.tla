------------------------ MODULE MCTemplateRendering ------------------------
(* Small instances of TemplateRendering. *)
EXTENDS TemplateRendering

CONSTANTS tag, blank, empty, promise, outer

MCChunk == {tag, blank, empty, promise, outer}

MCTexts == {tag, blank}

(* spaceless removes the blanks between the tags, and around them. *)
MCSqueezed == [c \in MCChunk |-> IF c = blank THEN empty ELSE c]

OneOuterHandler == <<<<outer>>>>
=============================================================================
