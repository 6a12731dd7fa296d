--------------------------- MODULE RenderService ---------------------------
(***************************************************************************)
(* What render promises to a program (docs/api.md, template.ts render):    *)
(* each render has a text of its own that only its template writes to, and *)
(* resolves with the whole of it, or is rejected and leaves nothing, but   *)
(* for an empty buffer if it was refused before it began.  The buffers of  *)
(* the program, the innermost of them, get what a flush tag of the         *)
(* outermost template hands down, and nothing else happens to them.        *)
(*                                                                         *)
(* There is no stack here, there are no nested calls and no cleaning up:   *)
(* TemplateRendering implements this, as long as renders are awaited.      *)
(***************************************************************************)
EXTENDS Naturals, Sequences

CONSTANTS
    Renders,        \* the calls of template.render a program makes
    Chunk,          \* what is written in one piece
    Nothing,        \* what a render that is not fulfilled has resolved with
    OuterHandlers   \* the buffers the program has opened beforehand

VARIABLES
    handlers,       \* the buffers of the program, its innermost last
    stdout,         \* where its text goes if it has none
    phase,          \* "idle", "running", "fulfilled" or "rejected"
    text,           \* what the template of each render has written so far
    result          \* what the promise of each render was resolved with

vars == <<handlers, stdout, phase, text, result>>

Init ==
    /\ handlers = OuterHandlers /\ stdout = <<>>
    /\ phase = [r \in Renders |-> "idle"]
    /\ text = [r \in Renders |-> <<>>]
    /\ result = [r \in Renders |-> Nothing]

Start(r) ==
    /\ phase[r] = "idle"
    /\ phase' = [phase EXCEPT ![r] = "running"]
    /\ UNCHANGED <<handlers, stdout, text, result>>

(* A render of a context that is none, null for one: it is rejected, and   *)
(* the program has one buffer more.                                        *)
Refuse(r) ==
    /\ phase[r] = "idle"
    /\ phase' = [phase EXCEPT ![r] = "rejected"]
    /\ handlers' = Append(handlers, <<>>)
    /\ UNCHANGED <<stdout, text, result>>

(* The template writes, in pieces of any length.                           *)
Write(r) ==
    LET piece == SubSeq(text'[r], Len(text[r]) + 1, Len(text'[r]))
    IN  /\ phase[r] = "running"
        /\ piece \in Seq(Chunk)
        /\ text' = [text EXCEPT ![r] = text[r] \o piece]
        /\ UNCHANGED <<handlers, stdout, phase, result>>

(* What it has written so far is handed to the program.                    *)
Flush(r) ==
    /\ phase[r] = "running"
    /\ IF handlers = <<>>
       THEN stdout' = stdout \o text[r] /\ UNCHANGED handlers
       ELSE /\ handlers' = [handlers EXCEPT
                    ![Len(handlers)] = handlers[Len(handlers)] \o text[r]]
            /\ UNCHANGED stdout
    /\ text' = [text EXCEPT ![r] = <<>>]
    /\ UNCHANGED <<phase, result>>

Fulfil(r) ==
    /\ phase[r] = "running"
    /\ phase' = [phase EXCEPT ![r] = "fulfilled"]
    /\ result' = [result EXCEPT ![r] = text[r]]
    /\ text' = [text EXCEPT ![r] = <<>>]
    /\ UNCHANGED <<handlers, stdout>>

Reject(r) ==
    /\ phase[r] = "running"
    /\ phase' = [phase EXCEPT ![r] = "rejected"]
    /\ text' = [text EXCEPT ![r] = <<>>]
    /\ UNCHANGED <<handlers, stdout, result>>

Next ==
    \E r \in Renders :
        \/ Start(r) \/ Refuse(r)
        \/ Write(r) \/ Flush(r) \/ Fulfil(r) \/ Reject(r)

Spec == Init /\ [][Next]_vars

=============================================================================
