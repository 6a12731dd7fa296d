------------------------- MODULE TemplateRendering -------------------------
(***************************************************************************)
(* Renders of templates over the shared output buffer stack: template.ts   *)
(* render and renderBlock, and the code that the nodes which open a buffer *)
(* compile to (set, spaceless, macro, flush, print, and the source map     *)
(* blocks around them).                                                    *)
(*                                                                         *)
(* A render is a chain of nested calls; the calls that own a buffer are    *)
(* its frames.  Each step of a task is what the code does between two      *)
(* awaits, and any other task may step in between.  What a template prints,*)
(* calls and throws, and in which order, is chosen freely.                 *)
(***************************************************************************)
EXTENDS OutputBuffering, FiniteSets

CONSTANTS
    Renders,            \* the calls of template.render a program makes
    ParentCalls,        \* the evaluations of parent() that nobody awaits
    Texts,              \* the chunks that templates print
    Nothing,            \* no value: the frame has none at hand
    PromiseChunk,       \* "[object Promise]"
    Squeezed,           \* what spaceless leaves of each chunk of a text
    OuterHandlers,      \* the buffers the program has opened beforehand
    Serial,             \* TRUE: a render is awaited before the next starts
    MayThrow,           \* TRUE: display may throw, and the code of a template
    MaxFrames,          \* bound: the frames of a task
    MaxChunks           \* bound: the chunks and the notices a task writes

Tasks == Renders \cup ParentCalls

ASSUME RenderingAssumption ==
    /\ IsFiniteSet(Renders) /\ IsFiniteSet(ParentCalls)
    /\ Renders \cap ParentCalls = {}
    /\ PromiseChunk \in Chunk /\ Texts \subseteq Chunk
    /\ Squeezed \in [Chunk -> Chunk]
    /\ OuterHandlers \in Seq(Content)
    /\ Nothing \notin Content \cup {NoContent}
    /\ Serial \in BOOLEAN /\ MayThrow \in BOOLEAN
    /\ MaxFrames \in Nat /\ MaxChunks \in Nat

OuterLevel == Len(OuterHandlers)

VARIABLES
    ob,         \* TwingOutputBuffering.handlers, and stdout
    status,     \* what each task is doing
    frames,     \* the calls of each task that own a buffer, innermost last
    value,      \* what the call just completed in the innermost frame returned
    result,     \* what the promise of a task was resolved with
    own,        \* history: the text the code of a completed task wrote
    chunks      \* how many chunks each task has echoed

vars == <<ob, status, frames, value, result, own, chunks>>

(* The calls that own a buffer.  "include" is the render of an included    *)
(* template, "block" is renderBlock, "capture" the set tag with a body,    *)
(* "sourceMap" the pair enterSourceMapBlock, leaveSourceMapBlock.          *)
FrameKinds == {"render", "block", "capture", "spaceless", "macro", "sourceMap"}

(* level is the variable of template.ts render: the level of the stack the *)
(* call found.  text is a history: what the code of the frame has written  *)
(* since the call began and has not flushed.                               *)
Frame == [kind : FrameKinds, level : Nat, text : Content]

NewFrame(kind, b) == [kind |-> kind, level |-> ObGetLevel(b), text |-> <<>>]

(* A render is refused if display throws before it has returned a promise, *)
(* and rejected if its promise is: to the caller of environment.render it  *)
(* is the same.                                                            *)
Statuses == {"idle", "running", "throwing", "fulfilled", "rejected", "refused"}

Live(t) == status[t] \in {"running", "throwing"}

(* The level of the stack between two renders: a render that was refused   *)
(* has left its buffer there.                                              *)
Refused == {t \in Renders : status[t] = "refused"}
Ground == OuterLevel + Cardinality(Refused)

Depth(t) == Len(frames[t])
Top(t) == frames[t][Depth(t)]

(* The frames fs without the innermost one, and with s written by it.      *)
Returned(fs) == SubSeq(fs, 1, Len(fs) - 1)
Written(fs, s) ==
    [i \in DOMAIN fs |->
        IF i = Len(fs) THEN [fs[i] EXCEPT !.text = @ \o s] ELSE fs[i]]
Flushed(fs) ==
    Append(Written(Returned(fs), fs[Len(fs)].text),
           [fs[Len(fs)] EXCEPT !.text = <<>>])

(* A blank between tags has the empty string in its place.                 *)
Squeeze(s) == [i \in DOMAIN s |-> Squeezed[s[i]]]

Init ==
    /\ ob = [handlers |-> OuterHandlers, stdout |-> <<>>]
    /\ status = [t \in Tasks |-> "idle"]
    /\ frames = [t \in Tasks |-> <<>>]
    /\ value = [t \in Tasks |-> Nothing]
    /\ result = [t \in Tasks |-> Nothing]
    /\ own = [t \in Tasks |-> Nothing]
    /\ chunks = [t \in Tasks |-> 0]

-----------------------------------------------------------------------------
(* The calls. *)

(* template.render called by the program.                                  *)
Start(t) ==
    /\ t \in Renders
    /\ status[t] = "idle"
    /\ Serial => \A u \in Renders : ~ Live(u)
    /\ status' = [status EXCEPT ![t] = "running"]
    /\ frames' = [frames EXCEPT ![t] = <<NewFrame("render", ob)>>]
    /\ ob' = ObStart(ob)
    /\ UNCHANGED <<value, result, own, chunks>>

(* template.render called with a context that display refuses: null, or    *)
(* one iteratorToMap fails on.  display is no async function: it throws,   *)
(* obStart has been called, and the catch that would clean up is not       *)
(* attached yet.                                                           *)
Refuse(t) ==
    /\ t \in Renders
    /\ MayThrow
    /\ status[t] = "idle"
    /\ Serial => \A u \in Renders : ~ Live(u)
    /\ status' = [status EXCEPT ![t] = "refused"]
    /\ ob' = ObStart(ob)
    /\ UNCHANGED <<frames, value, result, own, chunks>>

(* The code of the innermost frame goes on: it holds no value any more.    *)
Running(t) == status[t] = "running" /\ value[t] = Nothing

(* A call from a template that owns a buffer.                              *)
Call(t, kind) ==
    /\ Running(t)
    /\ Depth(t) < MaxFrames
    /\ frames' = [frames EXCEPT ![t] = Append(@, NewFrame(kind, ob))]
    /\ ob' = ObStart(ob)
    /\ UNCHANGED <<status, value, result, own, chunks>>

(* A text, or a value a template computes, is echoed.                      *)
PrintText(t, c) ==
    /\ Running(t)
    /\ chunks[t] < MaxChunks
    /\ chunks' = [chunks EXCEPT ![t] = @ + 1]
    /\ ob' = Echo(ob, <<c>>)
    /\ frames' = [frames EXCEPT ![t] = Written(@, <<c>>)]
    /\ UNCHANGED <<status, value, result, own>>

(* What a call returned is echoed.  The value false of an empty stack is   *)
(* echoed as the empty string.                                             *)
PrintValue(t) ==
    /\ status[t] = "running" /\ value[t] # Nothing
    /\ ob' = Echo(ob, value[t])
    /\ frames' = [frames EXCEPT
            ![t] = Written(@, IF value[t] = NoContent THEN <<>> ELSE value[t])]
    /\ value' = [value EXCEPT ![t] = Nothing]
    /\ UNCHANGED <<status, result, own, chunks>>

(* What a call returned is not printed: kept in a variable, or discarded.  *)
KeepValue(t) ==
    /\ status[t] = "running" /\ value[t] # Nothing
    /\ value' = [value EXCEPT ![t] = Nothing]
    /\ UNCHANGED <<ob, status, frames, result, own, chunks>>

(* The flush tag.  A flush that finds no buffer writes a notice: bounded.  *)
Flush(t) ==
    /\ Running(t)
    /\ HasActive(ob) \/ chunks[t] < MaxChunks
    /\ chunks' = [chunks EXCEPT ![t] = IF HasActive(ob) THEN @ ELSE @ + 1]
    /\ ob' = ObFlush(ob)
    /\ frames' = [frames EXCEPT ![t] = Flushed(@)]
    /\ UNCHANGED <<status, value, result, own>>

(* parent() as a part of an expression.  Only a print of nothing but       *)
(* parent() is compiled to an awaited displayParentBlock; any other use    *)
(* calls renderParentBlock and goes on with the promise: a task of its own *)
(* has opened its buffer and renders the block while the caller continues. *)
CallParent(t, u) ==
    /\ Running(t)
    /\ u \in ParentCalls
    /\ status[u] = "idle"
    /\ status' = [status EXCEPT ![u] = "running"]
    /\ frames' = [frames EXCEPT ![u] = <<NewFrame("block", ob)>>]
    /\ ob' = ObStart(ob)
    /\ value' = [value EXCEPT ![t] = <<PromiseChunk>>]
    /\ UNCHANGED <<result, own, chunks>>

-----------------------------------------------------------------------------
(* The returns. *)

(* The innermost call of a task returns v: to the frame around it, or, if  *)
(* there is none, to whoever holds the promise of the task.                *)
Return(t, v) ==
    IF Depth(t) = 1
    THEN /\ status' = [status EXCEPT ![t] = "fulfilled"]
         /\ result' = [result EXCEPT ![t] = v]
         /\ own' = [own EXCEPT ![t] = Top(t).text]
         /\ frames' = [frames EXCEPT ![t] = <<>>]
         /\ UNCHANGED value
    ELSE /\ frames' = [frames EXCEPT ![t] = Returned(@)]
         /\ value' = [value EXCEPT ![t] = v]
         /\ UNCHANGED <<status, result, own>>

(* render and renderBlock: obGetClean, once the body has been displayed.   *)
LeaveRender(t) ==
    /\ Running(t)
    /\ Top(t).kind \in {"render", "block"}
    /\ ob' = ObGetClean(ob)
    /\ Return(t, ObGetContents(ob))
    /\ UNCHANGED chunks

(* A call of the innermost frame has thrown.                               *)
Raise(t) ==
    /\ status' = [status EXCEPT ![t] = "throwing"]
    /\ UNCHANGED <<frames, value, result, own>>

(* A mutant of LeaveCapture: the text captured is flushed, not cleaned.    *)
LeaveCaptureFlushing(t) ==
    /\ Running(t)
    /\ Top(t).kind = "capture"
    /\ ob' = ObGetFlush(ob)
    /\ IF HasActive(ob) THEN Return(t, ObGetContents(ob)) ELSE Raise(t)
    /\ UNCHANGED chunks

(* A set tag and a macro wrap the text they have captured in a markup,     *)
(* whose constructor throws on false.                                      *)
LeaveCapture(t) ==
    /\ Running(t)
    /\ Top(t).kind = "capture"
    /\ ob' = ObGetClean(ob)
    /\ IF HasActive(ob) THEN Return(t, ObGetContents(ob)) ELSE Raise(t)
    /\ UNCHANGED chunks

(* A mutant of LeaveMacro: the buffer of the macro is not ended.           *)
LeaveMacroOpen(t) ==
    /\ Running(t)
    /\ Top(t).kind = "macro"
    /\ IF HasActive(ob) THEN Return(t, ObGetContents(ob)) ELSE Raise(t)
    /\ UNCHANGED <<ob, chunks>>

LeaveMacro(t) ==
    /\ Running(t)
    /\ Top(t).kind = "macro"
    /\ IF HasActive(ob) THEN ob' = ObEndClean(ob) /\ Return(t, ObGetContents(ob))
                        ELSE UNCHANGED ob /\ Raise(t)
    /\ UNCHANGED chunks

(* The text captured is squeezed and echoed at once; false cannot be.      *)
LeaveSpaceless(t) ==
    /\ Running(t)
    /\ Top(t).kind = "spaceless"
    /\ IF HasActive(ob)
       THEN /\ ob' = Echo(ObGetClean(ob), Squeeze(ObGetContents(ob)))
            /\ frames' = [frames EXCEPT
                    ![t] = Written(Returned(@), Squeeze(Top(t).text))]
            /\ UNCHANGED <<status, value, result, own>>
       ELSE ob' = ObGetClean(ob) /\ Raise(t)
    /\ UNCHANGED chunks

(* leaveSourceMapBlock hands the text down to the buffer below.            *)
LeaveSourceMap(t) ==
    /\ Running(t)
    /\ Top(t).kind = "sourceMap"
    /\ ob' = ObGetFlush(ob)
    /\ frames' = [frames EXCEPT ![t] = Written(Returned(@), Top(t).text)]
    /\ UNCHANGED <<status, value, result, own, chunks>>

-----------------------------------------------------------------------------
(* The errors. *)

(* The code of the innermost frame throws, or a call it awaits rejects.    *)
Throw(t) ==
    /\ MayThrow
    /\ status[t] = "running"
    /\ status' = [status EXCEPT ![t] = "throwing"]
    /\ value' = [value EXCEPT ![t] = Nothing]
    /\ UNCHANGED <<ob, frames, result, own, chunks>>

(* Mutants of CleanedTo: one buffer is ended instead of all the ones above *)
(* the level; one too many is.                                             *)
CleanedOnce(b, level) == IF ObGetLevel(b) > level THEN ObEndClean(b) ELSE b
CleanedBelow(b, level) ==
    [b EXCEPT !.handlers = IF Len(@) >= level THEN SubSeq(@, 1, level - 1) ELSE @]

(* while (obGetLevel() > level) obEndClean()                               *)
CleanedTo(b, level) ==
    [b EXCEPT !.handlers = IF Len(@) > level THEN SubSeq(@, 1, level) ELSE @]

(* The error leaves the innermost frame.  Only render and a macro clean    *)
(* up: render down to the level it found, a macro one buffer.              *)
Unwind(t) ==
    /\ status[t] = "throwing"
    /\ ob' = CASE Top(t).kind = "render" -> CleanedTo(ob, Top(t).level)
               [] Top(t).kind = "macro"  -> ObEndClean(ob)
               [] OTHER                  -> ob
    /\ frames' = [frames EXCEPT ![t] = Returned(@)]
    /\ status' = IF Depth(t) = 1 THEN [status EXCEPT ![t] = "rejected"]
                                 ELSE status
    /\ UNCHANGED <<value, result, own, chunks>>

-----------------------------------------------------------------------------

Step(t) ==
    \/ Start(t) \/ Refuse(t)
    \/ \E k \in FrameKinds : Call(t, k)
    \/ \E c \in Texts : PrintText(t, c)
    \/ PrintValue(t) \/ KeepValue(t) \/ Flush(t)
    \/ \E u \in ParentCalls : CallParent(t, u)
    \/ LeaveRender(t) \/ LeaveCapture(t) \/ LeaveMacro(t)
    \/ LeaveSpaceless(t) \/ LeaveSourceMap(t)
    \/ Throw(t) \/ Unwind(t)

Next == \E t \in Tasks : Step(t)

Spec == Init /\ [][Next]_vars

-----------------------------------------------------------------------------

(* Type invariant; the frames of a task are there exactly while it lives.  *)
TypeOK ==
    /\ ob \in BufferState
    /\ status \in [Tasks -> Statuses]
    /\ frames \in [Tasks -> Seq(Frame)]
    /\ value \in [Tasks -> Content \cup {NoContent, Nothing}]
    /\ result \in [Tasks -> Content \cup {NoContent, Nothing}]
    /\ own \in [Tasks -> Content \cup {Nothing}]
    /\ chunks \in [Tasks -> 0 .. MaxChunks]
    /\ \A t \in Tasks : Live(t) <=> frames[t] # <<>>

(* A render is resolved with the text that its own template wrote, whole,  *)
(* in order and without a word of another render's: what render's promise  *)
(* and the output parameter of its then stand for (template.ts render,     *)
(* docs/api.md).                                                           *)
RenderReturnsItsText ==
    \A t \in Tasks : status[t] = "fulfilled" => result[t] = own[t]

(* The buffers of a render that runs are the ones above the level it       *)
(* found, one for each of its frames and in their order, each with what    *)
(* the code of that frame wrote; below are the buffers of the program and  *)
(* those of the renders that were refused, and no others.                  *)
FramesOwnBuffers ==
    \A t \in Tasks : status[t] = "running" =>
        /\ frames[t][1].level = Ground
        /\ ObGetLevel(ob) = Ground + Depth(t)
        /\ \A i \in 1 .. Depth(t) :
               ob.handlers[Ground + i] = frames[t][i].text

(* A render that has begun to display, fulfilled or rejected, in a macro,  *)
(* a capture or an included template, gives the program the stack back at  *)
(* the level it found (the catch of template.ts render, the catch of a     *)
(* macro); a render that display refuses leaves exactly one buffer more.   *)
LevelRestored ==
    (\A t \in Tasks : ~ Live(t)) => ObGetLevel(ob) = Ground

(* A buffer that the program has opened itself is neither unstacked nor    *)
(* emptied by a render: a flush tag may add to it, and nothing else.       *)
OuterBuffersKept ==
    [][ \A i \in 1 .. OuterLevel :
            /\ i \in DOMAIN ob'.handlers
            /\ LET before == ob.handlers[i]
                   after == ob'.handlers[i]
               IN  /\ Len(before) <= Len(after)
                   /\ before = SubSeq(after, 1, Len(before)) ]_vars

-----------------------------------------------------------------------------

(* Renders over the shared stack implement renders that have nothing to do *)
(* with one another.  While one lives, the program sees the stack up to    *)
(* the level it found, and when none does, all of it; the text of a render *)
(* is what its outermost frame has written; an error that goes through its *)
(* calls is not seen before it leaves the last.                            *)
Service == INSTANCE RenderService WITH
    handlers <- IF \E t \in Tasks : Live(t)
                THEN SubSeq(ob.handlers, 1, Ground) ELSE ob.handlers,
    stdout   <- ob.stdout,
    phase    <- [r \in Renders |->
                    CASE status[r] = "throwing" -> "running"
                      [] status[r] = "refused"  -> "rejected"
                      [] OTHER                  -> status[r]],
    text     <- [r \in Renders |->
                    IF frames[r] = <<>> THEN <<>> ELSE frames[r][1].text],
    result   <- [r \in Renders |-> result[r]]

(* Awaited one after the other, with calls, captures, macros, flushes and  *)
(* errors inside, renders keep the promise of RenderService (template.ts   *)
(* render and its catch).                                                  *)
ImplementsService == Service!Spec

=============================================================================
