-------------------------- MODULE OutputBuffering --------------------------
(***************************************************************************)
(* The output buffer stack of src/src/lib/output-buffering.ts.             *)
(*                                                                         *)
(* TwingOutputBuffering is a class of static methods over ONE array of     *)
(* handlers, shared by every environment, template and render of the       *)
(* process.  A state of it is a record with the handlers, from the bottom  *)
(* of the stack to its top, and what has been written to process.stdout.   *)
(* A method is an operator from such a record to the next one, so that a   *)
(* caller that calls several of them without awaiting composes them in a   *)
(* single step; what a method returns is an operator of its own.           *)
(*                                                                         *)
(* The content of a handler is a sequence of chunks: a chunk is whatever   *)
(* one echo appends.                                                       *)
(***************************************************************************)
EXTENDS Naturals, Sequences

CONSTANTS
    Chunk,      \* what one call of echo can append to a buffer
    Notice,     \* the "Failed to ..." line a method writes to stdout itself
    NoContent   \* the value false, returned for the content of no buffer

ASSUME NoContentAssumption == NoContent \notin Seq(Chunk)

(* The contents a handler can have, and the states of the buffer stack. *)
Content == Seq(Chunk)
BufferState == [handlers : Seq(Content), stdout : Seq(Chunk \cup {Notice})]

ObGetLevel(b) == Len(b.handlers)

HasActive(b) == ObGetLevel(b) > 0

Active(b) == b.handlers[ObGetLevel(b)]

ObGetContents(b) == IF HasActive(b) THEN Active(b) ELSE NoContent

(* The stack with the content s in place of its active one, and without    *)
(* its active handler.                                                     *)
WithActive(b, s) == [b EXCEPT !.handlers = [@ EXCEPT ![Len(@)] = s]]
Popped(b) == [b EXCEPT !.handlers = SubSeq(@, 1, Len(@) - 1)]

(* A mutant of OutputWrite: the first handler is taken for the active one. *)
OutputWriteToFirst(b, s) ==
    IF HasActive(b) THEN [b EXCEPT !.handlers[1] = @ \o s]
                    ELSE [b EXCEPT !.stdout = @ \o s]

(* outputWrite: append to the active buffer, or write to stdout.           *)
OutputWrite(b, s) ==
    IF HasActive(b) THEN WithActive(b, Active(b) \o s)
                    ELSE [b EXCEPT !.stdout = @ \o s]

(* echo turns the value false into the empty string. *)
Echo(b, v) == OutputWrite(b, IF v = NoContent THEN <<>> ELSE v)

ObStart(b) == [b EXCEPT !.handlers = Append(@, <<>>)]

(* What a method does when there is no buffer to act upon. *)
Complain(b) == [b EXCEPT !.stdout = Append(@, Notice)]

(* A mutant of ObFlush: the buffer that has been flushed is not stacked    *)
(* again.                                                                  *)
ObFlushUnstacked(b) ==
    IF HasActive(b) THEN OutputWrite(Popped(b), Active(b)) ELSE Complain(b)

(* The active handler is unstacked, its content written to what is then    *)
(* active, and it is stacked again, empty.                                 *)
ObFlush(b) ==
    IF HasActive(b) THEN ObStart(OutputWrite(Popped(b), Active(b)))
                    ELSE Complain(b)

ObEndFlush(b) == IF HasActive(b) THEN Popped(ObFlush(b)) ELSE Complain(b)

(* obGetFlush returns ObGetContents(b). *)
ObGetFlush(b) == ObEndFlush(b)

ObClean(b) == IF HasActive(b) THEN WithActive(b, <<>>) ELSE Complain(b)

ObEndClean(b) == IF HasActive(b) THEN Popped(ObClean(b)) ELSE ObClean(b)

(* obGetClean returns ObGetContents(b). *)
ObGetClean(b) == ObEndClean(b)

=============================================================================
