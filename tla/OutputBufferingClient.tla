----------------------- MODULE OutputBufferingClient -----------------------
(***************************************************************************)
(* A client that calls the methods of OutputBuffering in any order: what   *)
(* a sequence of calls does to the text that went through them.            *)
(***************************************************************************)
EXTENDS OutputBuffering, SequencesExt

CONSTANTS
    MaxChunks,  \* bound: how many chunks are echoed
    MaxLevel,   \* bound: how many buffers are stacked
    MaxNotices  \* bound: how many calls are made without a buffer

ASSUME ClientAssumption ==
    /\ MaxChunks \in Nat /\ MaxLevel \in Nat /\ MaxNotices \in Nat
    /\ 1 .. MaxChunks \subseteq Chunk /\ Notice \notin Chunk

VARIABLES
    ob,         \* the output buffer stack
    echoed,     \* how many chunks have been echoed
    kept        \* history: the chunks echoed and not cleaned, in order

vars == <<ob, echoed, kept>>

Init ==
    /\ ob = [handlers |-> <<>>, stdout |-> <<>>]
    /\ echoed = 0
    /\ kept = <<>>

(* What the program has written to stdout, without the notices.            *)
Written(b) ==
    FlattenSeq([i \in DOMAIN b.stdout |->
                    IF b.stdout[i] = Notice THEN <<>> ELSE <<b.stdout[i]>>])

Notices(b) == Len(b.stdout) - Len(Written(b))

(* A call that needs a buffer is also made when there is none: bounded.    *)
NoticeBound == HasActive(ob) \/ Notices(ob) < MaxNotices

CallEcho ==
    /\ echoed < MaxChunks
    /\ echoed' = echoed + 1
    /\ ob' = Echo(ob, <<echoed'>>)
    /\ kept' = Append(kept, echoed')

CallObStart ==
    /\ ObGetLevel(ob) < MaxLevel
    /\ ob' = ObStart(ob)
    /\ UNCHANGED <<echoed, kept>>

CallObFlush ==
    /\ NoticeBound
    /\ ob' = ObFlush(ob)
    /\ UNCHANGED <<echoed, kept>>

CallObEndFlush ==
    /\ NoticeBound
    /\ ob' = ObEndFlush(ob)
    /\ UNCHANGED <<echoed, kept>>

(* kept without the chunks of the active buffer, which are its last ones.  *)
KeptBelow ==
    IF HasActive(ob) THEN SubSeq(kept, 1, Len(kept) - Len(Active(ob))) ELSE kept

CallObClean ==
    /\ NoticeBound
    /\ ob' = ObClean(ob)
    /\ kept' = KeptBelow
    /\ UNCHANGED echoed

CallObEndClean ==
    /\ NoticeBound
    /\ ob' = ObEndClean(ob)
    /\ kept' = KeptBelow
    /\ UNCHANGED echoed

(* The client echoes again what obGetClean and obGetFlush returned to it,  *)
(* as a template that prints a captured text does.                         *)
CallObGetCleanAndEcho ==
    /\ HasActive(ob)
    /\ ob' = Echo(ObGetClean(ob), ObGetContents(ob))
    /\ UNCHANGED <<echoed, kept>>

Next ==
    \/ CallEcho \/ CallObStart \/ CallObFlush \/ CallObEndFlush
    \/ CallObClean \/ CallObEndClean \/ CallObGetCleanAndEcho

Spec == Init /\ [][Next]_vars

-----------------------------------------------------------------------------

(* Type invariant: the handlers hold chunks, stdout also the notices.      *)
TypeOK ==
    /\ ob \in BufferState
    /\ echoed \in 0 .. MaxChunks
    /\ kept \in Seq(Chunk)

(* No chunk is lost, duplicated or reordered by any sequence of calls: what *)
(* reached stdout, followed by the buffers from the bottom of the stack to *)
(* its top, is what has been echoed and not cleaned.  A flush therefore    *)
(* moves text and never drops it (output-buffering.ts obFlush,obEndFlush). *)
NothingLost == kept = Written(ob) \o FlattenSeq(ob.handlers)

(* A call touches the two topmost buffers at most, and stacks or unstacks  *)
(* one at most: the buffers a caller further down has opened are left as   *)
(* they are, whatever the template above it calls.                         *)
OnlyTopBuffersTouched ==
    [][ LET h == ob.handlers
            n == ob'.handlers
        IN  /\ Len(n) \in Len(h) - 1 .. Len(h) + 1
            /\ \A i \in 1 .. Len(h) - 2 : n[i] = h[i] ]_vars

=============================================================================
