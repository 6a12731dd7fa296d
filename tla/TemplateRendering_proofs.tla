---------------------- MODULE TemplateRendering_proofs ----------------------
(***************************************************************************)
(* Proofs about TemplateRendering: with renders that are awaited one after *)
(* the other, and parent() only printed, every render gets its own text    *)
(* and gives the buffer stack back, unless it was refused before it began, *)
(* for any number of renders, any nesting of calls, any texts and any      *)
(* point at which they throw; and such renders implement RenderService.    *)
(***************************************************************************)
EXTENDS TemplateRendering, SequenceTheorems, FiniteSetTheorems, TLAPS

(* A function on 1 .. n is a sequence of length n.                         *)
LEMMA FunctionIsSeq ==
    ASSUME NEW S, NEW n \in Nat, NEW f \in [1 .. n -> S]
    PROVE  f \in Seq(S) /\ Len(f) = n
OBVIOUS

-----------------------------------------------------------------------------
(* What the methods of the buffer stack do, handler by handler.            *)

(* obStart stacks an empty buffer and leaves the others alone.             *)
LEMMA ObStartStacks ==
    ASSUME NEW b \in BufferState
    PROVE  /\ ObStart(b) \in BufferState
           /\ ObGetLevel(ObStart(b)) = ObGetLevel(b) + 1
           /\ \A i \in 1 .. ObGetLevel(b) :
                  ObStart(b).handlers[i] = b.handlers[i]
           /\ ObStart(b).handlers[ObGetLevel(b) + 1] = <<>>
           /\ ObStart(b).stdout = b.stdout
<1> DEFINE h == Append(b.handlers, <<>>)
<1>1. b.handlers \in Seq(Content) /\ <<>> \in Content
  BY DEF BufferState, Content
<1>2. h \in Seq(Content) /\ Len(h) = Len(b.handlers) + 1
  BY <1>1
<1>3. /\ \A i \in 1 .. Len(b.handlers) : h[i] = b.handlers[i]
      /\ h[Len(b.handlers) + 1] = <<>>
  BY <1>1
<1>4. ObStart(b) = [b EXCEPT !.handlers = h]
  BY DEF ObStart
<1>5. ObStart(b) \in BufferState /\ ObStart(b).handlers = h
  BY <1>2, <1>4 DEF BufferState
<1>6. ObStart(b).stdout = b.stdout
  BY <1>4 DEF BufferState
<1> QED BY <1>2, <1>3, <1>5, <1>6 DEF ObGetLevel

(* Without a buffer a method writes a notice and leaves the stack empty.   *)
LEMMA ComplainKeepsStack ==
    ASSUME NEW b \in BufferState
    PROVE  Complain(b) \in BufferState /\ Complain(b).handlers = b.handlers
BY DEF Complain, BufferState

(* Unstacking leaves the other buffers alone.                              *)
LEMMA PoppedUnstacks ==
    ASSUME NEW b \in BufferState, HasActive(b)
    PROVE  /\ Popped(b) \in BufferState
           /\ ObGetLevel(Popped(b)) = ObGetLevel(b) - 1
           /\ \A i \in 1 .. ObGetLevel(b) - 1 :
                  Popped(b).handlers[i] = b.handlers[i]
<1> DEFINE n == Len(b.handlers)
           h == SubSeq(b.handlers, 1, n - 1)
<1>1. b.handlers \in Seq(Content) /\ n \in Nat /\ n > 0
  BY DEF BufferState, HasActive, ObGetLevel
<1>2. h \in Seq(Content) /\ Len(h) = n - 1
  BY <1>1
<1>3. \A i \in 1 .. n - 1 : h[i] = b.handlers[i]
  BY <1>1
<1>4. Popped(b) = [b EXCEPT !.handlers = h]
  BY DEF Popped
<1>5. Popped(b) \in BufferState /\ Popped(b).handlers = h
  BY <1>2, <1>4 DEF BufferState
<1> QED BY <1>2, <1>3, <1>5 DEF ObGetLevel

(* outputWrite appends to the active buffer, or to stdout, and nowhere else. *)
LEMMA OutputWriteAppends ==
    ASSUME NEW b \in BufferState, NEW s \in Content
    PROVE  /\ OutputWrite(b, s) \in BufferState
           /\ ObGetLevel(OutputWrite(b, s)) = ObGetLevel(b)
           /\ \A i \in 1 .. ObGetLevel(b) :
                  OutputWrite(b, s).handlers[i] =
                      IF i = ObGetLevel(b) THEN b.handlers[i] \o s
                                           ELSE b.handlers[i]
<1>1. CASE HasActive(b)
  <2> DEFINE n == Len(b.handlers)
             h == [b.handlers EXCEPT ![n] = b.handlers[n] \o s]
  <2>1. b.handlers \in Seq(Content) /\ n \in Nat /\ n > 0
    BY <1>1 DEF BufferState, HasActive, ObGetLevel
  <2>2. b.handlers[n] \o s \in Content
    BY <2>1 DEF Content
  <2>3. h \in Seq(Content) /\ Len(h) = n
    BY <2>1, <2>2
  <2>4. OutputWrite(b, s) = [b EXCEPT !.handlers = h]
    BY <1>1 DEF OutputWrite, WithActive, Active, ObGetLevel
  <2>5. OutputWrite(b, s) \in BufferState /\ OutputWrite(b, s).handlers = h
    BY <2>3, <2>4 DEF BufferState
  <2>6. \A i \in 1 .. n : h[i] = IF i = n THEN b.handlers[i] \o s
                                         ELSE b.handlers[i]
    BY <2>1
  <2> HIDE DEF h
  <2> QED BY <2>1, <2>3, <2>5, <2>6 DEF ObGetLevel
<1>2. CASE ~ HasActive(b)
  <2> DEFINE o == b.stdout \o s
  <2>1. o \in Seq(Chunk \cup {Notice})
    BY DEF BufferState, Content
  <2>2. ObGetLevel(b) = 0
    BY <1>2 DEF HasActive, ObGetLevel, BufferState
  <2>3. OutputWrite(b, s) = [b EXCEPT !.stdout = o]
    BY <1>2 DEF OutputWrite
  <2>4. OutputWrite(b, s) \in BufferState
    BY <2>1, <2>3 DEF BufferState
  <2>5. OutputWrite(b, s).handlers = b.handlers
    BY <2>3 DEF BufferState
  <2> QED BY <2>2, <2>4, <2>5 DEF ObGetLevel
<1> QED BY <1>1, <1>2

(* obEndClean unstacks the active buffer, whatever is in it.               *)
LEMMA ObEndCleanUnstacks ==
    ASSUME NEW b \in BufferState, HasActive(b)
    PROVE  /\ ObEndClean(b) \in BufferState
           /\ ObGetLevel(ObEndClean(b)) = ObGetLevel(b) - 1
           /\ \A i \in 1 .. ObGetLevel(b) - 1 :
                  ObEndClean(b).handlers[i] = b.handlers[i]
<1> DEFINE n == Len(b.handlers)
           h == [b.handlers EXCEPT ![n] = <<>>]
           c == WithActive(b, <<>>)
<1>1. b.handlers \in Seq(Content) /\ n \in Nat /\ n > 0 /\ <<>> \in Content
  BY DEF BufferState, HasActive, ObGetLevel, Content
<1>2. h \in Seq(Content) /\ Len(h) = n /\ \A i \in 1 .. n - 1 : h[i] = b.handlers[i]
  BY <1>1
<1>3. c = [b EXCEPT !.handlers = h]
  BY DEF WithActive
<1>4. c \in BufferState /\ c.handlers = h
  BY <1>2, <1>3 DEF BufferState
<1>5. ObGetLevel(c) = n /\ HasActive(c)
  BY <1>1, <1>2, <1>4 DEF ObGetLevel, HasActive
<1>6. ObEndClean(b) = Popped(c)
  BY DEF ObEndClean, ObClean
<1>7. ObGetLevel(b) = n
  BY DEF ObGetLevel
<1> HIDE DEF h, c
<1> QED BY <1>2, <1>4, <1>5, <1>6, <1>7, PoppedUnstacks

(* The loop of render's catch leaves the buffers up to the level it found. *)
LEMMA CleanedToLevel ==
    ASSUME NEW b \in BufferState, NEW level \in Nat
    PROVE  /\ CleanedTo(b, level) \in BufferState
           /\ ObGetLevel(CleanedTo(b, level)) =
                  IF ObGetLevel(b) > level THEN level ELSE ObGetLevel(b)
           /\ \A i \in 1 .. ObGetLevel(CleanedTo(b, level)) :
                  CleanedTo(b, level).handlers[i] = b.handlers[i]
<1> DEFINE n == Len(b.handlers)
           h == IF n > level THEN SubSeq(b.handlers, 1, level) ELSE b.handlers
<1>1. b.handlers \in Seq(Content) /\ n \in Nat
  BY DEF BufferState
<1>2. h \in Seq(Content) /\ Len(h) = (IF n > level THEN level ELSE n)
  BY <1>1
<1>3. \A i \in 1 .. Len(h) : h[i] = b.handlers[i]
  BY <1>1
<1>4. CleanedTo(b, level) = [b EXCEPT !.handlers = h]
  BY DEF CleanedTo
<1>5. CleanedTo(b, level) \in BufferState /\ CleanedTo(b, level).handlers = h
  BY <1>2, <1>4 DEF BufferState
<1> HIDE DEF h
<1> QED BY <1>2, <1>3, <1>5 DEF ObGetLevel

(* obFlush appends the active buffer to the one below, and empties it.     *)
LEMMA ObFlushMovesDown ==
    ASSUME NEW b \in BufferState, HasActive(b)
    PROVE  /\ ObFlush(b) \in BufferState
           /\ ObGetLevel(ObFlush(b)) = ObGetLevel(b)
           /\ HasActive(ObFlush(b))
           /\ ObFlush(b).handlers[ObGetLevel(b)] = <<>>
           /\ \A i \in 1 .. ObGetLevel(b) - 1 :
                  ObFlush(b).handlers[i] =
                      IF i = ObGetLevel(b) - 1
                      THEN b.handlers[i] \o b.handlers[ObGetLevel(b)]
                      ELSE b.handlers[i]
<1> DEFINE n == ObGetLevel(b)
           p == Popped(b)
           w == OutputWrite(p, Active(b))
<1>1. n \in Nat /\ n > 0 /\ Active(b) \in Content /\ Active(b) = b.handlers[n]
  BY DEF BufferState, HasActive, ObGetLevel, Active
<1>2. p \in BufferState /\ ObGetLevel(p) = n - 1
      /\ \A i \in 1 .. n - 1 : p.handlers[i] = b.handlers[i]
  BY PoppedUnstacks
<1>3. w \in BufferState /\ ObGetLevel(w) = n - 1
      /\ \A i \in 1 .. n - 1 : w.handlers[i] =
             IF i = n - 1 THEN b.handlers[i] \o b.handlers[n] ELSE b.handlers[i]
  <2> HIDE DEF p
  <2> QED BY <1>1, <1>2, OutputWriteAppends
<1>4. ObFlush(b) = ObStart(w)
  BY DEF ObFlush
<1>5. /\ ObStart(w) \in BufferState
      /\ ObGetLevel(ObStart(w)) = n
      /\ ObStart(w).handlers[n] = <<>>
      /\ \A i \in 1 .. n - 1 : ObStart(w).handlers[i] = w.handlers[i]
  <2> HIDE DEF w, n
  <2> QED BY <1>1, <1>3, ObStartStacks
<1>6. HasActive(ObFlush(b))
  BY <1>1, <1>4, <1>5 DEF HasActive
<1> HIDE DEF w, n
<1> QED BY <1>1, <1>3, <1>4, <1>5, <1>6 DEF n

(* obEndFlush appends the active buffer to the one below, and unstacks it. *)
LEMMA ObEndFlushMovesDown ==
    ASSUME NEW b \in BufferState, HasActive(b)
    PROVE  /\ ObEndFlush(b) \in BufferState
           /\ ObGetLevel(ObEndFlush(b)) = ObGetLevel(b) - 1
           /\ \A i \in 1 .. ObGetLevel(b) - 1 :
                  ObEndFlush(b).handlers[i] =
                      IF i = ObGetLevel(b) - 1
                      THEN b.handlers[i] \o b.handlers[ObGetLevel(b)]
                      ELSE b.handlers[i]
<1>1. ObEndFlush(b) = Popped(ObFlush(b))
  BY DEF ObEndFlush
<1>2. ObGetLevel(b) \in Nat
  BY DEF ObGetLevel, BufferState
<1> QED BY <1>1, <1>2, ObFlushMovesDown, PoppedUnstacks

-----------------------------------------------------------------------------
(* Frames and the buffers they own.                                        *)

(* The buffers above the ground are those of the frames fs, in order, each *)
(* with the text of its frame.                                             *)
Match(b, fs) ==
    /\ ObGetLevel(b) = Ground + Len(fs)
    /\ \A i \in 1 .. Len(fs) : b.handlers[Ground + i] = fs[i].text

(* A call of render recorded the level below its own buffer.               *)
LevelsRecorded(fs) ==
    \A i \in 1 .. Len(fs) :
        fs[i].kind = "render" => fs[i].level = Ground + i - 1

(* The outermost call of a task is the render that the program called.     *)
RootIsRender(fs) == fs # <<>> => fs[1].kind = "render"

FramesOk(fs) == LevelsRecorded(fs) /\ RootIsRender(fs)

(* The ground is not below the buffers of the program.                     *)
LEMMA GroundNat == Ground \in Nat /\ OuterLevel \in Nat /\ Ground >= OuterLevel
<1>1. IsFiniteSet(Refused)
  <2>1. Refused \subseteq Renders
    BY DEF Refused
  <2> QED BY <2>1, FS_Subset, RenderingAssumption
<1>2. Cardinality(Refused) \in Nat
  BY <1>1, FS_CardinalityType
<1> QED BY <1>2, RenderingAssumption DEF Ground, OuterLevel

(* The ground moves when a render is refused, and then by one buffer.      *)
LEMMA GroundStays ==
    ASSUME \A t \in Renders : status'[t] = "refused" <=> status[t] = "refused"
    PROVE  Ground' = Ground
<1>1. Refused' = Refused
  BY DEF Refused
<1> QED BY <1>1 DEF Ground

LEMMA GroundRises ==
    ASSUME TypeOK, NEW t \in Tasks, Refuse(t)
    PROVE  Ground' = Ground + 1
<1>1. Refused' = Refused \cup {t} /\ t \notin Refused
  BY DEF Refuse, Refused, TypeOK, Tasks
<1>2. IsFiniteSet(Refused)
  <2>1. Refused \subseteq Renders
    BY DEF Refused
  <2> QED BY <2>1, FS_Subset, RenderingAssumption
<1>3. Cardinality(Refused') = Cardinality(Refused) + 1
  BY <1>1, <1>2, FS_AddElement
<1>4. Cardinality(Refused) \in Nat
  BY <1>2, FS_CardinalityType
<1> QED BY <1>3, <1>4, RenderingAssumption DEF Ground, OuterLevel

LEMMA GroundKept ==
    ASSUME TypeOK, NEW t \in Tasks, Step(t), ~ Refuse(t)
    PROVE  Ground' = Ground
<1>1. CASE UNCHANGED status
  BY <1>1, GroundStays
<1>2. CASE \E u \in Tasks, new \in Statuses \ {"refused"} :
               /\ status[u] # "refused"
               /\ status' = [status EXCEPT ![u] = new]
  BY <1>2, GroundStays DEF TypeOK, Tasks
<1>3. ASSUME status[t] = "running", NEW v,
             Return(t, v) \/ Raise(t)
      PROVE  Ground' = Ground
  BY <1>1, <1>2, <1>3 DEF Return, Raise, Statuses
<1>4. ASSUME NEW u \in ParentCalls, CallParent(t, u) PROVE Ground' = Ground
  BY <1>2, <1>4 DEF CallParent, Tasks, Statuses
<1>5. CASE Start(t) \/ Throw(t) \/ Unwind(t)
  BY <1>1, <1>2, <1>5 DEF Start, Throw, Unwind, Statuses
<1>6. CASE \/ \E k \in FrameKinds : Call(t, k)
           \/ \E c \in Texts : PrintText(t, c)
           \/ PrintValue(t) \/ KeepValue(t) \/ Flush(t) \/ LeaveSourceMap(t)
  BY <1>1, <1>6 DEF Call, PrintText, PrintValue, KeepValue, Flush, LeaveSourceMap
<1>7. CASE LeaveRender(t) \/ LeaveCapture(t) \/ LeaveMacro(t)
  BY <1>3, <1>7 DEF LeaveRender, LeaveCapture, LeaveMacro, Running
<1>8. CASE LeaveSpaceless(t)
  BY <1>1, <1>3, <1>8 DEF LeaveSpaceless, Running
<1> QED BY <1>4, <1>5, <1>6, <1>7, <1>8 DEF Step

(* What Returned, Written and Flushed do to the frames, one by one.        *)
LEMMA ReturnedFrames ==
    ASSUME NEW fs \in Seq(Frame), fs # <<>>
    PROVE  /\ Returned(fs) \in Seq(Frame)
           /\ Len(Returned(fs)) = Len(fs) - 1
           /\ Len(fs) \in Nat \ {0}
           /\ \A i \in 1 .. Len(fs) - 1 : Returned(fs)[i] = fs[i]
<1> DEFINE n == Len(fs)
<1>1. n \in Nat \ {0}
  BY EmptySeq
<1>2. fs \in [1 .. n -> Frame]
  BY LenProperties
<1> HIDE DEF n
<1>3. /\ SubSeq(fs, 1, n - 1) \in Seq(Frame)
      /\ Len(SubSeq(fs, 1, n - 1)) = n - 1
      /\ \A i \in 1 .. n - 1 : SubSeq(fs, 1, n - 1)[i] = fs[i]
  <2>1. \A i \in 1 .. n - 1 : fs[i] \in Frame
    BY <1>1, <1>2
  <2>2. n - 1 \in Int /\ (1 <= n - 1 \/ n - 1 = 0)
    BY <1>1
  <2> QED BY <1>1, <2>1, <2>2, SubSeqProperties
<1> USE DEF n
<1> QED BY <1>1, <1>3 DEF Returned

LEMMA WrittenFrames ==
    ASSUME NEW fs \in Seq(Frame), NEW s \in Content
    PROVE  /\ Written(fs, s) \in Seq(Frame)
           /\ Len(Written(fs, s)) = Len(fs)
           /\ \A i \in 1 .. Len(fs) :
                  /\ Written(fs, s)[i].kind = fs[i].kind
                  /\ Written(fs, s)[i].level = fs[i].level
                  /\ Written(fs, s)[i].text =
                         IF i = Len(fs) THEN fs[i].text \o s ELSE fs[i].text
<1> DEFINE n == Len(fs)
           w(i) == IF i = n THEN [fs[i] EXCEPT !.text = @ \o s] ELSE fs[i]
<1>1. n \in Nat /\ DOMAIN fs = 1 .. n /\ \A i \in 1 .. n : fs[i] \in Frame
  OBVIOUS
<1>2. ASSUME NEW i \in 1 .. n
      PROVE  /\ w(i) \in Frame
             /\ w(i).kind = fs[i].kind
             /\ w(i).level = fs[i].level
             /\ w(i).text = IF i = n THEN fs[i].text \o s ELSE fs[i].text
  <2> DEFINE g == fs[i]
  <2>1. g \in Frame
    BY <1>1
  <2> HIDE DEF g
  <2>2. g.text \o s \in Content
    BY <2>1 DEF Frame, Content
  <2>3. /\ [g EXCEPT !.text = g.text \o s] \in Frame
        /\ [g EXCEPT !.text = g.text \o s].kind = g.kind
        /\ [g EXCEPT !.text = g.text \o s].level = g.level
        /\ [g EXCEPT !.text = g.text \o s].text = g.text \o s
    BY <2>1, <2>2 DEF Frame
  <2> QED BY <2>1, <2>3 DEF g
<1>3. Written(fs, s) = [i \in 1 .. n |-> w(i)]
  BY <1>1 DEF Written
<1> HIDE DEF w
<1>4. [i \in 1 .. n |-> w(i)] \in [1 .. n -> Frame]
  BY <1>2
<1>5. Written(fs, s) \in Seq(Frame) /\ Len(Written(fs, s)) = n
  BY <1>1, <1>3, <1>4, FunctionIsSeq
<1> QED BY <1>1, <1>2, <1>3, <1>5

LEMMA FlushedFrames ==
    ASSUME NEW fs \in Seq(Frame), fs # <<>>
    PROVE  /\ Flushed(fs) \in Seq(Frame)
           /\ Len(Flushed(fs)) = Len(fs)
           /\ \A i \in 1 .. Len(fs) :
                  /\ Flushed(fs)[i].kind = fs[i].kind
                  /\ Flushed(fs)[i].level = fs[i].level
                  /\ Flushed(fs)[i].text =
                         IF i = Len(fs) THEN <<>>
                         ELSE IF i = Len(fs) - 1
                              THEN fs[i].text \o fs[Len(fs)].text
                              ELSE fs[i].text
<1> DEFINE n == Len(fs)
           r == Returned(fs)
           w == Written(r, fs[n].text)
           f == [fs[n] EXCEPT !.text = <<>>]
<1>1. n \in Nat \ {0} /\ fs[n] \in Frame /\ fs[n].text \in Content
  <2>1. n \in Nat /\ n > 0
    BY EmptySeq
  <2>2. fs[n] \in Frame
    BY <2>1
  <2> QED BY <2>1, <2>2 DEF Frame
<1>2. r \in Seq(Frame) /\ Len(r) = n - 1 /\ \A i \in 1 .. n - 1 : r[i] = fs[i]
  BY ReturnedFrames
<1>3. /\ w \in Seq(Frame) /\ Len(w) = n - 1
      /\ \A i \in 1 .. n - 1 :
             /\ w[i].kind = fs[i].kind
             /\ w[i].level = fs[i].level
             /\ w[i].text = IF i = n - 1 THEN fs[i].text \o fs[n].text
                                        ELSE fs[i].text
  <2> DEFINE s == fs[n].text
  <2>1. r \in Seq(Frame) /\ s \in Content /\ Len(r) = n - 1
    BY <1>1, <1>2
  <2> HIDE DEF r, s
  <2>2. /\ Written(r, s) \in Seq(Frame)
        /\ Len(Written(r, s)) = Len(r)
        /\ \A i \in 1 .. Len(r) :
               /\ Written(r, s)[i].kind = r[i].kind
               /\ Written(r, s)[i].level = r[i].level
               /\ Written(r, s)[i].text =
                      IF i = Len(r) THEN r[i].text \o s ELSE r[i].text
    BY <2>1, WrittenFrames
  <2> HIDE DEF n
  <2> QED BY <1>2, <2>1, <2>2 DEF s
<1>4. f \in Frame /\ f.kind = fs[n].kind /\ f.level = fs[n].level /\ f.text = <<>>
  <2> DEFINE g == fs[n]
  <2>1. g \in Frame /\ <<>> \in Content
    BY <1>1 DEF Content
  <2> HIDE DEF g
  <2>2. [g EXCEPT !.text = <<>>] \in Frame
        /\ [g EXCEPT !.text = <<>>].kind = g.kind
        /\ [g EXCEPT !.text = <<>>].level = g.level
        /\ [g EXCEPT !.text = <<>>].text = <<>>
    BY <2>1 DEF Frame
  <2> QED BY <2>2 DEF g
<1>5. Flushed(fs) = Append(w, f)
  BY DEF Flushed
<1> HIDE DEF w, f
<1>6. /\ Append(w, f) \in Seq(Frame) /\ Len(Append(w, f)) = n
      /\ \A i \in 1 .. n - 1 : Append(w, f)[i] = w[i]
      /\ Append(w, f)[n] = f
  BY <1>1, <1>3, <1>4
<1> HIDE DEF n
<1>7. ASSUME NEW i \in 1 .. n
      PROVE  /\ Append(w, f)[i].kind = fs[i].kind
             /\ Append(w, f)[i].level = fs[i].level
             /\ Append(w, f)[i].text =
                    IF i = n THEN <<>>
                    ELSE IF i = n - 1 THEN fs[i].text \o fs[n].text
                                      ELSE fs[i].text
  <2>1. CASE i = n
    BY <2>1, <1>1, <1>4, <1>6
  <2>2. CASE i \in 1 .. n - 1
    BY <2>2, <1>1, <1>3, <1>6
  <2>3. i = n \/ i \in 1 .. n - 1
    BY <1>1
  <2> QED BY <2>1, <2>2, <2>3
<1> QED BY <1>5, <1>6, <1>7 DEF n

-----------------------------------------------------------------------------
(* How a step of the innermost frame keeps buffers and frames together.    *)

(* A call: obStart, and a frame that recorded the level.                   *)
LEMMA CallKeepsMatch ==
    ASSUME NEW b \in BufferState, NEW fs \in Seq(Frame), NEW kind \in FrameKinds,
           Match(b, fs), FramesOk(fs), fs = <<>> => kind = "render"
    PROVE  LET gs == Append(fs, NewFrame(kind, b))
           IN  gs \in Seq(Frame) /\ Match(ObStart(b), gs) /\ FramesOk(gs)
<1> DEFINE n == Len(fs)
           f == NewFrame(kind, b)
           gs == Append(fs, f)
<1>1. n \in Nat /\ Ground \in Nat /\ ObGetLevel(b) = Ground + n
  BY GroundNat DEF Match
<1>2. f \in Frame /\ f.kind = kind /\ f.level = Ground + n /\ f.text = <<>>
  BY <1>1 DEF NewFrame, Frame, Content
<1> HIDE DEF f
<1>3. /\ gs \in Seq(Frame) /\ Len(gs) = n + 1
      /\ \A i \in 1 .. n : gs[i] = fs[i]
      /\ gs[n + 1] = f
  BY <1>2
<1> HIDE DEF gs
<1>4. Match(ObStart(b), gs)
  <2>1. ObGetLevel(ObStart(b)) = Ground + Len(gs)
    BY <1>1, <1>3, ObStartStacks
  <2>2. ASSUME NEW i \in 1 .. Len(gs)
        PROVE  ObStart(b).handlers[Ground + i] = gs[i].text
    <3>1. CASE i = n + 1
      BY <3>1, <1>1, <1>2, <1>3, ObStartStacks
    <3>2. CASE i \in 1 .. n
      <4>1. Ground + i \in 1 .. ObGetLevel(b)
        BY <3>2, <1>1
      <4> QED BY <3>2, <4>1, <1>3, ObStartStacks DEF Match
    <3> QED BY <1>1, <1>3, <3>1, <3>2
  <2> QED BY <2>1, <2>2 DEF Match
<1>5. LevelsRecorded(gs)
  BY <1>1, <1>2, <1>3 DEF LevelsRecorded, FramesOk
<1>6. RootIsRender(gs)
  <2>1. CASE fs = <<>>
    BY <2>1, <1>2, <1>3 DEF RootIsRender
  <2>2. CASE fs # <<>>
    <3>1. n > 0
      BY <2>2, EmptySeq
    <3> QED BY <2>2, <3>1, <1>1, <1>3 DEF RootIsRender, FramesOk
  <2> QED BY <2>1, <2>2
<1> QED BY <1>3, <1>4, <1>5, <1>6 DEF FramesOk, gs, f

(* An echo of s: into the buffer of the innermost frame.                   *)
LEMMA EchoKeepsMatch ==
    ASSUME NEW b \in BufferState, NEW fs \in Seq(Frame), NEW s \in Content,
           fs # <<>>, Match(b, fs), FramesOk(fs)
    PROVE  /\ Echo(b, s) \in BufferState
           /\ Written(fs, s) \in Seq(Frame) /\ Written(fs, s) # <<>>
           /\ Match(Echo(b, s), Written(fs, s)) /\ FramesOk(Written(fs, s))
<1> DEFINE n == Len(fs)
           gs == Written(fs, s)
<1>1. n \in Nat \ {0} /\ Ground \in Nat /\ ObGetLevel(b) = Ground + n
  BY GroundNat, EmptySeq DEF Match
<1>2. Echo(b, s) = OutputWrite(b, s)
  BY NoContentAssumption DEF Echo, Content
<1>3. /\ gs \in Seq(Frame) /\ Len(gs) = n
      /\ \A i \in 1 .. n :
             /\ gs[i].kind = fs[i].kind
             /\ gs[i].level = fs[i].level
             /\ gs[i].text = IF i = n THEN fs[i].text \o s ELSE fs[i].text
  BY WrittenFrames
<1> HIDE DEF gs
<1>4. gs # <<>>
  BY <1>1, <1>3, EmptySeq
<1>5. ASSUME NEW i \in 1 .. n
      PROVE  OutputWrite(b, s).handlers[Ground + i] = gs[i].text
  <2>1. Ground + i \in 1 .. ObGetLevel(b)
        /\ (Ground + i = ObGetLevel(b) <=> i = n)
    BY <1>1
  <2>2. b.handlers[Ground + i] = fs[i].text
    BY DEF Match
  <2> QED BY <2>1, <2>2, <1>3, OutputWriteAppends
<1>6. Match(Echo(b, s), gs)
  BY <1>1, <1>2, <1>3, <1>5, OutputWriteAppends DEF Match
<1>7. FramesOk(gs)
  BY <1>1, <1>3 DEF FramesOk, LevelsRecorded, RootIsRender
<1> QED BY <1>2, <1>3, <1>4, <1>6, <1>7, OutputWriteAppends DEF gs

(* The innermost frame returns the text it wrote, and gives its buffer back. *)
LEMMA ReturnKeepsMatch ==
    ASSUME NEW b \in BufferState, NEW fs \in Seq(Frame),
           fs # <<>>, Match(b, fs), FramesOk(fs)
    PROVE  /\ HasActive(b)
           /\ ObGetContents(b) = fs[Len(fs)].text
           /\ fs[Len(fs)].text \in Content
           /\ ObEndClean(b) \in BufferState
           /\ Returned(fs) \in Seq(Frame)
           /\ Len(Returned(fs)) = Len(fs) - 1
           /\ Match(ObEndClean(b), Returned(fs)) /\ FramesOk(Returned(fs))
<1> DEFINE n == Len(fs)
           gs == Returned(fs)
<1>1. n \in Nat \ {0} /\ Ground \in Nat /\ ObGetLevel(b) = Ground + n
  BY GroundNat, EmptySeq DEF Match
<1>2. HasActive(b) /\ ObGetContents(b) = fs[n].text
  BY <1>1 DEF HasActive, ObGetContents, Active, Match
<1>3. fs[n] \in Frame
  BY <1>1
<1>4. gs \in Seq(Frame) /\ Len(gs) = n - 1 /\ \A i \in 1 .. n - 1 : gs[i] = fs[i]
  BY ReturnedFrames
<1> HIDE DEF gs
<1>5. ObEndClean(b) \in BufferState /\ ObGetLevel(ObEndClean(b)) = Ground + n - 1
  BY <1>1, <1>2, ObEndCleanUnstacks
<1>6. ASSUME NEW i \in 1 .. n - 1
      PROVE  ObEndClean(b).handlers[Ground + i] = gs[i].text
  <2>1. Ground + i \in 1 .. ObGetLevel(b) - 1 /\ i \in 1 .. n
    BY <1>1
  <2>2. b.handlers[Ground + i] = fs[i].text
    BY <2>1 DEF Match
  <2> QED BY <2>1, <2>2, <1>2, <1>4, ObEndCleanUnstacks
<1>7. Match(ObEndClean(b), gs)
  BY <1>1, <1>4, <1>5, <1>6 DEF Match
<1>8. FramesOk(gs)
  <2>1. LevelsRecorded(gs)
    BY <1>1, <1>4 DEF FramesOk, LevelsRecorded
  <2>2. gs # <<>> => 1 \in 1 .. n - 1
    BY <1>1, <1>4, EmptySeq
  <2> QED BY <2>1, <2>2, <1>4 DEF FramesOk, RootIsRender
<1>9. fs[n].text \in Content
  BY <1>3 DEF Frame
<1> QED BY <1>2, <1>4, <1>5, <1>7, <1>8, <1>9 DEF gs

(* A flush: the text of the innermost frame is now the next frame's, or,   *)
(* below the outermost one, of the buffers that no frame owns.             *)
LEMMA FlushKeepsMatch ==
    ASSUME NEW b \in BufferState, NEW fs \in Seq(Frame),
           fs # <<>>, Match(b, fs), FramesOk(fs)
    PROVE  /\ HasActive(b)
           /\ ObFlush(b) \in BufferState
           /\ Flushed(fs) \in Seq(Frame) /\ Flushed(fs) # <<>>
           /\ Match(ObFlush(b), Flushed(fs)) /\ FramesOk(Flushed(fs))
<1> DEFINE n == Len(fs)
           gs == Flushed(fs)
<1>1. n \in Nat \ {0} /\ Ground \in Nat /\ ObGetLevel(b) = Ground + n
  BY GroundNat, EmptySeq DEF Match
<1>2. HasActive(b)
  BY <1>1 DEF HasActive
<1>3. /\ gs \in Seq(Frame) /\ Len(gs) = n
      /\ \A i \in 1 .. n :
             /\ gs[i].kind = fs[i].kind
             /\ gs[i].level = fs[i].level
             /\ gs[i].text = IF i = n THEN <<>>
                             ELSE IF i = n - 1 THEN fs[i].text \o fs[n].text
                                               ELSE fs[i].text
  BY FlushedFrames
<1> HIDE DEF gs
<1>4. ASSUME NEW i \in 1 .. n
      PROVE  ObFlush(b).handlers[Ground + i] = gs[i].text
  <2>1. /\ b.handlers[Ground + i] = fs[i].text
        /\ b.handlers[Ground + n] = fs[n].text
    BY <1>1 DEF Match
  <2>2. CASE i = n
    BY <2>2, <1>1, <1>2, <1>3, ObFlushMovesDown
  <2>3. CASE i # n
    <3>1. Ground + i \in 1 .. ObGetLevel(b) - 1
          /\ (Ground + i = ObGetLevel(b) - 1 <=> i = n - 1)
      BY <2>3, <1>1
    <3>2. ObFlush(b).handlers[Ground + i] =
              IF Ground + i = ObGetLevel(b) - 1
              THEN b.handlers[Ground + i] \o b.handlers[ObGetLevel(b)]
              ELSE b.handlers[Ground + i]
      BY <3>1, <1>2, ObFlushMovesDown
    <3>3. ObFlush(b).handlers[Ground + i] =
              IF i = n - 1 THEN fs[i].text \o fs[n].text ELSE fs[i].text
      BY <2>1, <3>1, <3>2, <1>1
    <3> QED BY <2>3, <3>3, <1>3
  <2> QED BY <2>2, <2>3
<1>5. Match(ObFlush(b), gs)
  BY <1>1, <1>2, <1>3, <1>4, ObFlushMovesDown DEF Match
<1>6. FramesOk(gs) /\ gs # <<>>
  BY <1>1, <1>3, EmptySeq DEF FramesOk, LevelsRecorded, RootIsRender
<1> QED BY <1>2, <1>3, <1>5, <1>6, ObFlushMovesDown DEF gs

(* A frame that is not a render has a frame around it.                     *)
LEMMA InnerFrame ==
    ASSUME NEW fs \in Seq(Frame), fs # <<>>, FramesOk(fs),
           fs[Len(fs)].kind # "render"
    PROVE  Len(fs) \in Nat /\ Len(fs) > 1
BY EmptySeq DEF FramesOk, RootIsRender

(* The end of a source map block: the text goes to the frame around it.    *)
LEMMA HandDownKeepsMatch ==
    ASSUME NEW b \in BufferState, NEW fs \in Seq(Frame),
           fs # <<>>, Match(b, fs), FramesOk(fs), fs[Len(fs)].kind # "render"
    PROVE  LET gs == Written(Returned(fs), fs[Len(fs)].text)
           IN  /\ ObEndFlush(b) \in BufferState
               /\ gs \in Seq(Frame) /\ gs # <<>>
               /\ Match(ObEndFlush(b), gs) /\ FramesOk(gs)
<1> DEFINE n == Len(fs)
           rs == Returned(fs)
           s == fs[n].text
           gs == Written(rs, s)
<1>1. n \in Nat /\ n > 1 /\ Ground \in Nat /\ ObGetLevel(b) = Ground + n
  BY GroundNat, InnerFrame DEF Match
<1>2. HasActive(b)
  BY <1>1 DEF HasActive
<1>3. rs \in Seq(Frame) /\ Len(rs) = n - 1 /\ s \in Content
      /\ FramesOk(rs) /\ \A i \in 1 .. n - 1 : rs[i] = fs[i]
  BY ReturnKeepsMatch, ReturnedFrames
<1> HIDE DEF rs, s
<1>4. /\ gs \in Seq(Frame) /\ Len(gs) = n - 1
      /\ \A i \in 1 .. n - 1 :
             /\ gs[i].kind = fs[i].kind
             /\ gs[i].level = fs[i].level
             /\ gs[i].text = IF i = n - 1 THEN fs[i].text \o s ELSE fs[i].text
  BY <1>3, WrittenFrames
<1> HIDE DEF gs
<1>5. ASSUME NEW i \in 1 .. n - 1
      PROVE  ObEndFlush(b).handlers[Ground + i] = gs[i].text
  <2>1. /\ b.handlers[Ground + i] = fs[i].text
        /\ b.handlers[Ground + n] = s
    BY <1>1 DEF Match, s
  <2>2. Ground + i \in 1 .. ObGetLevel(b) - 1
        /\ (Ground + i = ObGetLevel(b) - 1 <=> i = n - 1)
    BY <1>1
  <2>3. ObEndFlush(b).handlers[Ground + i] =
            IF Ground + i = ObGetLevel(b) - 1
            THEN b.handlers[Ground + i] \o b.handlers[ObGetLevel(b)]
            ELSE b.handlers[Ground + i]
    BY <2>2, <1>2, ObEndFlushMovesDown
  <2>4. ObEndFlush(b).handlers[Ground + i] =
            IF i = n - 1 THEN fs[i].text \o s ELSE fs[i].text
    BY <2>1, <2>2, <2>3, <1>1
  <2> QED BY <2>4, <1>4
<1>6. Match(ObEndFlush(b), gs)
  BY <1>1, <1>2, <1>4, <1>5, ObEndFlushMovesDown DEF Match
<1>7. FramesOk(gs) /\ gs # <<>>
  <2>1. LevelsRecorded(gs)
    BY <1>1, <1>3, <1>4 DEF FramesOk, LevelsRecorded
  <2>2. 1 \in 1 .. n - 1 /\ fs[1].kind = "render"
    BY <1>1 DEF FramesOk, RootIsRender
  <2> QED BY <1>1, <1>4, <2>1, <2>2, EmptySeq DEF FramesOk, RootIsRender
<1> QED BY <1>2, <1>4, <1>6, <1>7, ObEndFlushMovesDown DEF gs, rs, s

-----------------------------------------------------------------------------
(* Type correctness, whatever interleaves and whatever throws.             *)

LEMMA BufferTypes ==
    ASSUME NEW b \in BufferState
    PROVE  /\ ObStart(b) \in BufferState
           /\ ObFlush(b) \in BufferState
           /\ ObEndFlush(b) \in BufferState
           /\ ObEndClean(b) \in BufferState
           /\ ObGetContents(b) \in Content \cup {NoContent}
           /\ HasActive(b) => ObGetContents(b) \in Content
           /\ ObGetLevel(b) \in Nat
<1>1. ObGetLevel(b) \in Nat
  BY DEF ObGetLevel, BufferState
<1>2. CASE HasActive(b)
  <2>1. Active(b) \in Content
    BY <1>2 DEF HasActive, Active, ObGetLevel, BufferState
  <2> QED BY <1>1, <1>2, <2>1, ObStartStacks, ObFlushMovesDown,
             ObEndFlushMovesDown, ObEndCleanUnstacks DEF ObGetContents
<1>3. CASE ~ HasActive(b)
  BY <1>1, <1>3, ObStartStacks, ComplainKeepsStack
     DEF ObGetContents, ObFlush, ObEndFlush, ObEndClean, ObClean
<1> QED BY <1>2, <1>3

LEMMA EchoType ==
    ASSUME NEW b \in BufferState, NEW v \in Content \cup {NoContent}
    PROVE  Echo(b, v) \in BufferState
<1>1. <<>> \in Content
  BY DEF Content
<1> QED BY <1>1, OutputWriteAppends DEF Echo

LEMMA SqueezeType ==
    ASSUME NEW s \in Content
    PROVE  Squeeze(s) \in Content
<1>1. Len(s) \in Nat /\ s \in [1 .. Len(s) -> Chunk]
  BY DEF Content
<1>2. Squeeze(s) \in [1 .. Len(s) -> Chunk]
  BY <1>1, RenderingAssumption DEF Squeeze
<1> QED BY <1>1, <1>2, FunctionIsSeq DEF Content

LEMMA NewFrameType ==
    ASSUME NEW b \in BufferState, NEW k \in FrameKinds
    PROVE  NewFrame(k, b) \in Frame
BY BufferTypes DEF NewFrame, Frame, Content

(* A task that lives has a frame.                                          *)
LEMMA LiveFrames ==
    ASSUME TypeOK, NEW t \in Tasks, Live(t)
    PROVE  /\ frames[t] \in Seq(Frame) /\ frames[t] # <<>>
           /\ Depth(t) \in Nat \ {0}
           /\ Top(t) = frames[t][Len(frames[t])]
           /\ Top(t) \in Frame /\ Top(t).text \in Content
<1>1. frames[t] \in Seq(Frame) /\ frames[t] # <<>>
  BY DEF TypeOK
<1>2. Depth(t) \in Nat \ {0}
  BY <1>1, EmptySeq DEF Depth
<1>3. Top(t) \in Frame
  BY <1>1, <1>2 DEF Top, Depth
<1> QED BY <1>1, <1>2, <1>3 DEF Top, Frame, Depth

(* The return of a call, to a frame or to the holder of the promise.       *)
LEMMA ReturnType ==
    ASSUME TypeOK, NEW t \in Tasks, status[t] = "running",
           NEW v \in Content \cup {NoContent}, Return(t, v),
           ob' \in BufferState, chunks' = chunks
    PROVE  TypeOK'
<1>0. Live(t)
  BY DEF Live
<1>1. /\ frames[t] \in Seq(Frame) /\ frames[t] # <<>>
      /\ Depth(t) \in Nat \ {0} /\ Top(t).text \in Content
  BY <1>0, LiveFrames
<1>2. CASE Depth(t) = 1
  <2>1. /\ status' = [status EXCEPT ![t] = "fulfilled"]
        /\ result' = [result EXCEPT ![t] = v]
        /\ own' = [own EXCEPT ![t] = Top(t).text]
        /\ frames' = [frames EXCEPT ![t] = <<>>]
        /\ value' = value
    BY <1>2 DEF Return
  <2>2. <<>> \in Seq(Frame)
    OBVIOUS
  <2>3. /\ status' \in [Tasks -> Statuses]
        /\ frames' \in [Tasks -> Seq(Frame)]
        /\ result' \in [Tasks -> Content \cup {NoContent, Nothing}]
        /\ own' \in [Tasks -> Content \cup {Nothing}]
    BY <1>1, <2>1, <2>2 DEF TypeOK, Statuses
  <2>4. \A u \in Tasks : Live(u)' <=> frames'[u] # <<>>
    BY <2>1 DEF TypeOK, Live
  <2> QED BY <2>1, <2>3, <2>4 DEF TypeOK
<1>3. CASE Depth(t) # 1
  <2>1. /\ status' = status /\ result' = result /\ own' = own
        /\ frames' = [frames EXCEPT ![t] = Returned(frames[t])]
        /\ value' = [value EXCEPT ![t] = v]
    BY <1>3 DEF Return
  <2>2. Returned(frames[t]) \in Seq(Frame) /\ Len(Returned(frames[t])) = Depth(t) - 1
    BY <1>1, ReturnedFrames DEF Depth
  <2>3. Returned(frames[t]) # <<>>
    BY <1>1, <1>3, <2>2
  <2>4. /\ frames' \in [Tasks -> Seq(Frame)]
        /\ value' \in [Tasks -> Content \cup {NoContent, Nothing}]
    BY <2>1, <2>2 DEF TypeOK
  <2>5. \A u \in Tasks : Live(u)' <=> frames'[u] # <<>>
    BY <2>1, <2>3, <1>0 DEF TypeOK, Live
  <2> QED BY <2>1, <2>4, <2>5 DEF TypeOK
<1> QED BY <1>2, <1>3

LEMMA RaiseType ==
    ASSUME TypeOK, NEW t \in Tasks, status[t] = "running", Raise(t),
           ob' \in BufferState, chunks' = chunks
    PROVE  TypeOK'
BY DEF Raise, TypeOK, Live, Statuses

(* What the code of the innermost frame writes, calls or flushes leaves    *)
(* the task with at least one frame.                                       *)
LEMMA FramesStepType ==
    ASSUME TypeOK, NEW t \in Tasks, status[t] = "running",
           NEW fs \in Seq(Frame), fs # <<>>,
           frames' = [frames EXCEPT ![t] = fs],
           ob' \in BufferState,
           value' \in [Tasks -> Content \cup {NoContent, Nothing}],
           chunks' \in [Tasks -> 0 .. MaxChunks],
           UNCHANGED <<status, result, own>>
    PROVE  TypeOK'
<1>1. frames' \in [Tasks -> Seq(Frame)]
  BY DEF TypeOK
<1>2. \A u \in Tasks : Live(u)' <=> frames'[u] # <<>>
  BY DEF TypeOK, Live
<1> QED BY <1>1, <1>2 DEF TypeOK

(* The outermost frame of a task is a render, or the block of a parent().  *)
RootOk(fs) == fs # <<>> => fs[1].kind \in {"render", "block"}

TypeInv == TypeOK /\ \A t \in Tasks : RootOk(frames[t])

(* The frames after a step of the innermost one, as FramesStepType needs   *)
(* them.                                                                   *)
LEMMA StepFrames ==
    ASSUME NEW fs \in Seq(Frame), fs # <<>>, RootOk(fs)
    PROVE  /\ \A k \in FrameKinds : \A b \in BufferState :
                  LET gs == Append(fs, NewFrame(k, b))
                  IN  gs \in Seq(Frame) /\ gs # <<>> /\ RootOk(gs)
           /\ \A s \in Content :
                  LET gs == Written(fs, s)
                  IN  gs \in Seq(Frame) /\ gs # <<>> /\ RootOk(gs)
           /\ Flushed(fs) \in Seq(Frame) /\ Flushed(fs) # <<>> /\ RootOk(Flushed(fs))
           /\ Returned(fs) \in Seq(Frame) /\ RootOk(Returned(fs))
           /\ fs[Len(fs)].kind \notin {"render", "block"} => Returned(fs) # <<>>
<1> DEFINE n == Len(fs)
<1>1. n \in Nat \ {0} /\ fs[1].kind \in {"render", "block"}
  BY EmptySeq DEF RootOk
<1>2. ASSUME NEW k \in FrameKinds, NEW b \in BufferState
      PROVE  LET gs == Append(fs, NewFrame(k, b))
             IN  gs \in Seq(Frame) /\ gs # <<>> /\ RootOk(gs)
  <2> DEFINE f == NewFrame(k, b)
  <2>1. f \in Frame
    BY NewFrameType
  <2> HIDE DEF f
  <2>2. Append(fs, f) \in Seq(Frame) /\ Append(fs, f) # <<>>
        /\ Append(fs, f)[1] = fs[1]
    BY <1>1, <2>1, AppendProperties
  <2> QED BY <1>1, <2>2 DEF RootOk, f
<1>3. ASSUME NEW s \in Content
      PROVE  LET gs == Written(fs, s)
             IN  gs \in Seq(Frame) /\ gs # <<>> /\ RootOk(gs)
  <2>1. Written(fs, s) \in Seq(Frame) /\ Len(Written(fs, s)) = n
        /\ Written(fs, s)[1].kind = fs[1].kind
    BY <1>1, WrittenFrames
  <2> QED BY <1>1, <2>1, EmptySeq DEF RootOk
<1>4. Flushed(fs) \in Seq(Frame) /\ Flushed(fs) # <<>> /\ RootOk(Flushed(fs))
  <2>1. Flushed(fs) \in Seq(Frame) /\ Len(Flushed(fs)) = n
        /\ Flushed(fs)[1].kind = fs[1].kind
    BY <1>1, FlushedFrames
  <2> QED BY <1>1, <2>1, EmptySeq DEF RootOk
<1>5. /\ Returned(fs) \in Seq(Frame) /\ RootOk(Returned(fs))
      /\ fs[n].kind \notin {"render", "block"} => Returned(fs) # <<>>
  <2>1. Returned(fs) \in Seq(Frame) /\ Len(Returned(fs)) = n - 1
        /\ \A i \in 1 .. n - 1 : Returned(fs)[i] = fs[i]
    BY ReturnedFrames
  <2>2. CASE n = 1
    BY <1>1, <2>1, <2>2, EmptySeq DEF RootOk
  <2>3. CASE n # 1
    <3>1. 1 \in 1 .. n - 1
      <4> HIDE DEF n
      <4> QED BY <1>1, <2>3
    <3> QED BY <1>1, <2>1, <3>1, EmptySeq DEF RootOk
  <2> QED BY <2>2, <2>3
<1> QED BY <1>2, <1>3, <1>4, <1>5

LEMMA InitType == Init => TypeInv
<1> SUFFICES ASSUME Init PROVE TypeInv
  OBVIOUS
<1>1. <<>> \in Seq(Frame) /\ <<>> \in Seq(Chunk \cup {Notice})
  OBVIOUS
<1>2. ob \in BufferState
  BY <1>1, RenderingAssumption DEF Init, BufferState
<1>3. /\ status \in [Tasks -> Statuses]
      /\ frames \in [Tasks -> Seq(Frame)]
      /\ value \in [Tasks -> Content \cup {NoContent, Nothing}]
      /\ result \in [Tasks -> Content \cup {NoContent, Nothing}]
      /\ own \in [Tasks -> Content \cup {Nothing}]
  BY <1>1 DEF Init, Statuses
<1>4. chunks \in [Tasks -> 0 .. MaxChunks]
  BY RenderingAssumption DEF Init
<1>5. \A t \in Tasks : (Live(t) <=> frames[t] # <<>>) /\ RootOk(frames[t])
  BY DEF Init, Live, RootOk
<1> QED BY <1>2, <1>3, <1>4, <1>5 DEF TypeInv, TypeOK

LEMMA StepType == TypeInv /\ [Next]_vars => TypeInv'
<1> SUFFICES ASSUME TypeInv, [Next]_vars PROVE TypeInv'
  OBVIOUS
<1> USE DEF TypeInv
<1>1. ASSUME NEW t \in Tasks, Start(t) PROVE TypeInv'
  <2> DEFINE fs == <<NewFrame("render", ob)>>
  <2>1. ob \in BufferState
    BY DEF TypeOK
  <2>2. NewFrame("render", ob) \in Frame /\ NewFrame("render", ob).kind = "render"
    BY <2>1, NewFrameType DEF FrameKinds, NewFrame
  <2>3. fs \in Seq(Frame) /\ fs # <<>> /\ RootOk(fs)
    BY <2>2 DEF RootOk
  <2> HIDE DEF fs
  <2>4. frames' = [frames EXCEPT ![t] = fs] /\ ob' \in BufferState
    BY <1>1, <2>1, BufferTypes DEF Start, fs
  <2>5. status' \in [Tasks -> Statuses] /\ frames' \in [Tasks -> Seq(Frame)]
    BY <1>1, <2>3, <2>4 DEF Start, TypeOK, Statuses
  <2>6. \A u \in Tasks : (Live(u)' <=> frames'[u] # <<>>) /\ RootOk(frames'[u])
    BY <1>1, <2>3, <2>4 DEF Start, TypeOK, Live
  <2> QED BY <1>1, <2>4, <2>5, <2>6 DEF Start, TypeOK
<1>2. ASSUME NEW t \in Tasks, NEW u \in ParentCalls, CallParent(t, u) PROVE TypeInv'
  <2> DEFINE fs == <<NewFrame("block", ob)>>
  <2>0. u \in Tasks /\ t # u /\ ob \in BufferState
    BY <1>2 DEF CallParent, Running, Tasks, TypeOK
  <2>2. NewFrame("block", ob) \in Frame /\ NewFrame("block", ob).kind = "block"
    BY <2>0, NewFrameType DEF FrameKinds, NewFrame
  <2>3. fs \in Seq(Frame) /\ fs # <<>> /\ RootOk(fs)
    BY <2>2 DEF RootOk
  <2> HIDE DEF fs
  <2>4. frames' = [frames EXCEPT ![u] = fs] /\ ob' \in BufferState
    BY <1>2, <2>0, BufferTypes DEF CallParent, fs
  <2>5. <<PromiseChunk>> \in Content
    BY RenderingAssumption DEF Content
  <2>6. /\ status' \in [Tasks -> Statuses] /\ frames' \in [Tasks -> Seq(Frame)]
        /\ value' \in [Tasks -> Content \cup {NoContent, Nothing}]
    BY <1>2, <2>0, <2>3, <2>4, <2>5 DEF CallParent, TypeOK, Statuses
  <2>7. \A w \in Tasks : (Live(w)' <=> frames'[w] # <<>>) /\ RootOk(frames'[w])
    BY <1>2, <2>0, <2>3, <2>4 DEF CallParent, TypeOK, Live
  <2> QED BY <1>2, <2>4, <2>6, <2>7 DEF CallParent, TypeOK
<1>3. ASSUME NEW t \in Tasks, status[t] = "running",
             \/ \E k \in FrameKinds : Call(t, k)
             \/ \E c \in Texts : PrintText(t, c)
             \/ PrintValue(t) \/ KeepValue(t) \/ Flush(t) \/ LeaveSourceMap(t)
      PROVE  TypeInv'
  <2> DEFINE fs == frames[t]
  <2>1. /\ ob \in BufferState /\ fs \in Seq(Frame) /\ fs # <<>> /\ RootOk(fs)
        /\ Top(t) = fs[Len(fs)] /\ Top(t).text \in Content
        /\ value \in [Tasks -> Content \cup {NoContent, Nothing}]
        /\ chunks \in [Tasks -> 0 .. MaxChunks]
    BY <1>3, LiveFrames DEF TypeOK, Live
  <2>2. ASSUME NEW gs \in Seq(Frame), gs # <<>>, RootOk(gs),
               frames' = [frames EXCEPT ![t] = gs],
               ob' \in BufferState,
               value' \in [Tasks -> Content \cup {NoContent, Nothing}],
               chunks' \in [Tasks -> 0 .. MaxChunks],
               UNCHANGED <<status, result, own>>
        PROVE  TypeInv'
    <3>1. TypeOK'
      BY <1>3, <2>2, FramesStepType
    <3>2. \A u \in Tasks : RootOk(frames'[u])
      BY <2>2 DEF TypeOK
    <3> QED BY <3>1, <3>2
  <2>3. CASE \E k \in FrameKinds : Call(t, k)
    <3>1. PICK k \in FrameKinds : Call(t, k)
      BY <2>3
    <3> DEFINE gs == Append(fs, NewFrame(k, ob))
    <3>2. gs \in Seq(Frame) /\ gs # <<>> /\ RootOk(gs)
      BY <2>1, StepFrames
    <3>3. frames' = [frames EXCEPT ![t] = gs] /\ ob' \in BufferState
          /\ UNCHANGED <<status, value, result, own, chunks>>
      BY <3>1, <2>1, BufferTypes DEF Call
    <3> HIDE DEF gs
    <3> QED BY <2>1, <2>2, <3>2, <3>3
  <2>4. CASE \E c \in Texts : PrintText(t, c)
    <3>1. PICK c \in Texts : PrintText(t, c)
      BY <2>4
    <3> DEFINE gs == Written(fs, <<c>>)
    <3>2. <<c>> \in Content
      BY RenderingAssumption DEF Content
    <3>3. gs \in Seq(Frame) /\ gs # <<>> /\ RootOk(gs)
      BY <2>1, <3>2, StepFrames
    <3>4. frames' = [frames EXCEPT ![t] = gs] /\ ob' \in BufferState
          /\ UNCHANGED <<status, value, result, own>>
      BY <3>1, <2>1, <3>2, EchoType DEF PrintText
    <3>5. chunks' \in [Tasks -> 0 .. MaxChunks]
      BY <3>1, <2>1, RenderingAssumption DEF PrintText
    <3> HIDE DEF gs
    <3> QED BY <2>1, <2>2, <3>3, <3>4, <3>5
  <2>5. CASE PrintValue(t)
    <3> DEFINE v == value[t]
               s == IF v = NoContent THEN <<>> ELSE v
               gs == Written(fs, s)
    <3>1. v \in Content \cup {NoContent} /\ s \in Content
      BY <2>1, <2>5 DEF PrintValue, Content
    <3>2. gs \in Seq(Frame) /\ gs # <<>> /\ RootOk(gs)
      <4> HIDE DEF s
      <4> QED BY <2>1, <3>1, StepFrames
    <3>3. frames' = [frames EXCEPT ![t] = gs] /\ ob' \in BufferState
          /\ UNCHANGED <<status, result, own, chunks>>
      BY <2>1, <2>5, <3>1, EchoType DEF PrintValue
    <3>4. value' \in [Tasks -> Content \cup {NoContent, Nothing}]
      BY <2>1, <2>5 DEF PrintValue
    <3> HIDE DEF gs
    <3> QED BY <2>1, <2>2, <3>2, <3>3, <3>4
  <2>6. CASE KeepValue(t)
    <3>1. value' \in [Tasks -> Content \cup {NoContent, Nothing}]
          /\ UNCHANGED <<ob, status, frames, result, own, chunks>>
      BY <2>1, <2>6 DEF KeepValue
    <3> QED BY <3>1 DEF TypeOK, Live
  <2>7. CASE Flush(t)
    <3> DEFINE gs == Flushed(fs)
    <3>1. gs \in Seq(Frame) /\ gs # <<>> /\ RootOk(gs)
      BY <2>1, StepFrames
    <3>2. frames' = [frames EXCEPT ![t] = gs] /\ ob' \in BufferState
          /\ UNCHANGED <<status, value, result, own>>
      BY <2>1, <2>7, BufferTypes DEF Flush
    <3>3. chunks' \in [Tasks -> 0 .. MaxChunks]
      BY <2>1, <2>7, RenderingAssumption DEF Flush
    <3> HIDE DEF gs
    <3> QED BY <2>1, <2>2, <3>1, <3>2, <3>3
  <2>8. CASE LeaveSourceMap(t)
    <3> DEFINE rs == Returned(fs)
               gs == Written(rs, Top(t).text)
    <3>1. rs \in Seq(Frame) /\ rs # <<>> /\ RootOk(rs)
      BY <2>1, <2>8, StepFrames DEF LeaveSourceMap
    <3>2. gs \in Seq(Frame) /\ gs # <<>> /\ RootOk(gs)
      <4> HIDE DEF rs
      <4> QED BY <2>1, <3>1, StepFrames
    <3>3. frames' = [frames EXCEPT ![t] = gs] /\ ob' \in BufferState
          /\ UNCHANGED <<status, value, result, own, chunks>>
      BY <2>1, <2>8, BufferTypes DEF LeaveSourceMap, ObGetFlush
    <3> HIDE DEF gs
    <3> QED BY <2>1, <2>2, <3>2, <3>3
  <2> QED BY <1>3, <2>3, <2>4, <2>5, <2>6, <2>7, <2>8
<1>4. ASSUME NEW t \in Tasks,
             \/ LeaveRender(t) \/ LeaveCapture(t) \/ LeaveMacro(t)
      PROVE  TypeInv'
  <2>1. ob \in BufferState /\ status[t] = "running" /\ chunks' = chunks
    BY <1>4 DEF LeaveRender, LeaveCapture, LeaveMacro, Running, TypeOK
  <2>2. ob' \in BufferState
    BY <1>4, <2>1, BufferTypes DEF LeaveRender, LeaveCapture, LeaveMacro, ObGetClean
  <2>3. \/ Return(t, ObGetContents(ob)) \/ Raise(t)
    BY <1>4 DEF LeaveRender, LeaveCapture, LeaveMacro
  <2>4. TypeOK'
    BY <2>1, <2>2, <2>3, BufferTypes, ReturnType, RaiseType
  <2>5. frames' = [frames EXCEPT ![t] = Returned(frames[t])]
        \/ frames' = [frames EXCEPT ![t] = <<>>] \/ frames' = frames
    BY <2>3 DEF Return, Raise
  <2>6. RootOk(Returned(frames[t])) /\ RootOk(<<>>)
    BY <2>1, LiveFrames, StepFrames DEF RootOk, Live
  <2> QED BY <2>4, <2>5, <2>6 DEF TypeOK
<1>5. ASSUME NEW t \in Tasks, LeaveSpaceless(t) PROVE TypeInv'
  <2> DEFINE fs == frames[t]
             s == Squeeze(ObGetContents(ob))
             rs == Returned(fs)
             gs == Written(rs, Squeeze(Top(t).text))
  <2>1. /\ status[t] = "running" /\ chunks' = chunks
        /\ ob \in BufferState /\ fs \in Seq(Frame) /\ fs # <<>> /\ RootOk(fs)
        /\ Top(t) = fs[Len(fs)] /\ Top(t).text \in Content
        /\ ObGetClean(ob) \in BufferState
    BY <1>5, LiveFrames, BufferTypes
       DEF TypeOK, LeaveSpaceless, Running, Live, ObGetClean
  <2>2. CASE HasActive(ob)
    <3>1. s \in Content /\ ob' \in BufferState
      BY <1>5, <2>1, <2>2, BufferTypes, SqueezeType, EchoType DEF LeaveSpaceless
    <3>2. rs \in Seq(Frame) /\ rs # <<>> /\ RootOk(rs)
      BY <1>5, <2>1, StepFrames DEF LeaveSpaceless
    <3>3. gs \in Seq(Frame) /\ gs # <<>> /\ RootOk(gs)
      <4> HIDE DEF rs
      <4> QED BY <2>1, <3>2, SqueezeType, StepFrames
    <3>4. frames' = [frames EXCEPT ![t] = gs]
          /\ UNCHANGED <<status, value, result, own, chunks>>
      BY <1>5, <2>2 DEF LeaveSpaceless
    <3> HIDE DEF gs
    <3>5. TypeOK'
      BY <2>1, <3>1, <3>3, <3>4, FramesStepType DEF TypeOK
    <3> QED BY <3>3, <3>4, <3>5 DEF TypeOK
  <2>3. CASE ~ HasActive(ob)
    BY <1>5, <2>1, <2>3, RaiseType DEF LeaveSpaceless, Raise
  <2> QED BY <2>2, <2>3
<1>6. ASSUME NEW t \in Tasks, Throw(t) PROVE TypeInv'
  <2>1. status' \in [Tasks -> Statuses]
        /\ value' \in [Tasks -> Content \cup {NoContent, Nothing}]
    BY <1>6 DEF Throw, TypeOK, Statuses
  <2>2. \A u \in Tasks : Live(u)' <=> frames'[u] # <<>>
    BY <1>6 DEF Throw, TypeOK, Live
  <2> QED BY <1>6, <2>1, <2>2 DEF Throw, TypeOK
<1>7. ASSUME NEW t \in Tasks, Unwind(t) PROVE TypeInv'
  <2> DEFINE fs == frames[t]
             rs == Returned(fs)
  <2>1. /\ status[t] = "throwing" /\ Live(t)
        /\ ob \in BufferState /\ fs \in Seq(Frame) /\ fs # <<>> /\ RootOk(fs)
        /\ Depth(t) = Len(fs) /\ Depth(t) \in Nat \ {0} /\ Top(t) \in Frame
    BY <1>7, LiveFrames DEF Unwind, TypeOK, Live, Depth
  <2>2. ob' \in BufferState
    <3>1. Top(t).level \in Nat
      BY <2>1 DEF Frame
    <3>2. CleanedTo(ob, Top(t).level) \in BufferState /\ ObEndClean(ob) \in BufferState
      BY <2>1, <3>1, CleanedToLevel, BufferTypes
    <3> QED BY <1>7, <2>1, <3>2 DEF Unwind
  <2>3. rs \in Seq(Frame) /\ Len(rs) = Depth(t) - 1 /\ RootOk(rs)
    BY <2>1, ReturnedFrames, StepFrames
  <2>4. frames' = [frames EXCEPT ![t] = rs]
        /\ UNCHANGED <<value, result, own, chunks>>
    BY <1>7 DEF Unwind
  <2> HIDE DEF rs
  <2>5. frames' \in [Tasks -> Seq(Frame)] /\ \A u \in Tasks : RootOk(frames'[u])
    BY <2>3, <2>4 DEF TypeOK
  <2>6. CASE Depth(t) = 1
    <3>1. status' = [status EXCEPT ![t] = "rejected"] /\ rs = <<>>
      BY <1>7, <2>3, <2>6, EmptySeq DEF Unwind
    <3>2. status' \in [Tasks -> Statuses]
      BY <3>1 DEF TypeOK, Statuses
    <3>3. \A u \in Tasks : Live(u)' <=> frames'[u] # <<>>
      BY <3>1, <2>4 DEF TypeOK, Live
    <3> QED BY <2>2, <2>4, <2>5, <3>2, <3>3 DEF TypeOK
  <2>7. CASE Depth(t) # 1
    <3>0. Len(rs) # 0
      BY <2>1, <2>3, <2>7
    <3>1. status' = status /\ rs # <<>>
      BY <1>7, <2>7, <3>0, EmptySeq DEF Unwind
    <3>2. \A u \in Tasks : Live(u)' <=> frames'[u] # <<>>
      BY <3>1, <2>1, <2>4 DEF TypeOK, Live
    <3> QED BY <2>2, <2>4, <2>5, <3>1, <3>2 DEF TypeOK
  <2> QED BY <2>6, <2>7
<1>8. ASSUME NEW t \in Tasks, Refuse(t) PROVE TypeInv'
  <2>1. ob' \in BufferState
    BY <1>8, BufferTypes DEF Refuse, TypeOK
  <2>2. status' \in [Tasks -> Statuses]
    BY <1>8 DEF Refuse, TypeOK, Statuses
  <2>3. \A u \in Tasks : Live(u)' <=> Live(u)
    BY <1>8 DEF Refuse, TypeOK, Live
  <2> QED BY <1>8, <2>1, <2>2, <2>3 DEF Refuse, TypeOK
<1>9. CASE UNCHANGED vars
  BY <1>9 DEF vars, TypeOK, Live
<1>10. CASE Next
  <2>1. PICK t \in Tasks : Step(t)
    BY <1>10 DEF Next
  <2>2. CASE \/ \E k \in FrameKinds : Call(t, k)
             \/ \E c \in Texts : PrintText(t, c)
             \/ PrintValue(t) \/ KeepValue(t) \/ Flush(t) \/ LeaveSourceMap(t)
    <3>1. status[t] = "running"
      BY <2>2 DEF Call, PrintText, PrintValue, KeepValue, Flush, LeaveSourceMap, Running
    <3> QED BY <2>2, <3>1, <1>3
  <2> QED BY <2>1, <2>2, <1>1, <1>2, <1>4, <1>5, <1>6, <1>7, <1>8 DEF Step
<1> QED BY <1>9, <1>10

(* Whatever the renders do and however they interleave, the buffer stack   *)
(* holds texts, a task has frames exactly while it lives, and what it      *)
(* returned is a text or false.                                            *)
THEOREM TypeCorrect == Spec => []TypeOK
<1>1. TypeInv => TypeOK
  BY DEF TypeInv
<1> QED BY <1>1, InitType, StepType, PTL DEF Spec

-----------------------------------------------------------------------------
(* Renders one after the other.                                            *)

(* While a task runs the stack is the outer buffers and those of its       *)
(* frames; while an error leaves its frames there may be more of them,     *)
(* those of the frames that did not clean up, and never fewer.             *)
SerialInv ==
    /\ TypeInv
    /\ \A t \in Tasks : FramesOk(frames[t])
    /\ \A t, u \in Tasks : Live(t) /\ Live(u) => t = u
    /\ \A t \in Tasks : status[t] = "running" => Match(ob, frames[t])
    /\ \A t \in Tasks :
           status[t] = "throwing" => ObGetLevel(ob) >= Ground + Depth(t)
    /\ LevelRestored
    /\ RenderReturnsItsText

(* Frames and buffers that match still do, if the ground has stayed.       *)
LEMMA GroundOnly ==
    ASSUME Ground' = Ground
    PROVE  /\ \A u \in Tasks : FramesOk(frames'[u]) => FramesOk(frames[u])'
           /\ \A u \in Tasks : Match(ob', frames'[u]) => Match(ob, frames[u])'
BY DEF FramesOk, LevelsRecorded, RootIsRender, Match

LEMMA InitSerial == Init => SerialInv
<1> SUFFICES ASSUME Init PROVE SerialInv
  OBVIOUS
<1>1. TypeInv
  BY InitType
<1>2. \A t \in Tasks : status[t] = "idle" /\ frames[t] = <<>>
  BY DEF Init
<1>3. ObGetLevel(ob) = Ground
  <2>1. Refused = {}
    BY DEF Init, Refused, Tasks
  <2>2. Ground = OuterLevel + 0
    BY <2>1, FS_EmptySet DEF Ground
  <2> QED BY <2>2, GroundNat DEF Init, ObGetLevel, OuterLevel
<1>4. FramesOk(<<>>)
  BY DEF FramesOk, LevelsRecorded, RootIsRender
<1> QED BY <1>1, <1>2, <1>3, <1>4
       DEF SerialInv, Live, LevelRestored, RenderReturnsItsText

(* What a running task has to keep to go on running.                       *)
LEMMA SerialGoesOn ==
    ASSUME SerialInv, TypeInv', NEW t \in Tasks, status[t] = "running",
           NEW gs \in Seq(Frame), Match(ob', gs), FramesOk(gs),
           frames' = [frames EXCEPT ![t] = gs], UNCHANGED <<status, result, own>>
    PROVE  SerialInv'
<1>0. Ground' = Ground
  BY GroundStays
<1>1. \A u \in Tasks : FramesOk(frames[u])'
  <2>1. \A u \in Tasks : FramesOk(frames'[u])
    BY DEF SerialInv, TypeInv, TypeOK
  <2> QED BY <1>0, <2>1, GroundOnly
<1>2. \A u \in Tasks : Live(u) <=> u = t
  BY DEF SerialInv, Live
<1>3. \A u \in Tasks : Live(u)' <=> Live(u)
  BY DEF Live
<1>4. \A u \in Tasks : status'[u] = "running" => Match(ob, frames[u])'
  <2>1. \A u \in Tasks : status'[u] = "running" => Match(ob', frames'[u])
    BY <1>2 DEF SerialInv, TypeInv, TypeOK, Live
  <2> QED BY <1>0, <2>1, GroundOnly
<1>5. \A u \in Tasks : status'[u] # "throwing"
  BY <1>2 DEF Live
<1>6. LevelRestored'
  BY <1>2, <1>3 DEF LevelRestored
<1>7. RenderReturnsItsText'
  BY DEF SerialInv, RenderReturnsItsText
<1> QED BY <1>1, <1>2, <1>3, <1>4, <1>5, <1>6, <1>7 DEF SerialInv

(* The return of render, renderBlock, a capture or a macro.                *)
LEMMA SerialReturns ==
    ASSUME SerialInv, TypeInv', NEW t \in Tasks, status[t] = "running",
           Return(t, ObGetContents(ob)), ob' = ObEndClean(ob)
    PROVE  SerialInv'
<1> DEFINE fs == frames[t]
           rs == Returned(fs)
<1>1. /\ fs \in Seq(Frame) /\ fs # <<>> /\ Match(ob, fs) /\ FramesOk(fs)
      /\ ob \in BufferState /\ Depth(t) = Len(fs) /\ Top(t) = fs[Len(fs)]
      /\ Depth(t) \in Nat \ {0}
  BY LiveFrames DEF SerialInv, TypeInv, TypeOK, Live, Depth, Top
<1>2. /\ ObGetContents(ob) = Top(t).text
      /\ rs \in Seq(Frame) /\ Len(rs) = Len(fs) - 1
      /\ Match(ob', rs) /\ FramesOk(rs)
  BY <1>1, ReturnKeepsMatch
<1> HIDE DEF rs
<1>3. CASE Depth(t) = 1
  <2>1. /\ status' = [status EXCEPT ![t] = "fulfilled"]
        /\ result' = [result EXCEPT ![t] = Top(t).text]
        /\ own' = [own EXCEPT ![t] = Top(t).text]
        /\ frames' = [frames EXCEPT ![t] = <<>>]
    BY <1>2, <1>3 DEF Return
  <2>0. Ground' = Ground
    <3>1. \A u \in Renders : status'[u] = "refused" <=> status[u] = "refused"
      BY <2>1 DEF SerialInv, TypeInv, TypeOK, Tasks
    <3> QED BY <3>1, GroundStays
  <2>2. \A u \in Tasks : FramesOk(frames[u])'
    <3>1. \A u \in Tasks : FramesOk(frames'[u])
      BY <2>1 DEF SerialInv, TypeInv, TypeOK, FramesOk, LevelsRecorded, RootIsRender
    <3> QED BY <2>0, <3>1, GroundOnly
  <2>3. \A u \in Tasks : ~ Live(u)'
    BY <2>1 DEF SerialInv, TypeInv, TypeOK, Live
  <2>4. LevelRestored'
    <3>1. ObGetLevel(ob') = Ground + Len(rs) /\ Len(rs) = 0
      BY <1>1, <1>2, <1>3 DEF Match
    <3> QED BY <2>0, <3>1, GroundNat DEF LevelRestored
  <2>5. RenderReturnsItsText'
    BY <2>1 DEF SerialInv, TypeInv, TypeOK, RenderReturnsItsText
  <2> QED BY <2>2, <2>3, <2>4, <2>5 DEF SerialInv, Live
<1>4. CASE Depth(t) # 1
  <2>1. frames' = [frames EXCEPT ![t] = rs] /\ UNCHANGED <<status, result, own>>
    BY <1>4 DEF Return, rs
  <2> QED BY <1>2, <2>1, SerialGoesOn
<1> QED BY <1>3, <1>4

(* An error: no frame is left yet, and no buffer.                          *)
LEMMA SerialThrows ==
    ASSUME SerialInv, TypeInv', NEW t \in Tasks, status[t] = "running",
           status' = [status EXCEPT ![t] = "throwing"],
           UNCHANGED <<ob, frames, result, own>>
    PROVE  SerialInv'
<1>0. Ground' = Ground
  <2>1. \A u \in Renders : status'[u] = "refused" <=> status[u] = "refused"
    BY DEF SerialInv, TypeInv, TypeOK, Tasks
  <2> QED BY <2>1, GroundStays
<1>1. \A u \in Tasks : Live(u)' <=> Live(u)
  BY DEF SerialInv, TypeInv, TypeOK, Live
<1>2. Live(t) /\ \A u \in Tasks : Live(u) => u = t
  BY DEF SerialInv, Live
<1>3. \A u \in Tasks : status'[u] # "running"
  BY <1>2 DEF SerialInv, TypeInv, TypeOK, Live
<1>4. ASSUME NEW u \in Tasks, status'[u] = "throwing"
      PROVE  (ObGetLevel(ob) >= Ground + Depth(u))'
  <2>1. u = t
    BY <1>1, <1>2, <1>4 DEF Live
  <2>2. ObGetLevel(ob) = Ground + Depth(t)
    BY DEF SerialInv, Match, Depth
  <2>3. Depth(t) \in Nat
    BY <1>2, LiveFrames DEF SerialInv, TypeInv
  <2> QED BY <1>0, <2>1, <2>2, <2>3, GroundNat DEF Depth
<1>5. RenderReturnsItsText'
  BY DEF SerialInv, TypeInv, TypeOK, RenderReturnsItsText
<1>6. \A u \in Tasks : FramesOk(frames[u])'
  <2>1. \A u \in Tasks : FramesOk(frames'[u])
    BY DEF SerialInv
  <2> QED BY <1>0, <2>1, GroundOnly
<1> QED BY <1>1, <1>2, <1>3, <1>4, <1>5, <1>6 DEF SerialInv, LevelRestored

(* An error leaves a frame.  A capture may leave its buffer behind; the    *)
(* render around it takes them all away.                                   *)
LEMMA SerialUnwinds ==
    ASSUME SerialInv, TypeInv', NEW t \in Tasks, Unwind(t)
    PROVE  SerialInv'
<1> DEFINE fs == frames[t]
           n == Len(fs)
           rs == Returned(fs)
<1>1. /\ status[t] = "throwing" /\ Live(t)
      /\ fs \in Seq(Frame) /\ fs # <<>> /\ FramesOk(fs) /\ ob \in BufferState
      /\ Depth(t) = n /\ n \in Nat \ {0} /\ Top(t) = fs[n]
      /\ ObGetLevel(ob) >= Ground + n
  BY LiveFrames, EmptySeq DEF Unwind, SerialInv, TypeInv, TypeOK, Live, Depth, Top
<1>2. Ground \in Nat /\ ObGetLevel(ob) \in Nat
  BY <1>1, GroundNat, BufferTypes
<1>3. /\ rs \in Seq(Frame) /\ Len(rs) = n - 1
      /\ \A i \in 1 .. n - 1 : rs[i] = fs[i]
  BY <1>1, ReturnedFrames
<1>4. FramesOk(rs)
  <2>1. LevelsRecorded(rs)
    BY <1>1, <1>3 DEF FramesOk, LevelsRecorded
  <2>2. rs # <<>> => 1 \in 1 .. n - 1
    <3> HIDE DEF n, rs
    <3> QED BY <1>1, <1>3, EmptySeq
  <2> QED BY <2>1, <2>2, <1>1, <1>3 DEF FramesOk, RootIsRender
<1>5. Top(t).kind = "render" => Top(t).level = Ground + n - 1
  BY <1>1 DEF FramesOk, LevelsRecorded
<1>6. /\ ObGetLevel(ob') >= Ground + n - 1
      /\ Top(t).kind = "render" => ObGetLevel(ob') = Ground + n - 1
  <2>1. CASE Top(t).kind = "render"
    <3>1. ob' = CleanedTo(ob, Ground + n - 1)
      BY <1>5, <2>1 DEF Unwind
    <3>2. Ground + n - 1 \in Nat /\ ObGetLevel(ob) > Ground + n - 1
      BY <1>1, <1>2
    <3>3. ObGetLevel(ob') = Ground + n - 1
      BY <1>1, <3>1, <3>2, CleanedToLevel
    <3> QED BY <3>2, <3>3
  <2>2. CASE Top(t).kind = "macro"
    <3>1. ob' = ObEndClean(ob)
      BY <2>2 DEF Unwind
    <3>2. HasActive(ob)
      BY <1>1, <1>2 DEF HasActive
    <3>3. ObGetLevel(ob') = ObGetLevel(ob) - 1
      BY <1>1, <3>1, <3>2, ObEndCleanUnstacks
    <3> QED BY <1>1, <1>2, <2>2, <3>3
  <2>3. CASE Top(t).kind \notin {"render", "macro"}
    <3>1. ob' = ob
      BY <2>3 DEF Unwind
    <3> QED BY <1>1, <1>2, <2>3, <3>1
  <2> QED BY <2>1, <2>2, <2>3
<1>7. frames' = [frames EXCEPT ![t] = rs] /\ UNCHANGED <<value, result, own>>
  BY DEF Unwind
<1> HIDE DEF rs
<1>0. Ground' = Ground
  <2>1. \A u \in Renders : status'[u] = "refused" <=> status[u] = "refused"
    BY <1>1 DEF Unwind, SerialInv, TypeInv, TypeOK, Tasks
  <2> QED BY <2>1, GroundStays
<1>8. \A u \in Tasks : FramesOk(frames[u])'
  <2>1. \A u \in Tasks : FramesOk(frames'[u])
    BY <1>4, <1>7 DEF SerialInv, TypeInv, TypeOK
  <2> QED BY <1>0, <2>1, GroundOnly
<1>9. \A u \in Tasks : Live(u) => u = t
  BY <1>1 DEF SerialInv
<1>10. CASE Depth(t) = 1
  <2>1. status' = [status EXCEPT ![t] = "rejected"]
    BY <1>10 DEF Unwind
  <2>2. \A u \in Tasks : ~ Live(u)'
    BY <1>9, <2>1 DEF SerialInv, TypeInv, TypeOK, Live
  <2>3. Top(t).kind = "render"
    BY <1>1, <1>10 DEF FramesOk, RootIsRender
  <2>4. LevelRestored'
    BY <1>0, <1>1, <1>2, <1>6, <1>10, <2>3 DEF LevelRestored
  <2>5. RenderReturnsItsText'
    BY <1>7, <2>1 DEF SerialInv, TypeInv, TypeOK, RenderReturnsItsText
  <2> QED BY <1>8, <2>2, <2>4, <2>5 DEF SerialInv, Live
<1>11. CASE Depth(t) # 1
  <2>1. status' = status
    BY <1>11 DEF Unwind
  <2>2. \A u \in Tasks : Live(u)' <=> Live(u)
    BY <2>1 DEF Live
  <2>3. ASSUME NEW u \in Tasks, status'[u] = "throwing"
        PROVE  (ObGetLevel(ob) >= Ground + Depth(u))'
    <3>1. u = t
      BY <1>9, <2>1, <2>3 DEF Live
    <3>2. Depth(t)' = n - 1
      BY <1>3, <1>7 DEF SerialInv, TypeInv, TypeOK, Depth
    <3> QED BY <1>0, <1>1, <1>2, <1>6, <3>1, <3>2
  <2>4. \A u \in Tasks : status'[u] # "running"
    BY <1>1, <1>9, <2>1 DEF Live
  <2>5. RenderReturnsItsText'
    BY <1>7, <2>1 DEF SerialInv, RenderReturnsItsText
  <2> QED BY <1>1, <1>8, <1>9, <2>2, <2>3, <2>4, <2>5 DEF SerialInv, LevelRestored
<1> QED BY <1>10, <1>11

LEMMA StepSerial ==
    ASSUME Serial, ParentCalls = {}, SerialInv, [Next]_vars
    PROVE  SerialInv'
<1>0. TypeInv /\ TypeInv'
  BY StepType DEF SerialInv
<1>1. ASSUME NEW t \in Tasks, status[t] = "running"
      PROVE  /\ frames[t] \in Seq(Frame) /\ frames[t] # <<>>
             /\ Match(ob, frames[t]) /\ FramesOk(frames[t])
             /\ ob \in BufferState
             /\ Top(t) = frames[t][Len(frames[t])] /\ Top(t).text \in Content
             /\ Depth(t) = Len(frames[t])
  BY <1>0, <1>1, LiveFrames DEF SerialInv, TypeInv, TypeOK, Live, Depth
<1>2. ASSUME NEW t \in Tasks, Start(t) PROVE SerialInv'
  <2> DEFINE fs == <<NewFrame("render", ob)>>
  <2>1. \A u \in Tasks : ~ Live(u)
    BY <1>2 DEF Start, Tasks
  <2>2. ob \in BufferState /\ ObGetLevel(ob) = Ground
    BY <1>0, <2>1 DEF SerialInv, LevelRestored, TypeInv, TypeOK
  <2>3. Match(ob, <<>>) /\ FramesOk(<<>>)
    BY <2>2, GroundNat DEF Match, FramesOk, LevelsRecorded, RootIsRender
  <2>4. fs = Append(<<>>, NewFrame("render", ob)) /\ <<>> \in Seq(Frame)
        /\ "render" \in FrameKinds
    BY DEF FrameKinds
  <2>5. fs \in Seq(Frame) /\ Match(ObStart(ob), fs) /\ FramesOk(fs)
    <3> HIDE DEF fs
    <3> QED BY <2>2, <2>3, <2>4, CallKeepsMatch
  <2> HIDE DEF fs
  <2>6. /\ frames' = [frames EXCEPT ![t] = fs] /\ ob' = ObStart(ob)
        /\ status' = [status EXCEPT ![t] = "running"]
        /\ UNCHANGED <<result, own>>
    BY <1>2 DEF Start, fs
  <2>0. Ground' = Ground
    <3>1. \A u \in Renders : status'[u] = "refused" <=> status[u] = "refused"
      BY <1>0, <1>2 DEF Start, TypeInv, TypeOK, Tasks
    <3> QED BY <3>1, GroundStays
  <2>7. \A u \in Tasks : FramesOk(frames[u])'
    <3>1. \A u \in Tasks : FramesOk(frames'[u])
      BY <1>0, <2>5, <2>6 DEF SerialInv, TypeInv, TypeOK
    <3> QED BY <2>0, <3>1, GroundOnly
  <2>8. Live(t)' /\ \A u \in Tasks : Live(u)' => u = t
    BY <1>0, <2>1, <2>6 DEF TypeInv, TypeOK, Live
  <2>9. /\ \A u \in Tasks : status'[u] = "running" => Match(ob, frames[u])'
        /\ \A u \in Tasks : status'[u] # "throwing"
    <3>1. /\ \A u \in Tasks : status'[u] = "running" => Match(ob', frames'[u])
          /\ \A u \in Tasks : status'[u] # "throwing"
      BY <1>0, <2>1, <2>5, <2>6 DEF TypeInv, TypeOK, Live
    <3> QED BY <2>0, <3>1, GroundOnly
  <2>10. LevelRestored' /\ RenderReturnsItsText'
    BY <1>0, <2>6, <2>8
       DEF SerialInv, LevelRestored, RenderReturnsItsText, TypeInv, TypeOK
  <2> QED BY <1>0, <2>7, <2>8, <2>9, <2>10 DEF SerialInv
<1>3. ASSUME NEW t \in Tasks, NEW k \in FrameKinds, Call(t, k) PROVE SerialInv'
  <2>1. status[t] = "running" /\ ob' = ObStart(ob)
        /\ frames' = [frames EXCEPT ![t] = Append(frames[t], NewFrame(k, ob))]
        /\ UNCHANGED <<status, result, own>>
    BY <1>3 DEF Call, Running
  <2> QED BY <1>0, <1>1, <2>1, CallKeepsMatch, SerialGoesOn
<1>4. ASSUME NEW t \in Tasks, NEW c \in Texts, PrintText(t, c) PROVE SerialInv'
  <2>1. status[t] = "running" /\ ob' = Echo(ob, <<c>>)
        /\ frames' = [frames EXCEPT ![t] = Written(frames[t], <<c>>)]
        /\ UNCHANGED <<status, result, own>>
    BY <1>4 DEF PrintText, Running
  <2>2. <<c>> \in Content
    BY RenderingAssumption DEF Content
  <2> QED BY <1>0, <1>1, <2>1, <2>2, EchoKeepsMatch, SerialGoesOn
<1>5. ASSUME NEW t \in Tasks, PrintValue(t) PROVE SerialInv'
  <2> DEFINE v == value[t]
             s == IF v = NoContent THEN <<>> ELSE v
  <2>1. status[t] = "running" /\ ob' = Echo(ob, v)
        /\ frames' = [frames EXCEPT ![t] = Written(frames[t], s)]
        /\ UNCHANGED <<status, result, own>>
    BY <1>5 DEF PrintValue
  <2>2. s \in Content
    BY <1>0, <1>5 DEF PrintValue, TypeInv, TypeOK, Content
  <2>3. Echo(ob, v) = Echo(ob, s)
    BY <2>2, NoContentAssumption DEF Echo, Content
  <2> HIDE DEF s, v
  <2>4. /\ Written(frames[t], s) \in Seq(Frame)
        /\ Match(Echo(ob, s), Written(frames[t], s))
        /\ FramesOk(Written(frames[t], s))
    BY <1>1, <2>1, <2>2, EchoKeepsMatch
  <2>5. ob' = Echo(ob, s)
    BY <2>1, <2>3
  <2> QED BY <1>0, <2>1, <2>4, <2>5, SerialGoesOn
<1>6. ASSUME NEW t \in Tasks, KeepValue(t) PROVE SerialInv'
  <2>1. status[t] = "running" /\ UNCHANGED <<ob, status, frames, result, own>>
    BY <1>6 DEF KeepValue
  <2>2. frames' = [frames EXCEPT ![t] = frames[t]]
    BY <1>0, <2>1 DEF TypeInv, TypeOK
  <2> QED BY <1>0, <1>1, <2>1, <2>2, SerialGoesOn
<1>7. ASSUME NEW t \in Tasks, Flush(t) PROVE SerialInv'
  <2>1. status[t] = "running" /\ ob' = ObFlush(ob)
        /\ frames' = [frames EXCEPT ![t] = Flushed(frames[t])]
        /\ UNCHANGED <<status, result, own>>
    BY <1>7 DEF Flush, Running
  <2> QED BY <1>0, <1>1, <2>1, FlushKeepsMatch, SerialGoesOn
<1>8. ASSUME NEW t \in Tasks, LeaveRender(t) \/ LeaveCapture(t) \/ LeaveMacro(t)
      PROVE  SerialInv'
  <2>1. status[t] = "running"
    BY <1>8 DEF LeaveRender, LeaveCapture, LeaveMacro, Running
  <2>2. HasActive(ob)
    BY <1>1, <2>1, ReturnKeepsMatch
  <2>3. Return(t, ObGetContents(ob)) /\ ob' = ObEndClean(ob)
    BY <1>8, <2>2 DEF LeaveRender, LeaveCapture, LeaveMacro, ObGetClean
  <2> QED BY <1>0, <2>1, <2>3, SerialReturns
<1>9. ASSUME NEW t \in Tasks, LeaveSpaceless(t) PROVE SerialInv'
  <2> DEFINE fs == frames[t]
             rs == Returned(fs)
             b == ObGetClean(ob)
             s == Squeeze(Top(t).text)
  <2>1. status[t] = "running" /\ fs[Len(fs)].kind # "render"
    BY <1>1, <1>9 DEF LeaveSpaceless, Running
  <2>2. /\ HasActive(ob) /\ ObGetContents(ob) = Top(t).text
        /\ b \in BufferState /\ rs \in Seq(Frame) /\ Len(rs) = Len(fs) - 1
        /\ Match(b, rs) /\ FramesOk(rs)
    BY <1>1, <2>1, ReturnKeepsMatch DEF ObGetClean
  <2>3. rs # <<>>
    <3>1. Len(fs) \in Nat /\ Len(fs) > 1
      BY <1>1, <2>1, InnerFrame
    <3> QED BY <2>2, <3>1, EmptySeq
  <2>4. s \in Content
    BY <1>1, <2>1, SqueezeType
  <2>5. ob' = Echo(b, s) /\ frames' = [frames EXCEPT ![t] = Written(rs, s)]
        /\ UNCHANGED <<status, result, own>>
    BY <1>9, <2>2 DEF LeaveSpaceless
  <2> HIDE DEF rs, b, s
  <2> QED BY <1>0, <2>1, <2>2, <2>3, <2>4, <2>5, EchoKeepsMatch, SerialGoesOn
<1>10. ASSUME NEW t \in Tasks, LeaveSourceMap(t) PROVE SerialInv'
  <2> DEFINE fs == frames[t]
             gs == Written(Returned(fs), Top(t).text)
  <2>1. status[t] = "running" /\ fs[Len(fs)].kind # "render"
        /\ ob' = ObEndFlush(ob) /\ frames' = [frames EXCEPT ![t] = gs]
        /\ UNCHANGED <<status, result, own>>
    BY <1>1, <1>10 DEF LeaveSourceMap, Running, ObGetFlush
  <2>2. gs \in Seq(Frame) /\ Match(ObEndFlush(ob), gs) /\ FramesOk(gs)
    BY <1>1, <2>1, HandDownKeepsMatch
  <2> HIDE DEF gs
  <2> QED BY <1>0, <2>1, <2>2, SerialGoesOn
<1>11. ASSUME NEW t \in Tasks, Throw(t) PROVE SerialInv'
  BY <1>0, <1>11, SerialThrows DEF Throw
<1>12. ASSUME NEW t \in Tasks, Unwind(t) PROVE SerialInv'
  BY <1>0, <1>12, SerialUnwinds
<1>13. ASSUME NEW t \in Tasks, Refuse(t) PROVE SerialInv'
  <2>1. \A u \in Tasks : ~ Live(u)
    BY <1>13 DEF Refuse, Tasks
  <2>2. ob \in BufferState /\ ObGetLevel(ob) = Ground
    BY <1>0, <2>1 DEF SerialInv, LevelRestored, TypeInv, TypeOK
  <2>3. /\ ob' = ObStart(ob) /\ status' = [status EXCEPT ![t] = "refused"]
        /\ UNCHANGED <<frames, result, own>>
    BY <1>13 DEF Refuse
  <2>4. \A u \in Tasks : ~ Live(u)'
    BY <1>0, <2>1, <2>3 DEF TypeInv, TypeOK, Live
  <2>5. \A u \in Tasks : FramesOk(frames[u])'
    <3>1. \A u \in Tasks : frames'[u] = <<>>
      BY <1>0, <2>4 DEF TypeInv, TypeOK
    <3> QED BY <3>1 DEF FramesOk, LevelsRecorded, RootIsRender
  <2>6. LevelRestored'
    <3>1. Ground' = Ground + 1
      BY <1>0, <1>13, GroundRises DEF TypeInv
    <3>2. ObGetLevel(ob') = Ground + 1
      BY <2>2, <2>3, ObStartStacks
    <3> QED BY <3>1, <3>2 DEF LevelRestored
  <2>7. RenderReturnsItsText'
    BY <1>0, <2>3 DEF SerialInv, TypeInv, TypeOK, RenderReturnsItsText
  <2> QED BY <1>0, <2>4, <2>5, <2>6, <2>7 DEF SerialInv, Live
<1>14. CASE UNCHANGED vars
  <2>1. Ground' = Ground
    BY <1>14, GroundStays DEF vars
  <2>2. \A u \in Tasks : FramesOk(frames[u])'
    BY <1>14, <2>1, GroundOnly DEF vars, SerialInv
  <2> QED BY <1>0, <1>14, <2>1, <2>2
          DEF vars, SerialInv, Match, Live, Depth, LevelRestored,
              RenderReturnsItsText
<1>15. CASE Next
  <2>1. PICK t \in Tasks : Step(t)
    BY <1>15 DEF Next
  <2>2. ~ \E u \in ParentCalls : CallParent(t, u)
    OBVIOUS
  <2>3. CASE \E k \in FrameKinds : Call(t, k)
    BY <2>3, <1>3
  <2>4. CASE \E c \in Texts : PrintText(t, c)
    BY <2>4, <1>4
  <2>5. CASE LeaveRender(t) \/ LeaveCapture(t) \/ LeaveMacro(t)
    BY <2>5, <1>8
  <2>6. \/ Start(t) \/ Refuse(t)
        \/ \E k \in FrameKinds : Call(t, k)
        \/ \E c \in Texts : PrintText(t, c)
        \/ PrintValue(t) \/ KeepValue(t) \/ Flush(t)
        \/ LeaveRender(t) \/ LeaveCapture(t) \/ LeaveMacro(t)
        \/ LeaveSpaceless(t) \/ LeaveSourceMap(t)
        \/ Throw(t) \/ Unwind(t)
    BY <2>1, <2>2, Zenon DEF Step
  <2> QED BY <2>3, <2>4, <2>5, <2>6, <1>2, <1>5, <1>6, <1>7, <1>9, <1>10,
             <1>11, <1>12, <1>13
<1> QED BY <1>14, <1>15

(* Renders that are awaited one after the other, of templates that do not  *)
(* use parent() inside an expression.                                      *)
LEMMA SerialInvariant ==
    ASSUME Serial, ParentCalls = {}
    PROVE  Spec => []SerialInv
<1>1. SerialInv /\ [Next]_vars => SerialInv'
  BY StepSerial
<1> QED BY <1>1, InitSerial, PTL DEF Spec

(* The promise of a render is resolved with the text that its template     *)
(* wrote: nothing of it is lost, and nothing of another render's is in it  *)
(* (template.ts render, obStart ... obGetClean).                           *)
THEOREM SerialRenderReturnsItsText ==
    ASSUME Serial, ParentCalls = {}
    PROVE  Spec => []RenderReturnsItsText
<1>1. SerialInv => RenderReturnsItsText
  BY DEF SerialInv
<1> QED BY <1>1, SerialInvariant, PTL

(* Each frame of a running render owns the buffer at its own place of the  *)
(* stack, above the level the render found, so that what it echoes lands   *)
(* in its own text; the renders refused before it have left their buffers  *)
(* below that level, and no other render has.                              *)
THEOREM SerialFramesOwnBuffers ==
    ASSUME Serial, ParentCalls = {}
    PROVE  Spec => []FramesOwnBuffers
<1>1. SerialInv => FramesOwnBuffers
  <2> SUFFICES ASSUME SerialInv, NEW t \in Tasks, status[t] = "running"
               PROVE  frames[t][1].level = Ground /\ Match(ob, frames[t])
    BY DEF FramesOwnBuffers, Match, Depth
  <2>1. frames[t] \in Seq(Frame) /\ frames[t] # <<>> /\ FramesOk(frames[t])
    BY LiveFrames DEF SerialInv, TypeInv, Live
  <2>2. 1 \in 1 .. Len(frames[t])
    BY <2>1, EmptySeq
  <2> QED BY <2>1, <2>2, GroundNat
          DEF SerialInv, FramesOk, LevelsRecorded, RootIsRender
<1> QED BY <1>1, SerialInvariant, PTL

(* Wherever a template throws, the catch of the render it belongs to gives *)
(* the stack back at the level the render found; and between two renders   *)
(* the stack is as high as at first but for one buffer for each render     *)
(* that display refused synchronously, whose catch is not attached yet.    *)
THEOREM SerialLevelRestored ==
    ASSUME Serial, ParentCalls = {}
    PROVE  Spec => []LevelRestored
<1>1. SerialInv => LevelRestored
  BY DEF SerialInv
<1> QED BY <1>1, SerialInvariant, PTL

-----------------------------------------------------------------------------
(* Renders that are awaited one after the other implement RenderService,   *)
(* whatever their templates call, capture, flush and throw: every step is  *)
(* a step of RenderService or leaves its state as it was.  That a render   *)
(* leaves the buffers of the program alone follows.                        *)

(* The state of RenderService.                                             *)
Outer(b) == SubSeq(b.handlers, 1, Ground)

SHandlers == IF \E t \in Tasks : Live(t) THEN Outer(ob) ELSE ob.handlers
SPhase == [r \in Renders |->
              CASE status[r] = "throwing" -> "running"
                [] status[r] = "refused"  -> "rejected"
                [] OTHER                  -> status[r]]
SText == [r \in Renders |->
              IF frames[r] = <<>> THEN <<>> ELSE frames[r][1].text]
SResult == [r \in Renders |-> result[r]]

(* The prefix of a stack that is high enough.                              *)
LEMMA OuterPrefix ==
    ASSUME NEW b \in BufferState, ObGetLevel(b) >= Ground
    PROVE  /\ Outer(b) \in Seq(Content) /\ Len(Outer(b)) = Ground
           /\ \A i \in 1 .. Ground : Outer(b)[i] = b.handlers[i]
           /\ ObGetLevel(b) = Ground => Outer(b) = b.handlers
<1> DEFINE h == b.handlers
           n == Ground
<1>1. h \in Seq(Content) /\ n \in Nat /\ Len(h) >= n
  BY GroundNat DEF BufferState, ObGetLevel
<1>2. Outer(b) = SubSeq(h, 1, n)
  BY DEF Outer
<1>3. ObGetLevel(b) = Len(h)
  BY DEF ObGetLevel
<1> HIDE DEF h, n
<1>4. \A i \in 1 .. n : h[i] \in Content
  BY <1>1
<1>5. /\ SubSeq(h, 1, n) \in Seq(Content) /\ Len(SubSeq(h, 1, n)) = n
      /\ \A i \in 1 .. n : SubSeq(h, 1, n)[i] = h[i]
  BY <1>1, <1>4, SubSeqProperties
<1>6. Len(h) = n => SubSeq(h, 1, n) = h
  BY <1>1, <1>5, SeqEqual
<1> QED BY <1>2, <1>3, <1>5, <1>6 DEF h, n

(* Two stacks that agree up to the ground.                                 *)
LEMMA OuterSame ==
    ASSUME NEW b \in BufferState, NEW c \in BufferState,
           ObGetLevel(b) >= Ground, ObGetLevel(c) >= Ground,
           \A i \in 1 .. Ground : c.handlers[i] = b.handlers[i]
    PROVE  Outer(c) = Outer(b)
<1> DEFINE x == Outer(b)
           y == Outer(c)
<1>1. /\ x \in Seq(Content) /\ y \in Seq(Content) /\ Len(x) = Len(y)
      /\ \A i \in 1 .. Len(x) : x[i] = y[i]
  BY OuterPrefix
<1> HIDE DEF x, y
<1>2. x = y
  BY <1>1, SeqEqual
<1> QED BY <1>2 DEF x, y

(* Nothing takes the stack below the level the program had.                *)
HighEnough == /\ ob \in BufferState /\ ObGetLevel(ob) >= Ground
              /\ SHandlers = Outer(ob)

LEMMA SerialLevel == SerialInv => HighEnough
<1> SUFFICES ASSUME SerialInv PROVE HighEnough
  OBVIOUS
<1>1. ob \in BufferState /\ Ground \in Nat
  BY GroundNat DEF SerialInv, TypeInv, TypeOK
<1>2. ASSUME NEW t \in Tasks, Live(t) PROVE ObGetLevel(ob) >= Ground
  <2>1. Depth(t) \in Nat /\ Depth(t) = Len(frames[t])
    BY <1>2, LiveFrames DEF SerialInv, TypeInv, Depth
  <2>2. ObGetLevel(ob) >= Ground + Depth(t)
    BY <1>1, <1>2, <2>1 DEF SerialInv, Match, Live
  <2> QED BY <1>1, <2>1, <2>2, BufferTypes
<1>3. CASE \E t \in Tasks : Live(t)
  BY <1>1, <1>2, <1>3 DEF SHandlers, HighEnough
<1>4. CASE ~ \E t \in Tasks : Live(t)
  <2>1. ObGetLevel(ob) = Ground
    BY <1>4 DEF SerialInv, LevelRestored
  <2>2. ObGetLevel(ob) >= Ground
    BY <1>1, <2>1
  <2> QED BY <1>1, <1>4, <2>1, <2>2, OuterPrefix DEF SHandlers, HighEnough
<1> QED BY <1>3, <1>4

(* What a text that has grown by s has grown by.                           *)
LEMMA Suffix ==
    ASSUME NEW t \in Content, NEW s \in Content
    PROVE  /\ t \o s \in Content
           /\ SubSeq(t \o s, Len(t) + 1, Len(t \o s)) = s
<1>1. t \in Seq(Chunk) /\ s \in Seq(Chunk)
  BY DEF Content
<1>2. /\ t \o s \in Seq(Chunk) /\ Len(t \o s) = Len(t) + Len(s)
      /\ Len(t) \in Nat /\ Len(s) \in Nat
      /\ \A i \in 1 .. Len(s) : (t \o s)[Len(t) + i] = s[i]
  BY <1>1
<1> DEFINE c == t \o s
           p == SubSeq(c, Len(t) + 1, Len(c))
<1>3. c \in Seq(Chunk) /\ Len(c) = Len(t) + Len(s)
  BY <1>2
<1>4. \A i \in 1 .. Len(s) : c[Len(t) + i] = s[i]
  BY <1>2
<1> HIDE DEF c
<1>5. p \in Seq(Chunk) /\ Len(p) = Len(s)
  BY <1>2, <1>3
<1>6. \A i \in 1 .. Len(s) : p[i] = c[Len(t) + i]
  BY <1>2, <1>3
<1> HIDE DEF p
<1>7. p = s
  BY <1>1, <1>4, <1>5, <1>6, SeqEqual
<1> QED BY <1>1, <1>2, <1>7 DEF c, p, Content

LEMMA SerialLevelNext == SerialInv' => HighEnough'
BY SerialLevel, PTL

-----------------------------------------------------------------------------
(* The steps of RenderService, each from what it takes in the frames and   *)
(* buffers of TemplateRendering.                                           *)

(* The program sees nothing but the text of a render, if it changes.       *)
LEMMA ServiceWrites ==
    ASSUME SerialInv, SerialInv', Ground' = Ground, NEW r \in Renders, Live(r),
           NEW gs \in Seq(Frame), NEW s \in Content,
           gs # <<>>, gs[1].text = frames[r][1].text \o s,
           frames' = [frames EXCEPT ![r] = gs],
           Outer(ob') = Outer(ob), ob'.stdout = ob.stdout,
           SPhase' = SPhase, result' = result
    PROVE  Service!Write(r)
<1> DEFINE t == frames[r][1].text
<1>1. /\ frames \in [Tasks -> Seq(Frame)] /\ r \in Tasks
      /\ frames[r] # <<>> /\ status[r] \in {"running", "throwing"}
  BY DEF SerialInv, TypeInv, TypeOK, Live, Tasks
<1>2. t \in Content
  <2>1. frames[r][1] \in Frame
    BY <1>1, EmptySeq
  <2> QED BY <2>1 DEF Frame
<1>3. SText[r] = t /\ SText'[r] = t \o s
  BY <1>1 DEF SText
<1>4. SText' = [SText EXCEPT ![r] = t \o s]
  BY <1>1, <1>3 DEF SText, Tasks
<1>5. SubSeq(t \o s, Len(t) + 1, Len(t \o s)) = s /\ s \in Seq(Chunk)
  BY <1>2, Suffix DEF Content
<1>6. SPhase[r] = "running"
  BY <1>1 DEF SPhase
<1>7. SHandlers' = SHandlers
  BY SerialLevel, SerialLevelNext DEF HighEnough, Outer
<1>8. SResult' = SResult
  BY DEF SResult
<1> HIDE DEF t
<1>9. LET piece == SubSeq(SText'[r], Len(SText[r]) + 1, Len(SText'[r]))
      IN  /\ SPhase[r] = "running"
          /\ piece \in Seq(Chunk)
          /\ SText' = [SText EXCEPT ![r] = SText[r] \o piece]
          /\ SHandlers' = SHandlers /\ ob'.stdout = ob.stdout
          /\ SPhase' = SPhase /\ SResult' = SResult
  BY <1>3, <1>4, <1>5, <1>6, <1>7, <1>8
<1> QED BY <1>9 DEF Service!Write, SText, SPhase, SHandlers, SResult, Outer

(* The render that the program called is the only frame left, and returns. *)
LEMMA ServiceFulfils ==
    ASSUME SerialInv, SerialInv', Ground' = Ground, NEW r \in Renders,
           status[r] = "running", Depth(r) = 1,
           Return(r, Top(r).text),
           Outer(ob') = Outer(ob), ob'.stdout = ob.stdout
    PROVE  Service!Fulfil(r)
<1>1. /\ frames \in [Tasks -> Seq(Frame)] /\ status \in [Tasks -> Statuses]
      /\ result \in [Tasks -> Content \cup {NoContent, Nothing}]
      /\ r \in Tasks /\ frames[r] # <<>> /\ Top(r) = frames[r][1]
  BY LiveFrames DEF SerialInv, TypeInv, TypeOK, Live, Tasks, Top
<1>2. /\ status' = [status EXCEPT ![r] = "fulfilled"]
      /\ result' = [result EXCEPT ![r] = frames[r][1].text]
      /\ frames' = [frames EXCEPT ![r] = <<>>]
  BY <1>1 DEF Return
<1>3. SText[r] = frames[r][1].text
  BY <1>1 DEF SText
<1>4. SPhase[r] = "running" /\ SPhase' = [SPhase EXCEPT ![r] = "fulfilled"]
  BY <1>1, <1>2 DEF SPhase, Tasks
<1>5. SText' = [SText EXCEPT ![r] = <<>>]
  BY <1>1, <1>2 DEF SText, Tasks
<1>6. SResult' = [SResult EXCEPT ![r] = SText[r]]
  BY <1>1, <1>2, <1>3 DEF SResult, Tasks
<1>7. SHandlers' = SHandlers
  BY SerialLevel, SerialLevelNext DEF HighEnough, Outer
<1>8. /\ SPhase[r] = "running"
      /\ SPhase' = [SPhase EXCEPT ![r] = "fulfilled"]
      /\ SResult' = [SResult EXCEPT ![r] = SText[r]]
      /\ SText' = [SText EXCEPT ![r] = <<>>]
      /\ SHandlers' = SHandlers /\ ob'.stdout = ob.stdout
  BY <1>4, <1>5, <1>6, <1>7
<1> QED BY <1>8 DEF Service!Fulfil, SText, SPhase, SHandlers, SResult, Outer

(* An error leaves the render that the program called.                     *)
LEMMA ServiceRejects ==
    ASSUME SerialInv, SerialInv', Ground' = Ground, NEW r \in Renders,
           status[r] = "throwing", Depth(r) = 1, Unwind(r),
           Outer(ob') = Outer(ob), ob'.stdout = ob.stdout
    PROVE  Service!Reject(r)
<1>1. /\ frames \in [Tasks -> Seq(Frame)] /\ status \in [Tasks -> Statuses]
      /\ r \in Tasks /\ frames[r] \in Seq(Frame) /\ frames[r] # <<>>
      /\ Len(frames[r]) = 1
  BY LiveFrames DEF SerialInv, TypeInv, TypeOK, Live, Tasks, Depth
<1>2. Returned(frames[r]) = <<>>
  <2> DEFINE fs == frames[r]
  <2>1. fs \in Seq(Frame) /\ fs # <<>> /\ Len(fs) = 1
    BY <1>1
  <2> HIDE DEF fs
  <2>2. Returned(fs) \in Seq(Frame) /\ Len(Returned(fs)) = Len(fs) - 1
    BY <2>1, ReturnedFrames
  <2>3. Returned(fs) = <<>>
    BY <2>1, <2>2, EmptySeq
  <2> QED BY <2>3 DEF fs
<1>3. /\ status' = [status EXCEPT ![r] = "rejected"]
      /\ result' = result
      /\ frames' = [frames EXCEPT ![r] = <<>>]
  BY <1>2 DEF Unwind
<1>4. SPhase[r] = "running" /\ SPhase' = [SPhase EXCEPT ![r] = "rejected"]
  BY <1>1, <1>3 DEF SPhase, Tasks
<1>5. SText' = [SText EXCEPT ![r] = <<>>]
  BY <1>1, <1>3 DEF SText, Tasks
<1>6. SResult' = SResult
  BY <1>3 DEF SResult
<1>7. SHandlers' = SHandlers
  BY SerialLevel, SerialLevelNext DEF HighEnough, Outer
<1> QED BY <1>4, <1>5, <1>6, <1>7
        DEF Service!Reject, SText, SPhase, SHandlers, SResult, Outer

LEMMA ServiceStarts ==
    ASSUME SerialInv, SerialInv', Ground' = Ground, NEW r \in Renders, Start(r),
           Outer(ob') = Outer(ob), ob'.stdout = ob.stdout
    PROVE  Service!Start(r)
<1>0. /\ frames \in [Tasks -> Seq(Frame)] /\ status \in [Tasks -> Statuses]
      /\ \A t \in Tasks : Live(t) <=> frames[t] # <<>>
      /\ r \in Tasks /\ status[r] = "idle"
  <2>1. TypeOK /\ r \in Tasks /\ status[r] = "idle"
    BY DEF Start, SerialInv, TypeInv, Tasks
  <2> QED BY <2>1 DEF TypeOK
<1>1. frames[r] = <<>>
  <2>1. ~ Live(r)
    BY <1>0 DEF Live
  <2> QED BY <1>0, <2>1
<1>2. /\ status' = [status EXCEPT ![r] = "running"] /\ result' = result
      /\ frames' = [frames EXCEPT ![r] = <<NewFrame("render", ob)>>]
      /\ NewFrame("render", ob).text = <<>>
  BY DEF Start, NewFrame
<1>3. SPhase[r] = "idle" /\ SPhase' = [SPhase EXCEPT ![r] = "running"]
  BY <1>0, <1>1, <1>2 DEF SPhase, Tasks
<1>4. SText' = SText
  <2> DEFINE fs == <<NewFrame("render", ob)>>
  <2>1. fs # <<>> /\ fs[1].text = <<>>
    BY <1>2
  <2> HIDE DEF fs
  <2>2. frames' = [frames EXCEPT ![r] = fs]
    BY <1>2 DEF fs
  <2>3. \A u \in Renders : SText'[u] = SText[u]
    BY <1>0, <1>1, <2>1, <2>2 DEF SText, Tasks
  <2> QED BY <2>3 DEF SText
<1>5. SResult' = SResult
  BY <1>2 DEF SResult
<1>6. SHandlers' = SHandlers
  BY SerialLevel, SerialLevelNext DEF HighEnough, Outer
<1> QED BY <1>3, <1>4, <1>5, <1>6
        DEF Service!Start, SText, SPhase, SHandlers, SResult, Outer

(* A render that is refused leaves its buffer to the program.              *)
LEMMA ServiceRefuses ==
    ASSUME SerialInv, SerialInv', NEW r \in Renders, Refuse(r), Serial,
           ParentCalls = {}, ob'.stdout = ob.stdout
    PROVE  Service!Refuse(r)
<1>1. /\ frames \in [Tasks -> Seq(Frame)] /\ status \in [Tasks -> Statuses]
      /\ r \in Tasks /\ status[r] = "idle" /\ ob \in BufferState
  BY DEF Refuse, SerialInv, TypeInv, TypeOK, Tasks
<1>2. /\ status' = [status EXCEPT ![r] = "refused"] /\ ob' = ObStart(ob)
      /\ result' = result /\ frames' = frames
  BY DEF Refuse
<1>3. SPhase[r] = "idle" /\ SPhase' = [SPhase EXCEPT ![r] = "rejected"]
  BY <1>1, <1>2 DEF SPhase, Tasks
<1>4. SText' = SText /\ SResult' = SResult
  BY <1>2 DEF SText, SResult
<1>5. ~ \E t \in Tasks : Live(t)
  BY DEF Refuse, Tasks
<1>6. ~ \E t \in Tasks : Live(t)'
  BY <1>1, <1>2, <1>5 DEF Live
<1>7. SHandlers = ob.handlers /\ SHandlers' = ob'.handlers
  BY <1>5, <1>6 DEF SHandlers
<1>8. ob'.handlers = Append(ob.handlers, <<>>)
  BY <1>1, <1>2 DEF ObStart, BufferState
<1>9. SHandlers' = Append(SHandlers, <<>>)
  BY <1>7, <1>8
<1> QED BY <1>3, <1>4, <1>9
        DEF Service!Refuse, SText, SPhase, SHandlers, SResult, Outer

(* A flush of the outermost frame: its text goes to the innermost buffer   *)
(* of the program, or to stdout.                                           *)
LEMMA ServiceFlushes ==
    ASSUME SerialInv, SerialInv', Ground' = Ground, NEW r \in Renders, status[r] = "running",
           NEW gs \in Seq(Frame), gs # <<>>, gs[1].text = <<>>,
           frames' = [frames EXCEPT ![r] = gs],
           status' = status, result' = result,
           IF Ground = 0
           THEN /\ Outer(ob') = Outer(ob)
                /\ ob'.stdout = ob.stdout \o frames[r][1].text
           ELSE /\ Outer(ob') = [Outer(ob) EXCEPT
                        ![Ground] = Outer(ob)[Ground] \o frames[r][1].text]
                /\ ob'.stdout = ob.stdout
    PROVE  Service!Flush(r)
<1>1. /\ frames \in [Tasks -> Seq(Frame)] /\ r \in Tasks /\ frames[r] # <<>>
  BY DEF SerialInv, TypeInv, TypeOK, Live, Tasks
<1>2. SText[r] = frames[r][1].text
  BY <1>1 DEF SText
<1>3. SText' = [SText EXCEPT ![r] = <<>>]
  BY <1>1 DEF SText, Tasks
<1>4. SPhase[r] = "running" /\ SPhase' = SPhase /\ SResult' = SResult
  BY DEF SPhase, SResult
<1>5. SHandlers = Outer(ob) /\ SHandlers' = Outer(ob')
  BY SerialLevel, SerialLevelNext DEF HighEnough, Outer
<1>6. Outer(ob) \in Seq(Content) /\ Len(Outer(ob)) = Ground
  BY SerialLevel, OuterPrefix DEF HighEnough
<1>7. SHandlers = <<>> <=> Ground = 0
  BY <1>5, <1>6, EmptySeq
<1>8. Len(SHandlers) = Ground
  BY <1>5, <1>6
<1>9. /\ SPhase[r] = "running"
      /\ IF SHandlers = <<>>
         THEN ob'.stdout = ob.stdout \o SText[r] /\ SHandlers' = SHandlers
         ELSE /\ SHandlers' = [SHandlers EXCEPT
                      ![Len(SHandlers)] = SHandlers[Len(SHandlers)] \o SText[r]]
              /\ ob'.stdout = ob.stdout
      /\ SText' = [SText EXCEPT ![r] = <<>>]
      /\ SPhase' = SPhase /\ SResult' = SResult
  <2>1. CASE Ground = 0
    BY <2>1, <1>2, <1>3, <1>4, <1>5, <1>7
  <2>2. CASE Ground # 0
    BY <2>2, <1>2, <1>3, <1>4, <1>5, <1>7, <1>8
  <2> QED BY <2>1, <2>2
<1> QED BY <1>9 DEF Service!Flush, SText, SPhase, SHandlers, SResult, Outer

-----------------------------------------------------------------------------
(* What the methods of the buffer stack leave of the buffers of the        *)
(* program, and of stdout.                                                 *)

LEMMA StdoutKept ==
    ASSUME NEW b \in BufferState, HasActive(b), NEW s \in Content
    PROVE  /\ OutputWrite(b, s).stdout = b.stdout
           /\ ObEndClean(b).stdout = b.stdout
           /\ ObFlush(b).stdout = IF ObGetLevel(b) = 1
                                  THEN b.stdout \o Active(b) ELSE b.stdout
           /\ ObEndFlush(b).stdout = ObFlush(b).stdout
<1>1. \A c \in BufferState : \A h : [c EXCEPT !.handlers = h].stdout = c.stdout
  BY DEF BufferState
<1>2. \A c \in BufferState : \A v : WithActive(c, v).stdout = c.stdout
  BY <1>1 DEF WithActive
<1>3. \A c \in BufferState : Popped(c).stdout = c.stdout
  BY <1>1 DEF Popped
<1>4. OutputWrite(b, s).stdout = b.stdout
  BY <1>2 DEF OutputWrite
<1>5. ObEndClean(b).stdout = b.stdout
  <2>1. WithActive(b, <<>>) \in BufferState
    <3>1. /\ [b.handlers EXCEPT ![Len(b.handlers)] = <<>>] \in Seq(Content)
      BY DEF BufferState, HasActive, ObGetLevel, Content
    <3> QED BY <3>1 DEF WithActive, BufferState
  <2>2. ObEndClean(b) = Popped(WithActive(b, <<>>))
    BY DEF ObEndClean, ObClean
  <2> QED BY <2>1, <2>2, <1>2, <1>3
<1>6. ObEndFlush(b).stdout = ObFlush(b).stdout
  <2>1. ObFlush(b) \in BufferState
    BY ObFlushMovesDown
  <2> QED BY <2>1, <1>3 DEF ObEndFlush
<1>7. ObFlush(b).stdout = IF ObGetLevel(b) = 1
                          THEN b.stdout \o Active(b) ELSE b.stdout
  <2> DEFINE p == Popped(b)
             a == Active(b)
  <2>1. /\ p \in BufferState /\ p.stdout = b.stdout
        /\ ObGetLevel(p) = ObGetLevel(b) - 1
    BY <1>3, PoppedUnstacks
  <2>2. a \in Content /\ ObGetLevel(b) \in Nat \ {0}
    BY BufferTypes DEF HasActive, Active, BufferState, ObGetLevel
  <2> HIDE DEF p, a
  <2>3. OutputWrite(p, a) \in BufferState
    BY <2>1, <2>2, OutputWriteAppends
  <2>4. ObFlush(b).stdout = OutputWrite(p, a).stdout
    BY <2>3, ObStartStacks DEF ObFlush, p, a
  <2>5. CASE ObGetLevel(b) = 1
    <3>1. ~ HasActive(p)
      BY <2>1, <2>2, <2>5 DEF HasActive
    <3>2. OutputWrite(p, a) = [p EXCEPT !.stdout = p.stdout \o a]
      BY <3>1 DEF OutputWrite
    <3>3. OutputWrite(p, a).stdout = p.stdout \o a
      BY <2>1, <3>2 DEF BufferState
    <3> QED BY <2>1, <2>4, <2>5, <3>3 DEF a
  <2>6. CASE ObGetLevel(b) # 1
    <3>1. HasActive(p)
      BY <2>1, <2>2, <2>6 DEF HasActive
    <3>2. OutputWrite(p, a).stdout = p.stdout
      BY <2>1, <3>1, <1>2 DEF OutputWrite
    <3> QED BY <2>1, <2>4, <2>6, <3>2
  <2> QED BY <2>5, <2>6
<1> QED BY <1>4, <1>5, <1>6, <1>7

(* The stack c has the buffers of the program, and stdout, as b has them.  *)
SameOutside(b, c) == Outer(c) = Outer(b) /\ c.stdout = b.stdout

LEMMA StartsOutside ==
    ASSUME NEW b \in BufferState, ObGetLevel(b) >= Ground
    PROVE  SameOutside(b, ObStart(b))
<1>1. /\ ObStart(b) \in BufferState /\ ObStart(b).stdout = b.stdout
      /\ ObGetLevel(ObStart(b)) = ObGetLevel(b) + 1
      /\ \A i \in 1 .. ObGetLevel(b) : ObStart(b).handlers[i] = b.handlers[i]
  BY ObStartStacks
<1>2. ObGetLevel(b) \in Nat /\ Ground \in Nat
  BY BufferTypes, GroundNat
<1>3. ObGetLevel(ObStart(b)) >= Ground
      /\ \A i \in 1 .. Ground : ObStart(b).handlers[i] = b.handlers[i]
  BY <1>1, <1>2
<1> QED BY <1>1, <1>3, OuterSame DEF SameOutside

(* Writing to a buffer of a render, ending it and handing it down to       *)
(* another one are no concern of the program.                              *)
LEMMA StaysOutside ==
    ASSUME NEW b \in BufferState, ObGetLevel(b) > Ground, NEW s \in Content
    PROVE  /\ HasActive(b)
           /\ SameOutside(b, OutputWrite(b, s))
           /\ SameOutside(b, ObEndClean(b))
           /\ ObGetLevel(b) > Ground + 1 =>
                  SameOutside(b, ObFlush(b)) /\ SameOutside(b, ObEndFlush(b))
<1>1. ObGetLevel(b) \in Nat /\ Ground \in Nat
  BY BufferTypes, GroundNat
<1>2. HasActive(b)
  BY <1>1 DEF HasActive
<1>3. SameOutside(b, OutputWrite(b, s))
  <2> DEFINE c == OutputWrite(b, s)
  <2>1. /\ c \in BufferState /\ ObGetLevel(c) = ObGetLevel(b)
        /\ c.stdout = b.stdout
        /\ \A i \in 1 .. ObGetLevel(b) : c.handlers[i] =
               IF i = ObGetLevel(b) THEN b.handlers[i] \o s ELSE b.handlers[i]
    BY <1>2, OutputWriteAppends, StdoutKept
  <2> HIDE DEF c
  <2>2. ObGetLevel(c) >= Ground
        /\ \A i \in 1 .. Ground : c.handlers[i] = b.handlers[i]
    BY <1>1, <2>1
  <2>3. Outer(c) = Outer(b)
    BY <1>1, <2>1, <2>2, OuterSame
  <2> QED BY <2>1, <2>3 DEF SameOutside, c
<1>4. SameOutside(b, ObEndClean(b))
  <2> DEFINE c == ObEndClean(b)
  <2>1. /\ c \in BufferState /\ ObGetLevel(c) = ObGetLevel(b) - 1
        /\ c.stdout = b.stdout
        /\ \A i \in 1 .. ObGetLevel(b) - 1 : c.handlers[i] = b.handlers[i]
    BY <1>2, ObEndCleanUnstacks, StdoutKept
  <2> HIDE DEF c
  <2>2. ObGetLevel(c) >= Ground
        /\ \A i \in 1 .. Ground : c.handlers[i] = b.handlers[i]
    BY <1>1, <2>1
  <2>3. Outer(c) = Outer(b)
    BY <1>1, <2>1, <2>2, OuterSame
  <2> QED BY <2>1, <2>3 DEF SameOutside, c
<1>5. ASSUME ObGetLevel(b) > Ground + 1, NEW c \in {ObFlush(b), ObEndFlush(b)}
      PROVE  SameOutside(b, c)
  <2>1. /\ c \in BufferState /\ ObGetLevel(c) >= ObGetLevel(b) - 1
        /\ \A i \in 1 .. ObGetLevel(b) - 1 : c.handlers[i] =
               IF i = ObGetLevel(b) - 1 THEN b.handlers[i] \o b.handlers[ObGetLevel(b)]
                                        ELSE b.handlers[i]
    <3>1. CASE c = ObFlush(b)
      BY <1>1, <1>2, <3>1, ObFlushMovesDown
    <3>2. CASE c = ObEndFlush(b)
      BY <1>1, <1>2, <3>2, ObEndFlushMovesDown
    <3> QED BY <3>1, <3>2
  <2>2. c.stdout = b.stdout
    <3>1. ObGetLevel(b) # 1
      BY <1>1, <1>5
    <3> QED BY <1>2, <3>1, StdoutKept
  <2>3. ObGetLevel(c) \in Nat
    BY <2>1, BufferTypes
  <2>4. ObGetLevel(c) >= Ground
        /\ \A i \in 1 .. Ground : c.handlers[i] = b.handlers[i]
    BY <1>1, <1>5, <2>1, <2>3
  <2>5. Outer(c) = Outer(b)
    BY <1>1, <2>1, <2>4, OuterSame
  <2> QED BY <2>2, <2>5 DEF SameOutside
<1> QED BY <1>2, <1>3, <1>4, <1>5

LEMMA CleansOutside ==
    ASSUME NEW b \in BufferState, ObGetLevel(b) >= Ground,
           NEW level \in Nat, level >= Ground
    PROVE  SameOutside(b, CleanedTo(b, level))
<1> DEFINE c == CleanedTo(b, level)
<1>1. ObGetLevel(b) \in Nat /\ Ground \in Nat
  BY BufferTypes, GroundNat
<1>2. /\ c \in BufferState
      /\ ObGetLevel(c) = IF ObGetLevel(b) > level THEN level ELSE ObGetLevel(b)
      /\ \A i \in 1 .. ObGetLevel(c) : c.handlers[i] = b.handlers[i]
  BY CleanedToLevel
<1>3. c.stdout = b.stdout
  BY DEF CleanedTo, BufferState
<1> HIDE DEF c
<1>4. ObGetLevel(c) >= Ground
      /\ \A i \in 1 .. Ground : c.handlers[i] = b.handlers[i]
  BY <1>1, <1>2
<1>5. Outer(c) = Outer(b)
  BY <1>2, <1>4, OuterSame
<1> QED BY <1>3, <1>5 DEF SameOutside, c

(* The flush of the only buffer of a render is what the program sees.      *)
LEMMA FlushesOutside ==
    ASSUME NEW b \in BufferState, ObGetLevel(b) = Ground + 1,
           NEW x, x = b.handlers[Ground + 1]
    PROVE  IF Ground = 0
           THEN /\ Outer(ObFlush(b)) = Outer(b)
                /\ ObFlush(b).stdout = b.stdout \o x
           ELSE /\ Outer(ObFlush(b)) = [Outer(b) EXCEPT
                        ![Ground] = Outer(b)[Ground] \o x]
                /\ ObFlush(b).stdout = b.stdout
<1> DEFINE c == ObFlush(b)
           n == Ground
<1>1. ObGetLevel(b) \in Nat /\ n \in Nat /\ HasActive(b) /\ Active(b) = x
  BY GroundNat DEF HasActive, Active
<1>2. /\ c \in BufferState /\ ObGetLevel(c) = n + 1
      /\ \A i \in 1 .. n : c.handlers[i] =
             IF i = n THEN b.handlers[i] \o x ELSE b.handlers[i]
  BY <1>1, ObFlushMovesDown
<1>3. c.stdout = IF n = 0 THEN b.stdout \o x ELSE b.stdout
  <2>1. <<>> \in Content
    BY DEF Content
  <2> QED BY <1>1, <2>1, StdoutKept
<1>4. /\ Outer(b) \in Seq(Content) /\ Len(Outer(b)) = n
      /\ Outer(c) \in Seq(Content) /\ Len(Outer(c)) = n
      /\ \A i \in 1 .. n : Outer(b)[i] = b.handlers[i]
      /\ \A i \in 1 .. n : Outer(c)[i] = c.handlers[i]
  <2> HIDE DEF c
  <2>1. ObGetLevel(b) >= n /\ ObGetLevel(c) >= n
    BY <1>1, <1>2
  <2> QED BY <1>2, <2>1, OuterPrefix
<1> DEFINE u == Outer(b)
           v == Outer(c)
<1>5. /\ u \in Seq(Content) /\ v \in Seq(Content) /\ Len(u) = n /\ Len(v) = n
      /\ \A i \in 1 .. n : v[i] = IF i = n THEN u[i] \o x ELSE u[i]
  BY <1>2, <1>4
<1> HIDE DEF c, u, v, n
<1>6. CASE n = 0
  <2>1. u = v
    BY <1>5, <1>6, EmptySeq
  <2> QED BY <1>3, <1>6, <2>1 DEF c, n, u, v
<1>7. CASE n # 0
  <2>1. n \in 1 .. Len(u) /\ v[n] \in Content /\ v[n] = u[n] \o x
    <3>1. n \in 1 .. n
      BY <1>1, <1>7
    <3>2. v[n] = u[n] \o x
      BY <1>5, <3>1
    <3>3. v[n] \in Content
      BY <1>5, <3>1
    <3> QED BY <1>5, <3>1, <3>2, <3>3
  <2> DEFINE w == [u EXCEPT ![n] = u[n] \o x]
  <2>2. w \in Seq(Content) /\ Len(w) = n
        /\ \A i \in 1 .. n : w[i] = IF i = n THEN u[n] \o x ELSE u[i]
    <3>1. w = [u EXCEPT ![n] = v[n]]
      BY <2>1
    <3> HIDE DEF w
    <3> QED BY <3>1, <2>1, <1>5, ExceptSeq
  <2> HIDE DEF w
  <2>3. v = w
    BY <1>5, <2>2, SeqEqual
  <2> QED BY <1>3, <1>7, <2>3 DEF c, n, u, v, w
<1> QED BY <1>6, <1>7

-----------------------------------------------------------------------------
(* What the steps of nested calls do to the text of the outermost frame.   *)

Grows(fs, gs) ==
    \E s \in Content : gs # <<>> /\ gs[1].text = fs[1].text \o s

LEMMA TextsGrow ==
    ASSUME NEW fs \in Seq(Frame), fs # <<>>, NEW s \in Content,
           NEW f \in Frame
    PROVE  /\ Grows(fs, fs)
           /\ Grows(fs, Append(fs, f))
           /\ Grows(fs, Written(fs, s))
           /\ Len(fs) > 1 => /\ Grows(fs, Flushed(fs))
                             /\ Grows(fs, Returned(fs))
                             /\ Grows(fs, Written(Returned(fs), s))
<1> DEFINE n == Len(fs)
           t == fs[1].text
           rs == Returned(fs)
<1>1. n \in Nat \ {0} /\ fs[1] \in Frame /\ fs[n] \in Frame
  BY EmptySeq
<1>2. t \in Content /\ fs[n].text \in Content /\ <<>> \in Content
  BY <1>1 DEF Frame, Content
<1>3. t = t \o <<>>
  BY <1>2, ConcatEmptySeq DEF Content
<1> HIDE DEF t
<1>4. Grows(fs, fs)
  BY <1>2, <1>3 DEF Grows, t
<1>5. Grows(fs, Append(fs, f))
  <2>1. Append(fs, f)[1] = fs[1] /\ Append(fs, f) # <<>>
    BY <1>1
  <2> QED BY <2>1, <1>2, <1>3 DEF Grows, t
<1>6. ASSUME NEW gs \in Seq(Frame), gs # <<>>, gs[1].text = t, NEW x \in Content
      PROVE  Grows(fs, Written(gs, x))
  <2>1. Len(gs) \in Nat \ {0}
    BY <1>6, EmptySeq
  <2>2. /\ Written(gs, x) \in Seq(Frame) /\ Len(Written(gs, x)) = Len(gs)
        /\ Written(gs, x)[1].text =
               IF 1 = Len(gs) THEN gs[1].text \o x ELSE gs[1].text
    <3>1. 1 \in 1 .. Len(gs)
      BY <2>1
    <3> QED BY <1>6, <3>1, WrittenFrames
  <2>3. Written(gs, x) # <<>>
    BY <2>1, <2>2, EmptySeq
  <2>4. Written(gs, x)[1].text = t \o x \/ Written(gs, x)[1].text = t \o <<>>
    BY <1>3, <1>6, <2>2
  <2> QED BY <1>2, <2>3, <2>4, <1>6 DEF Grows, t
<1>7. ASSUME n > 1
      PROVE  Grows(fs, Flushed(fs)) /\ Grows(fs, rs) /\ Grows(fs, Written(rs, s))
  <2>1. rs \in Seq(Frame) /\ Len(rs) = n - 1 /\ rs[1] = fs[1]
    BY <1>1, <1>7, ReturnedFrames
  <2>2. rs # <<>>
    BY <1>1, <1>7, <2>1, EmptySeq
  <2> HIDE DEF rs
  <2>3. Grows(fs, rs)
    BY <1>2, <1>3, <2>1, <2>2 DEF Grows, t
  <2>4. Grows(fs, Written(rs, s))
    BY <1>6, <2>1, <2>2 DEF t
  <2>5. Grows(fs, Flushed(fs))
    <3>1. /\ Flushed(fs) \in Seq(Frame) /\ Len(Flushed(fs)) = n
          /\ Flushed(fs)[1].text =
                 IF 1 = n - 1 THEN t \o fs[n].text ELSE t
      <4>1. 1 \in 1 .. n /\ 1 # n
        BY <1>1, <1>7
      <4>2. Flushed(fs) \in Seq(Frame) /\ Len(Flushed(fs)) = n
        BY FlushedFrames
      <4>3. Flushed(fs)[1].text = IF 1 = n - 1 THEN fs[1].text \o fs[n].text
                                               ELSE fs[1].text
        BY <4>1, FlushedFrames
      <4> QED BY <4>2, <4>3 DEF t
    <3>2. Flushed(fs) # <<>>
      BY <1>1, <3>1, EmptySeq
    <3>3. \/ Flushed(fs)[1].text = t \o fs[n].text
          \/ Flushed(fs)[1].text = t \o <<>>
      BY <1>3, <3>1
    <3> QED BY <1>2, <3>2, <3>3 DEF Grows, t
  <2> QED BY <2>3, <2>4, <2>5
<1>8. Grows(fs, Written(fs, s))
  BY <1>6 DEF t
<1> QED BY <1>4, <1>5, <1>7, <1>8

-----------------------------------------------------------------------------
(* Every step is a step of the service or leaves its state as it was.      *)

(* A step inside the calls of a render.                                    *)
LEMMA NestedStep ==
    ASSUME SerialInv, SerialInv', Ground' = Ground, NEW r \in Renders, Live(r),
           NEW gs, frames' = [frames EXCEPT ![r] = gs],
           Grows(frames[r], gs), SameOutside(ob, ob'),
           SPhase' = SPhase, result' = result
    PROVE  Service!Write(r)
<1>1. PICK s \in Content : gs # <<>> /\ gs[1].text = frames[r][1].text \o s
  BY DEF Grows
<1>2. gs \in Seq(Frame)
  <2>1. /\ frames \in [Tasks -> Seq(Frame)] /\ frames' \in [Tasks -> Seq(Frame)]
        /\ r \in Tasks
    BY DEF SerialInv, TypeInv, TypeOK, Tasks
  <2> QED BY <2>1
<1> QED BY <1>1, <1>2, ServiceWrites DEF SameOutside

(* What a running render finds.                                            *)
LEMMA RunningRender ==
    ASSUME SerialInv, NEW r \in Renders, status[r] = "running"
    PROVE  /\ Live(r) /\ r \in Tasks
           /\ frames[r] \in Seq(Frame) /\ frames[r] # <<>>
           /\ FramesOk(frames[r]) /\ Match(ob, frames[r])
           /\ Depth(r) = Len(frames[r]) /\ Depth(r) \in Nat \ {0}
           /\ Top(r) = frames[r][Depth(r)] /\ Top(r).text \in Content
           /\ ob \in BufferState /\ HasActive(ob)
           /\ ObGetContents(ob) = Top(r).text
           /\ Ground \in Nat /\ ObGetLevel(ob) = Ground + Depth(r)
           /\ ObGetLevel(ob) > Ground
           /\ frames = [frames EXCEPT ![r] = frames[r]]
<1>1. /\ Live(r) /\ r \in Tasks /\ TypeOK
      /\ FramesOk(frames[r]) /\ Match(ob, frames[r])
  BY DEF SerialInv, TypeInv, Live, Tasks
<1>2. /\ frames[r] \in Seq(Frame) /\ frames[r] # <<>>
      /\ Depth(r) \in Nat \ {0} /\ Depth(r) = Len(frames[r])
      /\ Top(r) = frames[r][Depth(r)] /\ Top(r).text \in Content
  BY <1>1, LiveFrames DEF Depth
<1>3. ob \in BufferState /\ frames \in [Tasks -> Seq(Frame)]
  BY <1>1 DEF TypeOK
<1>4. HasActive(ob) /\ ObGetContents(ob) = Top(r).text
  BY <1>1, <1>2, <1>3, ReturnKeepsMatch
<1>5. Ground \in Nat /\ ObGetLevel(ob) = Ground + Depth(r)
  BY <1>1, <1>2, GroundNat DEF Match
<1>6. ObGetLevel(ob) > Ground
  BY <1>2, <1>5
<1> QED BY <1>1, <1>2, <1>3, <1>4, <1>5, <1>6

LEMMA FlushServed ==
    ASSUME SerialInv, SerialInv', Ground' = Ground, NEW r \in Renders, Flush(r)
    PROVE  Service!Write(r) \/ Service!Flush(r)
<1> DEFINE fs == frames[r]
<1>1. /\ status[r] = "running" /\ ob' = ObFlush(ob)
      /\ frames' = [frames EXCEPT ![r] = Flushed(fs)]
      /\ UNCHANGED <<status, value, result, own>>
  BY DEF Flush, Running
<1>2. SPhase' = SPhase
  BY <1>1 DEF SPhase
<1>3. CASE Depth(r) > 1
  <2>1. Grows(fs, Flushed(fs)) /\ SameOutside(ob, ob')
    <3>1. /\ fs \in Seq(Frame) /\ fs # <<>> /\ Len(fs) > 1
          /\ Top(r) \in Frame /\ <<>> \in Content
          /\ ob \in BufferState /\ ObGetLevel(ob) > Ground + 1
          /\ ObGetLevel(ob) > Ground
      BY <1>1, <1>3, RunningRender, LiveFrames DEF SerialInv, TypeInv, Content
    <3> HIDE DEF fs
    <3> QED BY <1>1, <3>1, TextsGrow, StaysOutside
  <2> QED BY <1>1, <1>2, <2>1, RunningRender, NestedStep
<1>4. CASE Depth(r) = 1
  <2>1. /\ fs \in Seq(Frame) /\ fs # <<>> /\ Len(fs) = 1
        /\ ob \in BufferState /\ ObGetLevel(ob) = Ground + 1
        /\ ob.handlers[Ground + 1] = fs[1].text
    <3>1. /\ fs \in Seq(Frame) /\ fs # <<>> /\ Len(fs) = 1
          /\ ob \in BufferState /\ ObGetLevel(ob) = Ground + 1
          /\ Match(ob, fs)
      BY <1>1, <1>4, RunningRender
    <3> HIDE DEF fs
    <3>2. 1 \in 1 .. Len(fs)
      BY <3>1
    <3> QED BY <3>1, <3>2 DEF Match
  <2>2. /\ Flushed(fs) \in Seq(Frame) /\ Flushed(fs) # <<>>
        /\ Flushed(fs)[1].text = <<>>
    <3> HIDE DEF fs
    <3>1. /\ Flushed(fs) \in Seq(Frame) /\ Len(Flushed(fs)) = 1
          /\ Flushed(fs)[1].text = <<>>
      <4>1. 1 \in 1 .. Len(fs) /\ 1 = Len(fs)
        BY <2>1
      <4>2. Flushed(fs) \in Seq(Frame) /\ Len(Flushed(fs)) = Len(fs)
        BY <2>1, FlushedFrames
      <4>3. Flushed(fs)[1].text = <<>>
        BY <2>1, <4>1, FlushedFrames
      <4> QED BY <4>1, <4>2, <4>3
    <3>2. Flushed(fs) # <<>>
      <4> DEFINE gs == Flushed(fs)
      <4>1. Len(gs) = 1
        BY <3>1
      <4> HIDE DEF gs
      <4>2. gs # <<>>
        BY <4>1
      <4> QED BY <4>2 DEF gs
    <3> QED BY <3>1, <3>2
  <2>3. IF Ground = 0
        THEN /\ Outer(ob') = Outer(ob)
             /\ ob'.stdout = ob.stdout \o fs[1].text
        ELSE /\ Outer(ob') = [Outer(ob) EXCEPT
                     ![Ground] = Outer(ob)[Ground] \o fs[1].text]
             /\ ob'.stdout = ob.stdout
    BY <1>1, <2>1, FlushesOutside
  <2> QED BY <1>1, <2>2, <2>3, ServiceFlushes
<1> QED BY <1>1, <1>3, <1>4, RunningRender

LEMMA ReturnServed ==
    ASSUME SerialInv, SerialInv', Ground' = Ground, NEW r \in Renders,
           LeaveRender(r) \/ LeaveCapture(r) \/ LeaveMacro(r)
    PROVE  Service!Write(r) \/ Service!Fulfil(r)
<1>1. status[r] = "running"
  BY DEF LeaveRender, LeaveCapture, LeaveMacro, Running
<1>2. HasActive(ob) /\ ObGetContents(ob) = Top(r).text
  BY <1>1, RunningRender
<1>3. Return(r, Top(r).text) /\ ob' = ObEndClean(ob)
  BY <1>2 DEF LeaveRender, LeaveCapture, LeaveMacro, ObGetClean
<1>4. SameOutside(ob, ob')
  <2>1. <<>> \in Content
    BY DEF Content
  <2> QED BY <1>1, <1>3, <2>1, RunningRender, StaysOutside
<1>5. CASE Depth(r) = 1
  BY <1>1, <1>3, <1>4, <1>5, ServiceFulfils DEF SameOutside
<1>6. CASE Depth(r) # 1
  <2>1. /\ frames' = [frames EXCEPT ![r] = Returned(frames[r])]
        /\ UNCHANGED <<status, result>>
    BY <1>3, <1>6 DEF Return
  <2>2. SPhase' = SPhase
    BY <2>1 DEF SPhase
  <2>3. Grows(frames[r], Returned(frames[r]))
    <3>1. /\ frames[r] \in Seq(Frame) /\ frames[r] # <<>> /\ Len(frames[r]) > 1
          /\ Top(r) \in Frame /\ <<>> \in Content
      BY <1>1, <1>6, RunningRender, LiveFrames DEF SerialInv, TypeInv, Content
    <3> QED BY <3>1, TextsGrow
  <2> QED BY <1>1, <1>4, <2>1, <2>2, <2>3, RunningRender, NestedStep
<1> QED BY <1>5, <1>6

LEMMA UnwindServed ==
    ASSUME SerialInv, SerialInv', Ground' = Ground, NEW r \in Renders, Unwind(r)
    PROVE  Service!Write(r) \/ Service!Reject(r)
<1> DEFINE fs == frames[r]
           n == Len(fs)
<1>1. /\ status[r] = "throwing" /\ Live(r) /\ r \in Tasks /\ TypeOK
      /\ FramesOk(fs) /\ ObGetLevel(ob) >= Ground + n
      /\ frames' = [frames EXCEPT ![r] = Returned(fs)] /\ result' = result
  BY DEF Unwind, SerialInv, TypeInv, Live, Tasks, Depth
<1>2. /\ fs \in Seq(Frame) /\ fs # <<>> /\ n \in Nat \ {0} /\ Depth(r) = n
      /\ Top(r) = fs[n] /\ Top(r) \in Frame
  BY <1>1, LiveFrames DEF Depth
<1>3. ob \in BufferState /\ Ground \in Nat /\ ObGetLevel(ob) \in Nat
  BY <1>1, GroundNat, BufferTypes DEF TypeOK
<1>4. Top(r).kind = "render" => Top(r).level = Ground + n - 1
  BY <1>1, <1>2 DEF FramesOk, LevelsRecorded
<1> HIDE DEF n
<1>5. SameOutside(ob, ob')
  <2>1. CASE Top(r).kind = "render"
    <3>1. ob' = CleanedTo(ob, Ground + n - 1)
      BY <1>4, <2>1 DEF Unwind
    <3> QED BY <1>1, <1>2, <1>3, <3>1, CleansOutside
  <2>2. CASE Top(r).kind = "macro"
    <3>1. ob' = ObEndClean(ob)
      BY <2>2 DEF Unwind
    <3>2. ObGetLevel(ob) > Ground /\ <<>> \in Content
      BY <1>1, <1>2, <1>3 DEF Content
    <3> QED BY <1>3, <3>1, <3>2, StaysOutside
  <2>3. CASE Top(r).kind \notin {"render", "macro"}
    BY <2>3 DEF Unwind, SameOutside
  <2> QED BY <2>1, <2>2, <2>3
<1>6. CASE n = 1
  BY <1>1, <1>2, <1>5, <1>6, ServiceRejects DEF SameOutside
<1>7. CASE n # 1
  <2>1. status' = status
    BY <1>2, <1>7 DEF Unwind
  <2>2. SPhase' = SPhase
    BY <2>1 DEF SPhase
  <2>3. n > 1 /\ <<>> \in Content
    BY <1>2, <1>7 DEF Content
  <2>4. Grows(fs, Returned(fs))
    BY <1>2, <2>3, TextsGrow DEF n
  <2> QED BY <1>1, <1>5, <2>2, <2>4, NestedStep
<1> QED BY <1>6, <1>7

(* The steps that a running render takes in its innermost frame.           *)
LEMMA RunServed ==
    ASSUME SerialInv, SerialInv', Ground' = Ground, NEW r \in Renders,
           \/ \E k \in FrameKinds : Call(r, k)
           \/ \E c \in Texts : PrintText(r, c)
           \/ PrintValue(r) \/ KeepValue(r)
           \/ LeaveSpaceless(r) \/ LeaveSourceMap(r)
           \/ Throw(r)
    PROVE  Service!Write(r)
<1> DEFINE fs == frames[r]
<1>1. status[r] = "running" /\ result' = result
  BY DEF Call, PrintText, PrintValue, KeepValue, LeaveSpaceless,
         LeaveSourceMap, Throw, Running, Raise
<1>2. /\ Live(r) /\ r \in Tasks /\ TypeOK /\ fs \in Seq(Frame) /\ fs # <<>>
      /\ FramesOk(fs) /\ Top(r) = fs[Len(fs)] /\ Top(r) \in Frame
      /\ Top(r).text \in Content /\ <<>> \in Content
      /\ ob \in BufferState /\ HasActive(ob)
      /\ ObGetContents(ob) = Top(r).text
      /\ Ground \in Nat /\ ObGetLevel(ob) = Ground + Len(fs)
      /\ ObGetLevel(ob) > Ground
      /\ frames = [frames EXCEPT ![r] = fs]
  BY <1>1, RunningRender, LiveFrames DEF SerialInv, TypeInv, Content
<1>3. status' = status => SPhase' = SPhase
  BY DEF SPhase
<1>4. ASSUME NEW s \in Content
      PROVE  Echo(ob, s) = OutputWrite(ob, s) /\ SameOutside(ob, Echo(ob, s))
             /\ Grows(fs, Written(fs, s))
  <2>1. Echo(ob, s) = OutputWrite(ob, s)
    BY NoContentAssumption DEF Echo, Content
  <2> QED BY <1>2, <2>1, StaysOutside, TextsGrow
<1>5. ASSUME NEW k \in FrameKinds, Call(r, k) PROVE Service!Write(r)
  <2>1. /\ frames' = [frames EXCEPT ![r] = Append(fs, NewFrame(k, ob))]
        /\ ob' = ObStart(ob) /\ status' = status
    BY <1>5 DEF Call
  <2>2. NewFrame(k, ob) \in Frame
    BY <1>2, NewFrameType
  <2>3. Grows(fs, Append(fs, NewFrame(k, ob))) /\ SameOutside(ob, ob')
    BY <1>2, <2>1, <2>2, TextsGrow, StartsOutside
  <2> QED BY <1>1, <1>2, <1>3, <2>1, <2>3, NestedStep
<1>6. ASSUME NEW c \in Texts, PrintText(r, c) PROVE Service!Write(r)
  <2>1. /\ frames' = [frames EXCEPT ![r] = Written(fs, <<c>>)]
        /\ ob' = Echo(ob, <<c>>) /\ status' = status
    BY <1>6 DEF PrintText
  <2>2. <<c>> \in Content
    BY RenderingAssumption DEF Content
  <2> QED BY <1>1, <1>2, <1>3, <1>4, <2>1, <2>2, NestedStep
<1>7. CASE PrintValue(r)
  <2> DEFINE v == value[r]
             s == IF v = NoContent THEN <<>> ELSE v
  <2>1. /\ frames' = [frames EXCEPT ![r] = Written(fs, s)]
        /\ ob' = Echo(ob, v) /\ status' = status
    BY <1>7 DEF PrintValue
  <2>2. s \in Content
    BY <1>2, <1>7 DEF PrintValue, TypeOK
  <2>3. Echo(ob, v) = Echo(ob, s)
    BY <2>2, NoContentAssumption DEF Echo, Content
  <2> HIDE DEF s, v
  <2> QED BY <1>1, <1>2, <1>3, <1>4, <2>1, <2>2, <2>3, NestedStep
<1>8. CASE KeepValue(r)
  <2>1. UNCHANGED <<ob, status, frames>>
    BY <1>8 DEF KeepValue
  <2>2. Grows(fs, fs) /\ SameOutside(ob, ob')
    BY <1>2, <2>1, TextsGrow DEF SameOutside, Outer
  <2>3. frames' = [frames EXCEPT ![r] = fs]
    BY <1>2, <2>1
  <2> QED BY <1>1, <1>2, <1>3, <2>1, <2>2, <2>3, NestedStep
<1>9. CASE Throw(r)
  <2>1. /\ UNCHANGED <<ob, frames>>
        /\ status' = [status EXCEPT ![r] = "throwing"]
    BY <1>9 DEF Throw
  <2>2. Grows(fs, fs) /\ SameOutside(ob, ob')
    BY <1>2, <2>1, TextsGrow DEF SameOutside, Outer
  <2>3. frames' = [frames EXCEPT ![r] = fs]
    BY <1>2, <2>1
  <2>4. SPhase' = SPhase
    BY <1>1, <1>2, <2>1 DEF SPhase, TypeOK
  <2> QED BY <1>1, <1>2, <2>2, <2>3, <2>4, NestedStep
<1>10. ASSUME Top(r).kind # "render", NEW s \in Content
       PROVE  /\ Len(fs) > 1 /\ Grows(fs, Written(Returned(fs), s))
              /\ ObGetLevel(ob) > Ground + 1
  <2>1. Len(fs) \in Nat /\ Len(fs) > 1
    BY <1>2, <1>10, InnerFrame
  <2>2. Grows(fs, Written(Returned(fs), s))
    <3> HIDE DEF fs
    <3> QED BY <1>2, <2>1, TextsGrow
  <2> QED BY <1>2, <2>1, <2>2
<1>11. CASE LeaveSourceMap(r)
  <2>1. /\ Top(r).kind # "render" /\ ob' = ObEndFlush(ob) /\ status' = status
        /\ frames' = [frames EXCEPT ![r] = Written(Returned(fs), Top(r).text)]
    BY <1>11 DEF LeaveSourceMap, ObGetFlush
  <2>2. /\ Grows(fs, Written(Returned(fs), Top(r).text))
        /\ ObGetLevel(ob) > Ground + 1
    BY <1>2, <1>10, <2>1
  <2>3. SameOutside(ob, ob')
    BY <1>2, <2>1, <2>2, StaysOutside
  <2> QED BY <1>1, <1>2, <1>3, <2>1, <2>2, <2>3, NestedStep
<1>12. CASE LeaveSpaceless(r)
  <2> DEFINE b == ObEndClean(ob)
             s == Squeeze(Top(r).text)
  <2>1. /\ Top(r).kind # "render" /\ ob' = Echo(b, s) /\ status' = status
        /\ frames' = [frames EXCEPT ![r] = Written(Returned(fs), s)]
    BY <1>2, <1>12 DEF LeaveSpaceless, ObGetClean
  <2>2. s \in Content
    BY <1>2, SqueezeType
  <2>3. Grows(fs, Written(Returned(fs), s)) /\ ObGetLevel(ob) > Ground + 1
    BY <1>10, <2>1, <2>2
  <2>4. /\ b \in BufferState /\ ObGetLevel(b) > Ground
        /\ SameOutside(ob, b)
    <3>1. b \in BufferState /\ ObGetLevel(b) = ObGetLevel(ob) - 1
      BY <1>2, ObEndCleanUnstacks
    <3>2. ObGetLevel(ob) \in Nat
      BY <1>2, BufferTypes
    <3> QED BY <1>2, <2>3, <3>1, <3>2, StaysOutside
  <2> HIDE DEF b, s
  <2>5. ob' = OutputWrite(b, s)
    BY <2>1, <2>2, NoContentAssumption DEF Echo, Content
  <2>6. SameOutside(ob, ob')
    BY <2>2, <2>4, <2>5, StaysOutside DEF SameOutside
  <2> QED BY <1>1, <1>2, <1>3, <2>1, <2>3, <2>6, NestedStep
<1> QED BY <1>5, <1>6, <1>7, <1>8, <1>9, <1>11, <1>12

LEMMA StepServed ==
    ASSUME Serial, ParentCalls = {}, SerialInv, SerialInv', [Next]_vars
    PROVE  [Service!Next]_(Service!vars)
<1>1. ASSUME NEW r \in Renders, Start(r), Ground' = Ground PROVE Service!Start(r)
  <2>1. SameOutside(ob, ob')
    BY <1>1, SerialLevel, StartsOutside DEF HighEnough, Start
  <2> QED BY <1>1, <2>1, ServiceStarts DEF SameOutside
<1>2. ASSUME NEW r \in Renders, Refuse(r) PROVE Service!Refuse(r)
  <2>1. ob \in BufferState /\ ob' = ObStart(ob)
    BY <1>2 DEF Refuse, SerialInv, TypeInv, TypeOK
  <2>2. ob'.stdout = ob.stdout
    BY <2>1 DEF ObStart, BufferState
  <2> QED BY <1>2, <2>2, ServiceRefuses
<1>3. CASE UNCHANGED vars
  <2>1. Ground' = Ground
    BY <1>3, GroundStays DEF vars
  <2> QED BY <1>3, <2>1 DEF vars, Service!vars, Live
<1>4. CASE Next
  <2>1. PICK r \in Tasks : Step(r)
    BY <1>4 DEF Next
  <2>2. r \in Renders
    BY DEF Tasks
  <2>3. CASE Refuse(r)
    <3>1. Service!Refuse(r)
      BY <1>2, <2>2, <2>3
    <3> QED BY <2>2, <3>1 DEF Service!Next
  <2>4. CASE ~ Refuse(r)
    <3>1. Ground' = Ground
      BY <2>1, <2>4, GroundKept DEF SerialInv, TypeInv
    <3>2. \/ Start(r)
          \/ Flush(r)
          \/ LeaveRender(r) \/ LeaveCapture(r) \/ LeaveMacro(r)
          \/ Unwind(r)
          \/ \/ \E k \in FrameKinds : Call(r, k)
             \/ \E c \in Texts : PrintText(r, c)
             \/ PrintValue(r) \/ KeepValue(r)
             \/ LeaveSpaceless(r) \/ LeaveSourceMap(r)
             \/ Throw(r)
      <4>1. ~ \E u \in ParentCalls : CallParent(r, u)
        OBVIOUS
      <4> QED BY <2>1, <2>4, <4>1, Zenon DEF Step
    <3>3. \/ Service!Start(r) \/ Service!Write(r) \/ Service!Flush(r)
          \/ Service!Fulfil(r) \/ Service!Reject(r)
      BY <1>1, <2>2, <3>1, <3>2, FlushServed, ReturnServed, UnwindServed, RunServed
    <3> QED BY <2>2, <3>3 DEF Service!Next
  <2> QED BY <2>3, <2>4
<1> QED BY <1>3, <1>4

LEMMA InitServed == Init => Service!Init
<1> SUFFICES ASSUME Init PROVE Service!Init
  OBVIOUS
<1>1. ~ \E t \in Tasks : Live(t)
  BY DEF Init, Live
<1>2. /\ SHandlers = OuterHandlers /\ ob.stdout = <<>>
      /\ SPhase = [r \in Renders |-> "idle"]
      /\ SText = [r \in Renders |-> <<>>]
      /\ SResult = [r \in Renders |-> Nothing]
  BY <1>1 DEF Init, SHandlers, SPhase, SText, SResult, Tasks
<1> QED BY <1>2 DEF Service!Init, SHandlers, SPhase, SText, SResult, Outer

(* Renders that are awaited one after the other implement renders that     *)
(* have nothing to do with one another: whatever a template calls, in      *)
(* whatever it captures, and wherever it throws (template.ts render).      *)
THEOREM SerialImplementsService ==
    ASSUME Serial, ParentCalls = {}
    PROVE  Spec => ImplementsService
<1>1. SerialInv /\ SerialInv' /\ [Next]_vars => [Service!Next]_(Service!vars)
  BY StepServed
<1>2. Spec => []SerialInv
  BY SerialInvariant
<1> QED BY <1>1, <1>2, InitServed, PTL
        DEF Spec, ImplementsService, Service!Spec

LEMMA Prefix ==
    ASSUME NEW t \in Content, NEW s \in Content
    PROVE  Len(t) <= Len(t \o s) /\ t = SubSeq(t \o s, 1, Len(t))
<1> DEFINE c == t \o s
           p == SubSeq(c, 1, Len(t))
<1>1. /\ t \in Seq(Chunk) /\ c \in Seq(Chunk) /\ Len(t) \in Nat
      /\ Len(c) \in Nat /\ Len(t) <= Len(c)
      /\ \A i \in 1 .. Len(t) : c[i] = t[i]
  BY DEF Content
<1> HIDE DEF c
<1>2. p \in Seq(Chunk) /\ Len(p) = Len(t) /\ \A i \in 1 .. Len(t) : p[i] = c[i]
  BY <1>1
<1> HIDE DEF p
<1>3. t = p
  BY <1>1, <1>2, SeqEqual
<1> QED BY <1>1, <1>3 DEF c, p

(* What the service says of the buffers of the program, buffer by buffer.  *)
Kept == \A i \in 1 .. OuterLevel :
            /\ i \in DOMAIN ob'.handlers
            /\ LET before == ob.handlers[i]
                   after == ob'.handlers[i]
               IN  /\ Len(before) <= Len(after)
                   /\ before = SubSeq(after, 1, Len(before))

(* The buffers of the program as the service sees them.                    *)
LEMMA SeenHandlers ==
    HighEnough => /\ SHandlers \in Seq(Content) /\ OuterLevel <= Len(SHandlers)
                  /\ \A i \in 1 .. OuterLevel : /\ i \in DOMAIN ob.handlers
                                               /\ SHandlers[i] = ob.handlers[i]
<1> SUFFICES ASSUME HighEnough
             PROVE  /\ SHandlers \in Seq(Content) /\ OuterLevel <= Len(SHandlers)
                    /\ \A i \in 1 .. OuterLevel : /\ i \in DOMAIN ob.handlers
                                                 /\ SHandlers[i] = ob.handlers[i]
  OBVIOUS
<1>1. /\ Outer(ob) \in Seq(Content) /\ Len(Outer(ob)) = Ground
      /\ \A i \in 1 .. Ground : Outer(ob)[i] = ob.handlers[i]
  BY OuterPrefix DEF HighEnough
<1>2. \A i \in 1 .. Ground : i \in DOMAIN ob.handlers
  BY GroundNat DEF HighEnough, BufferState, ObGetLevel
<1> QED BY <1>1, <1>2, GroundNat DEF HighEnough

LEMMA SeenHandlersNext ==
    HighEnough' => (/\ SHandlers \in Seq(Content) /\ OuterLevel <= Len(SHandlers)
                    /\ \A i \in 1 .. OuterLevel : /\ i \in DOMAIN ob.handlers
                                                 /\ SHandlers[i] = ob.handlers[i])'
BY SeenHandlers, PTL

LEMMA StepKeeps ==
    ASSUME SerialInv, SerialInv', [Service!Next]_(Service!vars)
    PROVE  Kept
<1> DEFINE u == SHandlers
           v == SHandlers'
           n == OuterLevel
<1>1. /\ n \in Nat /\ u \in Seq(Content) /\ v \in Seq(Content) /\ n <= Len(u)
      /\ \A i \in 1 .. n : u[i] = ob.handlers[i]
      /\ \A i \in 1 .. n : v[i] = ob'.handlers[i] /\ i \in DOMAIN ob'.handlers
  BY SerialLevel, SerialLevelNext, SeenHandlers, SeenHandlersNext, GroundNat
<1>2. ASSUME NEW r \in Renders PROVE SText[r] \in Content
  <2>1. frames[r] \in Seq(Frame)
    BY DEF SerialInv, TypeInv, TypeOK, Tasks
  <2>2. frames[r] # <<>> => frames[r][1] \in Frame
    BY <2>1, EmptySeq
  <2> QED BY <2>2 DEF SText, Frame, Content
<1>3. \/ SHandlers' = SHandlers
      \/ SHandlers' = Append(SHandlers, <<>>)
      \/ \E r \in Renders :
             /\ SHandlers # <<>>
             /\ SHandlers' = [SHandlers EXCEPT
                     ![Len(SHandlers)] = SHandlers[Len(SHandlers)] \o SText[r]]
  BY DEF Service!Next, Service!vars, Service!Start, Service!Refuse,
              Service!Write, Service!Flush, Service!Fulfil, Service!Reject,
              SHandlers, SText, Outer
<1>4. \/ v = u
      \/ v = Append(u, <<>>)
      \/ \E r \in Renders : v = [u EXCEPT ![Len(u)] = u[Len(u)] \o SText[r]]
  BY <1>3
<1> HIDE DEF u, v, n
<1>5. \A i \in 1 .. n : \E s \in Content : v[i] = u[i] \o s
  <2>1. <<>> \in Content /\ \A i \in 1 .. n : u[i] = u[i] \o <<>>
    <3>1. \A i \in 1 .. n : u[i] \in Seq(Chunk)
      BY <1>1 DEF Content
    <3> QED BY <3>1, ConcatEmptySeq DEF Content
  <2>2. CASE v = u
    BY <2>1, <2>2
  <2>3. CASE v = Append(u, <<>>)
    <3>1. \A i \in 1 .. n : v[i] = u[i]
      BY <1>1, <2>3
    <3> QED BY <2>1, <3>1
  <2>4. ASSUME NEW r \in Renders, v = [u EXCEPT ![Len(u)] = u[Len(u)] \o SText[r]]
        PROVE  \A i \in 1 .. n : \E s \in Content : v[i] = u[i] \o s
    <3>1. \A i \in 1 .. n : v[i] = IF i = Len(u) THEN u[i] \o SText[r] ELSE u[i]
      BY <1>1, <2>4
    <3> QED BY <1>2, <2>1, <3>1
  <2> QED BY <1>4, <2>2, <2>3, <2>4
<1>6. ASSUME NEW i \in 1 .. n
      PROVE  Len(u[i]) <= Len(v[i]) /\ u[i] = SubSeq(v[i], 1, Len(u[i]))
  <2>1. PICK s \in Content : v[i] = u[i] \o s
    BY <1>5
  <2>2. u[i] \in Seq(Chunk) /\ s \in Seq(Chunk)
    BY <1>1 DEF Content
  <2> QED BY <2>1, <2>2, Prefix
<1> QED BY <1>1, <1>6 DEF n, Kept

(* A render adds to the buffers the program has opened, and that is all:   *)
(* the promise of the service is one about them too.                       *)
THEOREM SerialOuterBuffersKept ==
    ASSUME Serial, ParentCalls = {}
    PROVE  Spec => OuterBuffersKept
<1>1. SerialInv /\ SerialInv' /\ [Next]_vars => [Kept]_vars
  BY StepServed, StepKeeps
<1>2. Spec => []SerialInv
  BY SerialInvariant
<1> QED BY <1>1, <1>2, PTL DEF Spec, OuterBuffersKept, Kept

=============================================================================
