------------------------- MODULE Environment_proofs -------------------------
(***************************************************************************)
(* Proofs about Environment: whatever the templates of any number of       *)
(* renders include, sandbox and throw, and in whatever order the renders   *)
(* take turns, the sandboxed flag is set only as long as somebody is there *)
(* who will restore it; a render alone finds the flag and the source map   *)
(* node where its templates have put them; and whatever is registered and  *)
(* fails, the extension set answers for all of its extensions or not at    *)
(* all. Last, about what that set brings: what a call of a filter, a       *)
(* function or a test gives is bound to the parameters it was meant for    *)
(* (Arguments), the slice filter takes the window it was asked for         *)
(* (Slices), batch, merge, reverse and sort keep all items                 *)
(* (Arrangements), and a call of a dynamic one passes what its own name    *)
(* has matched (DynamicCalls).                                             *)
(***************************************************************************)
EXTENDS Environment, Arguments, Arrangements, DynamicCalls, SequenceTheorems, FiniteSetTheorems, FunctionTheorems,
        WellFoundedInduction, TLAPS

Stages == {"resolve", "display", "run", "await", "continue", "return", "failed"}

(* A template has no sandbox tag open before its code runs, nor after it.  *)
FrameState ==
    {f \in [stage : Stages, sandboxed : BOOLEAN, already : BOOLEAN,
            ignoreMissing : BOOLEAN, print : BOOLEAN,
            tag : {<< >>, <<TRUE>>, <<FALSE>>}] :
        f.stage \in {"resolve", "display", "return"} => f.tag = << >>}

(* The template that restores the flag: it was included by the include     *)
(* that has set it, or has open the sandbox tag that has.                  *)
Owner(f) == (f.sandboxed /\ ~f.already) \/ f.tag = <<FALSE>>
HasOwner(fs) == \E i \in 1 .. Len(fs) : Owner(fs[i])

FlagInv ==
    /\ sandboxed \in BOOLEAN
    /\ past.leaked \in BOOLEAN
    /\ frames \in [Renders -> Seq(FrameState)]
    /\ outcome \in [Renders -> {"waiting", "running", "fulfilled", "rejected"}]
    /\ \A r \in Renders : frames[r] # << >> => outcome[r] = "running"
    /\ sandboxed /\ ~past.leaked => \E r \in Renders : HasOwner(frames[r])

-----------------------------------------------------------------------------
(* The frames of a render.                                                 *)

LEMMA FrontAndLast ==
    ASSUME NEW fs \in Seq(FrameState), fs # << >>
    PROVE  /\ Front(fs) \in Seq(FrameState) /\ Last(fs) \in FrameState
           /\ HasOwner(fs) <=> HasOwner(Front(fs)) \/ Owner(Last(fs))
           /\ Len(fs) # 1 => Front(fs) # << >>
           /\ Len(fs) = 1 => ~ HasOwner(Front(fs))
<1> DEFINE n == Len(fs)
           gs == SubSeq(fs, 1, n - 1)
<1>1. n \in Nat \ {0} /\ \A i \in 1 .. n : fs[i] \in FrameState
  BY EmptySeq
<1>2. gs \in Seq(FrameState) /\ Len(gs) = n - 1
      /\ \A i \in 1 .. n - 1 : gs[i] = fs[i]
  <2> HIDE DEF n
  <2>1. \A i \in 1 .. n - 1 : fs[i] \in FrameState
    BY <1>1
  <2>2. n - 1 \in Int /\ (1 <= n - 1 \/ n - 1 = 0)
    BY <1>1
  <2> QED BY <1>1, <2>1, <2>2, SubSeqProperties
<1>3. Front(fs) = gs /\ Last(fs) = fs[n]
  BY DEF Front, Last
<1> HIDE DEF gs
<1>4. HasOwner(fs) <=> HasOwner(gs) \/ Owner(fs[n])
  <2>1. ASSUME NEW i \in 1 .. n, Owner(fs[i])
        PROVE  HasOwner(gs) \/ Owner(fs[n])
    <3>1. i = n \/ i \in 1 .. Len(gs)
      BY <1>1, <1>2
    <3> QED BY <1>2, <2>1, <3>1 DEF HasOwner
  <2>2. ASSUME NEW i \in 1 .. Len(gs), Owner(gs[i]) PROVE HasOwner(fs)
    <3>1. i \in 1 .. n /\ gs[i] = fs[i]
      BY <1>1, <1>2
    <3> QED BY <2>2, <3>1 DEF HasOwner
  <2>3. n \in 1 .. n
    BY <1>1
  <2> QED BY <2>1, <2>2, <2>3 DEF HasOwner
<1>5. (n # 1 => gs # << >>) /\ (n = 1 => ~ HasOwner(gs))
  BY <1>1, <1>2 DEF HasOwner
<1> HIDE DEF n
<1> QED BY <1>1, <1>2, <1>3, <1>4, <1>5 DEF n

LEMMA AppendedOwner ==
    ASSUME NEW fs \in Seq(FrameState), NEW f \in FrameState
    PROVE  /\ Append(fs, f) \in Seq(FrameState) /\ Append(fs, f) # << >>
           /\ HasOwner(Append(fs, f)) <=> HasOwner(fs) \/ Owner(f)
<1> DEFINE n == Len(fs)
           gs == Append(fs, f)
<1>1. /\ n \in Nat /\ gs \in Seq(FrameState) /\ Len(gs) = n + 1
      /\ \A i \in 1 .. n : gs[i] = fs[i]
      /\ gs[n + 1] = f
  OBVIOUS
<1> HIDE DEF gs
<1>2. ASSUME NEW i \in 1 .. Len(gs), Owner(gs[i])
      PROVE  HasOwner(fs) \/ Owner(f)
  <2>1. i = n + 1 \/ i \in 1 .. n
    BY <1>1
  <2> QED BY <1>1, <1>2, <2>1 DEF HasOwner
<1>3. ASSUME NEW i \in 1 .. n, Owner(fs[i]) PROVE HasOwner(gs)
  <2>1. i \in 1 .. Len(gs) /\ gs[i] = fs[i]
    BY <1>1
  <2> QED BY <1>3, <2>1 DEF HasOwner
<1>4. n + 1 \in 1 .. Len(gs)
  BY <1>1
<1>5. gs # << >>
  BY <1>1
<1> QED BY <1>1, <1>2, <1>3, <1>4, <1>5 DEF HasOwner, gs

(* A step of one render, which leaves an owner, or the flag unset, or has  *)
(* let it leak.                                                            *)
LEMMA OneRender ==
    ASSUME FlagInv, NEW r \in Renders, NEW gs \in Seq(FrameState),
           frames' = [frames EXCEPT ![r] = gs],
           sandboxed' \in BOOLEAN, past'.leaked \in BOOLEAN,
           outcome' \in [Renders -> {"waiting", "running", "fulfilled", "rejected"}],
           \A u \in Renders : u # r => outcome'[u] = outcome[u],
           gs # << >> => outcome'[r] = "running",
           sandboxed' /\ ~past'.leaked =>
               \/ HasOwner(gs)
               \/ sandboxed /\ ~past.leaked /\ ~ HasOwner(frames[r])
    PROVE  FlagInv'
<1>1. frames' \in [Renders -> Seq(FrameState)]
      /\ \A u \in Renders : frames'[u] = IF u = r THEN gs ELSE frames[u]
  BY DEF FlagInv
<1>2. ASSUME sandboxed', ~past'.leaked PROVE \E u \in Renders : HasOwner(frames'[u])
  <2>1. CASE HasOwner(gs)
    BY <1>1, <2>1
  <2>2. CASE sandboxed /\ ~past.leaked /\ ~ HasOwner(frames[r])
    <3>1. PICK u \in Renders : HasOwner(frames[u])
      BY <2>2 DEF FlagInv
    <3> QED BY <1>1, <2>2, <3>1
  <2> QED BY <1>2, <2>1, <2>2
<1>3. \A u \in Renders : frames'[u] # << >> => outcome'[u] = "running"
  BY <1>1 DEF FlagInv
<1> QED BY <1>1, <1>2, <1>3 DEF FlagInv, HasOwner

-----------------------------------------------------------------------------
(* The steps.                                                              *)

(* A render with frames fs goes on, in another stage of its last template. *)
LEMMA GoesOn ==
    ASSUME FlagInv, NEW r \in Renders, frames[r] # << >>,
           NEW f \in FrameState, frames' = WithTop(r, f),
           Owner(Top(r)) => Owner(f) \/ ~sandboxed' \/ past'.leaked,
           sandboxed' \in BOOLEAN, past'.leaked \in BOOLEAN,
           sandboxed' => sandboxed \/ Owner(f) \/ past'.leaked,
           past.leaked => past'.leaked,
           UNCHANGED outcome
    PROVE  FlagInv'
<1> DEFINE fs == frames[r]
           gs == Append(Front(fs), f)
<1>1. fs \in Seq(FrameState) /\ fs # << >> /\ outcome[r] = "running"
  BY DEF FlagInv
<1>2. Front(fs) \in Seq(FrameState) /\ (HasOwner(fs) <=> HasOwner(Front(fs)) \/ Owner(Top(r)))
  BY <1>1, FrontAndLast DEF Top
<1>3. gs \in Seq(FrameState) /\ (HasOwner(gs) <=> HasOwner(Front(fs)) \/ Owner(f))
  BY <1>2, AppendedOwner
<1>4. frames' = [frames EXCEPT ![r] = gs]
  BY DEF WithTop
<1>5. outcome' \in [Renders -> {"waiting", "running", "fulfilled", "rejected"}]
  BY DEF FlagInv
<1>6. sandboxed' /\ ~past'.leaked =>
          HasOwner(gs) \/ (sandboxed /\ ~past.leaked /\ ~ HasOwner(fs))
  BY <1>2, <1>3, Zenon
<1> HIDE DEF gs
<1> QED BY <1>1, <1>3, <1>4, <1>5, <1>6, OneRender

(* A template is done: its include restores the flag, and the template     *)
(* below goes on, or the render is over.                                   *)
LEMMA Leaves ==
    ASSUME FlagInv, NEW r \in Renders, frames[r] # << >>,
           NEW stage \in {"continue", "failed"},
           restoreSandbox(Top(r)),
           past'.leaked \in BOOLEAN, past.leaked => past'.leaked,
           Top(r).tag = <<FALSE>> => past'.leaked,
           NEW done \in {"fulfilled", "rejected"},
           IF Len(frames[r]) = 1
           THEN /\ frames' = [frames EXCEPT ![r] = << >>]
                /\ outcome' = [outcome EXCEPT ![r] = done]
           ELSE /\ frames' = [frames EXCEPT ![r] =
                        Append(Front(Front(@)), [Last(Front(@)) EXCEPT !.stage = stage])]
                /\ UNCHANGED outcome
    PROVE  FlagInv'
<1> DEFINE fs == frames[r]
           t == Top(r)
           b == Front(fs)
<1>1. /\ fs \in Seq(FrameState) /\ fs # << >> /\ outcome[r] = "running"
      /\ sandboxed \in BOOLEAN /\ past.leaked \in BOOLEAN
  BY DEF FlagInv
<1>2. /\ b \in Seq(FrameState) /\ t \in FrameState
      /\ HasOwner(fs) <=> HasOwner(b) \/ Owner(t)
      /\ Len(fs) # 1 => b # << >>
      /\ Len(fs) = 1 => ~ HasOwner(b)
  BY <1>1, FrontAndLast DEF Top
<1>3. sandboxed' = (sandboxed /\ ~(t.sandboxed /\ ~t.already))
  BY DEF restoreSandbox
<1>4. sandboxed' \in BOOLEAN
  BY <1>3
<1>5. sandboxed' /\ ~past'.leaked => sandboxed /\ ~past.leaked /\ ~ Owner(t)
  BY <1>1, <1>3, Zenon DEF Owner
<1> HIDE DEF t
<1>6. CASE Len(fs) = 1
  <2>1. frames' = [frames EXCEPT ![r] = << >>] /\ outcome' = [outcome EXCEPT ![r] = done]
    BY <1>6
  <2>2. /\ outcome' \in [Renders -> {"waiting", "running", "fulfilled", "rejected"}]
        /\ \A u \in Renders : u # r => outcome'[u] = outcome[u]
    BY <2>1 DEF FlagInv
  <2>3. << >> \in Seq(FrameState)
    OBVIOUS
  <2>4. sandboxed' /\ ~past'.leaked =>
            sandboxed /\ ~past.leaked /\ ~ HasOwner(fs)
    BY <1>2, <1>5, <1>6, Zenon
  <2> HIDE DEF fs, b
  <2>5. sandboxed' /\ ~past'.leaked =>
            \/ HasOwner(<< >>)
            \/ sandboxed /\ ~past.leaked /\ ~ HasOwner(frames[r])
    BY <2>4, Zenon DEF fs
  <2> QED BY <1>4, <2>1, <2>2, <2>3, <2>5, OneRender
<1>7. CASE Len(fs) # 1
  <2> DEFINE g == [Last(b) EXCEPT !.stage = stage]
             gs == Append(Front(b), g)
  <2>1. frames' = [frames EXCEPT ![r] = gs] /\ outcome' = outcome
    BY <1>7
  <2>2. /\ Front(b) \in Seq(FrameState) /\ Last(b) \in FrameState
        /\ HasOwner(b) <=> HasOwner(Front(b)) \/ Owner(Last(b))
    BY <1>2, <1>7, FrontAndLast
  <2>3. g \in FrameState /\ g.sandboxed = Last(b).sandboxed
        /\ g.already = Last(b).already /\ g.tag = Last(b).tag
    BY <2>2 DEF FrameState, Stages
  <2>4. Owner(g) <=> Owner(Last(b))
    BY <2>3 DEF Owner
  <2>5. gs \in Seq(FrameState) /\ (HasOwner(gs) <=> HasOwner(Front(b)) \/ Owner(g))
    BY <2>2, <2>3, AppendedOwner
  <2>6. sandboxed' /\ ~past'.leaked =>
            HasOwner(gs) \/ (sandboxed /\ ~past.leaked /\ ~ HasOwner(fs))
    BY <1>2, <1>5, <2>2, <2>4, <2>5, Zenon
  <2>7. outcome' \in [Renders -> {"waiting", "running", "fulfilled", "rejected"}]
    BY <2>1 DEF FlagInv
  <2> HIDE DEF gs
  <2> QED BY <1>1, <1>4, <2>1, <2>5, <2>6, <2>7, OneRender
<1> QED BY <1>6, <1>7

LEMMA TopOfRender ==
    ASSUME FlagInv, NEW r \in Renders, frames[r] # << >>
    PROVE  /\ Top(r) \in FrameState /\ Top(r).stage \in Stages
           /\ Top(r).sandboxed \in BOOLEAN /\ Top(r).already \in BOOLEAN
           /\ Top(r).tag \in {<< >>, <<TRUE>>, <<FALSE>>}
           /\ Front(frames[r]) \in Seq(FrameState)
           /\ sandboxed \in BOOLEAN /\ past.leaked \in BOOLEAN
<1>1. frames[r] \in Seq(FrameState) /\ sandboxed \in BOOLEAN /\ past.leaked \in BOOLEAN
  BY DEF FlagInv
<1>2. Top(r) \in FrameState /\ Front(frames[r]) \in Seq(FrameState)
  BY <1>1, FrontAndLast DEF Top
<1> QED BY <1>1, <1>2 DEF FrameState

(* Only the stage of the last template changes, and perhaps the flag.      *)
LEMMA NextStage ==
    ASSUME FlagInv, NEW r \in Renders, frames[r] # << >>,
           NEW stage \in Stages, To(r, stage),
           stage \in {"resolve", "display", "return"} => Top(r).tag = << >>,
           sandboxed' \in BOOLEAN, past'.leaked \in BOOLEAN,
           sandboxed' => sandboxed \/ past'.leaked,
           past.leaked => past'.leaked,
           UNCHANGED outcome
    PROVE  FlagInv'
<1> DEFINE t == Top(r)
           f == [t EXCEPT !.stage = stage]
<1>1. t \in FrameState
  BY TopOfRender
<1>2. frames' = WithTop(r, f)
  BY DEF To
<1> HIDE DEF t
<1>3. f \in FrameState /\ f.sandboxed = t.sandboxed /\ f.already = t.already
      /\ f.tag = t.tag
  BY <1>1 DEF FrameState, Stages, t
<1> HIDE DEF f
<1>4. Owner(f) <=> Owner(t)
  BY <1>3 DEF Owner
<1> QED BY <1>2, <1>3, <1>4, GoesOn DEF t

(* An include: the template waits for the one that it includes.            *)
LEMMA Includes ==
    ASSUME FlagInv, NEW r \in Renders, frames[r] # << >>,
           NEW isSandboxed \in BOOLEAN, NEW ignoreMissing \in BOOLEAN,
           NEW print \in BOOLEAN,
           Waiting(r, Frame(isSandboxed, ignoreMissing), print),
           sandboxed' = (sandboxed \/ isSandboxed),
           UNCHANGED <<outcome, past>>
    PROVE  FlagInv'
<1> DEFINE fs == frames[r]
           t == Top(r)
           w == [t EXCEPT !.stage = "await", !.print = print]
           f == Frame(isSandboxed, ignoreMissing)
           gs == Append(Front(fs), w)
           hs == Append(gs, f)
<1>1. /\ fs \in Seq(FrameState) /\ outcome[r] = "running" /\ t \in FrameState
      /\ sandboxed \in BOOLEAN /\ past.leaked \in BOOLEAN
      /\ Front(fs) \in Seq(FrameState)
      /\ HasOwner(fs) <=> HasOwner(Front(fs)) \/ Owner(t)
  BY TopOfRender, FrontAndLast DEF FlagInv, Top
<1>2. frames' = [frames EXCEPT ![r] = hs]
  BY DEF Waiting
<1> HIDE DEF t
<1>3. w \in FrameState /\ w.sandboxed = t.sandboxed /\ w.already = t.already
      /\ w.tag = t.tag
  BY <1>1 DEF FrameState, Stages
<1>4. f \in FrameState /\ f.sandboxed = isSandboxed /\ f.already = sandboxed
  BY <1>1 DEF Frame, FrameState, Stages
<1> HIDE DEF w, f
<1>5. Owner(w) <=> Owner(t)
  BY <1>3 DEF Owner
<1>6. gs \in Seq(FrameState) /\ (HasOwner(gs) <=> HasOwner(Front(fs)) \/ Owner(w))
  BY <1>1, <1>3, AppendedOwner
<1> HIDE DEF gs
<1>7. hs \in Seq(FrameState) /\ (HasOwner(hs) <=> HasOwner(gs) \/ Owner(f))
  BY <1>4, <1>6, AppendedOwner
<1>8. sandboxed' => sandboxed \/ Owner(f)
  BY <1>4, Zenon DEF Owner
<1>9. past'.leaked = past.leaked
  OBVIOUS
<1>10. sandboxed' /\ ~past'.leaked =>
           HasOwner(hs) \/ (sandboxed /\ ~past.leaked /\ ~ HasOwner(fs))
  BY <1>1, <1>5, <1>6, <1>7, <1>8, <1>9, Zenon
<1>11. sandboxed' \in BOOLEAN /\ past'.leaked \in BOOLEAN
  BY <1>1, <1>9
<1>12. outcome' \in [Renders -> {"waiting", "running", "fulfilled", "rejected"}]
  BY DEF FlagInv
<1> HIDE DEF hs
<1> QED BY <1>1, <1>2, <1>7, <1>10, <1>11, <1>12, OneRender

LEMMA InitFlag == Init => FlagInv
<1>1. \A r \in Renders : << >> \in Seq(FrameState)
  OBVIOUS
<1> SUFFICES ASSUME Init PROVE FlagInv
  OBVIOUS
<1>2. /\ sandboxed = FALSE /\ past.leaked = FALSE
      /\ frames = [r \in Renders |-> << >>]
      /\ outcome = [r \in Renders |-> "waiting"]
  BY DEF Init
<1>3. frames \in [Renders -> Seq(FrameState)]
  BY <1>1, <1>2
<1> QED BY <1>2, <1>3 DEF FlagInv

LEMMA StepFlag == FlagInv /\ [Next]_vars => FlagInv'
<1> SUFFICES ASSUME FlagInv, [Next]_vars PROVE FlagInv'
  OBVIOUS
<1>0. sandboxed \in BOOLEAN /\ past.leaked \in BOOLEAN
  BY DEF FlagInv
<1>1. CASE UNCHANGED runtimeVars
  BY <1>1 DEF runtimeVars, FlagInv, HasOwner
<1>2. ASSUME NEW r \in Renders, Render(r) PROVE FlagInv'
  <2> DEFINE f == Frame(FALSE, FALSE)
             gs == <<f>>
  <2>1. f \in FrameState
    BY <1>0 DEF Frame, FrameState, Stages
  <2> HIDE DEF f
  <2>2. gs \in Seq(FrameState) /\ frames' = [frames EXCEPT ![r] = gs]
    <3>1. gs \in Seq(FrameState)
      BY <2>1
    <3> QED BY <1>2, <3>1 DEF Render, f
  <2>3. outcome' = [outcome EXCEPT ![r] = "running"] /\ sandboxed' = sandboxed
        /\ outcome[r] = "waiting" /\ past'.leaked = past.leaked
    BY <1>2 DEF Render
  <2>4. ~ HasOwner(frames[r])
    <3>1. frames[r] = << >>
      BY <2>3 DEF FlagInv
    <3> QED BY <3>1 DEF HasOwner
  <2>5. outcome' \in [Renders -> {"waiting", "running", "fulfilled", "rejected"}]
        /\ outcome'[r] = "running"
        /\ \A u \in Renders : u # r => outcome'[u] = outcome[u]
    BY <2>3 DEF FlagInv
  <2>6. sandboxed' \in BOOLEAN /\ past'.leaked \in BOOLEAN
    BY <1>0, <2>3
  <2>7. sandboxed' /\ ~past'.leaked =>
            sandboxed /\ ~past.leaked /\ ~ HasOwner(frames[r])
    BY <2>3, <2>4
  <2> HIDE DEF gs
  <2> QED BY <2>2, <2>5, <2>6, <2>7, OneRender
<1>3. ASSUME NEW r \in Renders,
             Resolve(r) \/ Display(r) \/ Throw(r) \/ EndDisplay(r)
      PROVE  FlagInv'
  <2>1. frames[r] # << >> /\ UNCHANGED <<sandboxed, outcome, past>>
    BY <1>3 DEF Resolve, Display, Throw, EndDisplay, IsAt, Running
  <2>2. Top(r) \in FrameState
    BY <2>1, TopOfRender
  <2>3. \E stage \in Stages :
           /\ To(r, stage)
           /\ stage \in {"resolve", "display", "return"} => Top(r).tag = << >>
    BY <1>3, <2>2 DEF Resolve, Display, Throw, EndDisplay, IsAt, FrameState, Stages
  <2> QED BY <1>0, <2>1, <2>3, NextStage
<1>4. ASSUME NEW r \in Renders, Missing(r) PROVE FlagInv'
  <2>1. /\ frames[r] # << >> /\ Top(r).stage = "resolve"
        /\ UNCHANGED <<outcome, past>>
    BY <1>4 DEF Missing, IsAt
  <2>2. Top(r).tag = << >>
    BY <2>1, TopOfRender DEF FrameState
  <2>3. /\ sandboxed' \in BOOLEAN /\ (sandboxed' => sandboxed)
        /\ past'.leaked = past.leaked
        /\ \E stage \in Stages : To(r, stage)
    <3>1. "return" \in Stages /\ "failed" \in Stages
      BY DEF Stages
    <3>2. \E stage \in Stages : To(r, stage)
      BY <1>4, <3>1 DEF Missing
    <3>3. sandboxed' \in BOOLEAN /\ (sandboxed' => sandboxed)
      BY <1>0, <1>4, Zenon DEF Missing, restoreSandbox
    <3> QED BY <2>1, <3>2, <3>3
  <2>4. PICK stage \in Stages : To(r, stage)
    BY <2>3
  <2>5. /\ past'.leaked \in BOOLEAN /\ sandboxed' \in BOOLEAN
        /\ past.leaked => past'.leaked
        /\ sandboxed' => sandboxed \/ past'.leaked
    <3>1. past'.leaked = past.leaked /\ sandboxed' \in BOOLEAN
      BY <2>3
    <3>2. sandboxed' => sandboxed
      BY <2>3
    <3> QED BY <1>0, <3>1, <3>2, Zenon
  <2>6. frames[r] # << >> /\ UNCHANGED outcome
    BY <2>1
  <2> QED BY <2>2, <2>4, <2>5, <2>6, NextStage
<1>5. ASSUME NEW r \in Renders, IncludeFunction(r) PROVE FlagInv'
  BY <1>5, Includes DEF IncludeFunction, Running, IsAt
<1>6. ASSUME NEW r \in Renders, IncludeNothing(r) PROVE FlagInv'
  <2>1. PICK isSandboxed \in BOOLEAN :
           /\ sandboxed' = (sandboxed \/ isSandboxed)
           /\ past' = [past EXCEPT !.leaked = @ \/ (isSandboxed /\ ~sandboxed)]
    BY <1>6 DEF IncludeNothing
  <2>2. frames[r] # << >> /\ To(r, "failed") /\ UNCHANGED outcome /\ "failed" \in Stages
    BY <1>6 DEF IncludeNothing, Running, IsAt, Stages
  <2>3. sandboxed' \in BOOLEAN /\ past'.leaked \in BOOLEAN
        /\ (past.leaked => past'.leaked)
        /\ (sandboxed' => sandboxed \/ past'.leaked)
    BY <1>0, <2>1
  <2> QED BY <2>2, <2>3, NextStage
<1>7. ASSUME NEW r \in Renders, IncludeTag(r) PROVE FlagInv'
  <2>1. frames[r] # << >> /\ UNCHANGED <<sandboxed, outcome, past>>
    BY <1>7 DEF IncludeTag, Running, IsAt
  <2>2. PICK ignoreMissing \in BOOLEAN : Waiting(r, Frame(FALSE, ignoreMissing), FALSE)
    BY <1>7 DEF IncludeTag
  <2>3. sandboxed' = (sandboxed \/ FALSE)
    BY <1>0, <2>1
  <2> QED BY <2>1, <2>2, <2>3, Includes
<1>8. ASSUME NEW r \in Renders, EnterSandbox(r) PROVE FlagInv'
  <2> DEFINE t == Top(r)
             f == [t EXCEPT !.tag = <<sandboxed>>]
  <2>1. /\ frames[r] # << >> /\ t.stage = "run" /\ t.tag = << >>
        /\ frames' = WithTop(r, f) /\ sandboxed' = TRUE
        /\ UNCHANGED <<outcome, past>>
    BY <1>8 DEF EnterSandbox, Running, IsAt
  <2>2. t \in FrameState
    BY <2>1, TopOfRender
  <2> HIDE DEF t
  <2>3. f \in FrameState /\ f.sandboxed = t.sandboxed /\ f.already = t.already
        /\ f.tag = <<sandboxed>>
    <3>1. <<sandboxed>> \in {<< >>, <<TRUE>>, <<FALSE>>}
      BY <1>0
    <3>2. \A x \in {<< >>, <<TRUE>>, <<FALSE>>} :
              LET g == [t EXCEPT !.tag = x]
              IN  /\ g \in FrameState /\ g.sandboxed = t.sandboxed
                  /\ g.already = t.already /\ g.tag = x
      BY <2>1, <2>2 DEF FrameState
    <3> QED BY <3>1, <3>2
  <2>4. Owner(t) => Owner(f)
    <3>1. t.tag # <<FALSE>>
      BY <2>1
    <3> HIDE DEF f
    <3> QED BY <2>3, <3>1, Zenon DEF Owner
  <2>5. sandboxed \/ Owner(f)
    <3>1. CASE sandboxed = FALSE
      BY <2>3, <3>1 DEF Owner
    <3>2. CASE sandboxed = TRUE
      BY <3>2
    <3> QED BY <1>0, <3>1, <3>2
  <2> HIDE DEF f
  <2> QED BY <1>0, <2>1, <2>3, <2>4, <2>5, GoesOn DEF t
<1>9. ASSUME NEW r \in Renders, LeaveSandbox(r) PROVE FlagInv'
  <2> DEFINE t == Top(r)
             f == [t EXCEPT !.tag = << >>, !.stage = "continue"]
  <2>1. /\ frames[r] # << >> /\ t.tag # << >>
        /\ frames' = WithTop(r, f) /\ sandboxed' = (sandboxed /\ t.tag[1])
        /\ UNCHANGED <<outcome, past>>
    BY <1>9 DEF LeaveSandbox, IsAt
  <2>2. t \in FrameState
    BY <2>1, TopOfRender
  <2> HIDE DEF t
  <2>3. f \in FrameState /\ f.sandboxed = t.sandboxed /\ f.already = t.already
    BY <2>2 DEF FrameState, Stages
  <2>4. /\ t.tag = <<TRUE>> \/ t.tag = <<FALSE>>
        /\ t.tag = <<FALSE>> => ~ t.tag[1]
    <3>1. t.tag = <<TRUE>> \/ t.tag = <<FALSE>>
      BY <2>1, <2>2 DEF FrameState
    <3>2. t.tag = <<FALSE>> => t.tag[1] = FALSE
      OBVIOUS
    <3> QED BY <3>1, <3>2
  <2>5. /\ sandboxed' \in BOOLEAN /\ (sandboxed' => sandboxed)
        /\ t.tag = <<FALSE>> => ~sandboxed'
    BY <1>0, <2>1, <2>4
  <2>6. Owner(t) => Owner(f) \/ ~sandboxed'
    BY <2>3, <2>5 DEF Owner
  <2> HIDE DEF f
  <2> QED BY <1>0, <2>1, <2>3, <2>5, <2>6, GoesOn DEF t
<1>10. ASSUME NEW r \in Renders, Return(r) PROVE FlagInv'
  <2>1. /\ frames[r] # << >> /\ Top(r).stage = "return" /\ past' = past
        /\ restoreSandbox(Top(r))
    BY <1>10 DEF Return, IsAt
  <2>2. Top(r).tag = << >>
    BY <2>1, TopOfRender DEF FrameState
  <2>3. past'.leaked \in BOOLEAN /\ (past.leaked => past'.leaked)
    BY <1>0, <2>1
  <2>4. Top(r).tag # <<FALSE>>
    BY <2>2
  <2>5. IF Len(frames[r]) = 1
        THEN /\ frames' = [frames EXCEPT ![r] = << >>]
             /\ outcome' = [outcome EXCEPT ![r] = "fulfilled"]
        ELSE /\ frames' = [frames EXCEPT ![r] =
                     Append(Front(Front(@)), [Last(Front(@)) EXCEPT !.stage = "continue"])]
             /\ UNCHANGED outcome
    BY <1>10 DEF Return
  <2> QED BY <2>1, <2>3, <2>4, <2>5, Leaves
<1>11. ASSUME NEW r \in Renders, Unwind(r) PROVE FlagInv'
  <2>1. /\ frames[r] # << >> /\ restoreSandbox(Top(r))
        /\ past'.leaked = (past.leaked \/ Top(r).tag = <<FALSE>>)
    BY <1>11 DEF Unwind, IsAt, FlagInv
  <2> QED BY <1>0, <1>11, <2>1, Leaves DEF Unwind
<1>12. ASSUME NEW r \in Renders, Continue(r) PROVE FlagInv'
  <2> DEFINE t == Top(r)
             f == [t EXCEPT !.stage = "run", !.print = FALSE]
  <2>1. /\ frames[r] # << >> /\ frames' = WithTop(r, f)
        /\ UNCHANGED <<sandboxed, outcome, past>>
    BY <1>12 DEF Continue, IsAt
  <2>2. t \in FrameState
    BY <2>1, TopOfRender
  <2> HIDE DEF t
  <2>3. f \in FrameState /\ f.sandboxed = t.sandboxed /\ f.already = t.already
        /\ f.tag = t.tag
    BY <2>2 DEF FrameState, Stages
  <2>4. Owner(t) => Owner(f)
    BY <2>3 DEF Owner
  <2> HIDE DEF f
  <2> QED BY <1>0, <2>1, <2>3, <2>4, GoesOn DEF t
<1>13. CASE Next
  <2>1. CASE Register
    BY <1>1, <2>1 DEF Register
  <2> QED BY <1>2, <1>3, <1>4, <1>5, <1>6, <1>7, <1>8, <1>9, <1>10, <1>11, <1>12,
             <1>13, <2>1 DEF Next
<1> QED BY <1>1, <1>13 DEF vars

(* The environment does not stay sandboxed once its renders are over, for  *)
(* any number of them, any nesting of includes and any interleaving; but   *)
(* for an error that has crossed a sandbox tag or an include of nothing    *)
(* (include.ts restoreSandbox).                                            *)
THEOREM FlagIsRestored == Spec => []FlagRestored
<1>1. FlagInv => FlagRestored
  <2> SUFFICES ASSUME FlagInv, Idle, sandboxed, ~past.leaked PROVE FALSE
    BY DEF FlagRestored, FlagInv
  <2>1. PICK r \in Renders : HasOwner(frames[r])
    BY DEF FlagInv
  <2>2. frames[r] # << >>
    BY <2>1 DEF HasOwner
  <2> QED BY <2>2 DEF FlagInv, Idle
<1>2. FlagInv /\ [Next]_vars => FlagInv'
  BY StepFlag
<1> QED BY <1>1, <1>2, InitFlag, PTL DEF Spec

-----------------------------------------------------------------------------
(* A render that no other one overlaps *)

Alone(r) == outcome[r] = "running" /\ ~past.of[r].overlapped

PastState ==
    [of : [Renders -> [path : Seq(Renders), overlapped : BOOLEAN]], leaked : BOOLEAN]

(* Two renders in progress overlap each other.                             *)
OverlapInv ==
    /\ past \in PastState /\ path \in Seq(Renders)
    /\ \A r \in Renders, s \in Renders :
          outcome[r] = "running" /\ outcome[s] = "running" /\ r # s => past.of[r].overlapped

(* A template that is included in the sandbox, or has a sandbox tag open.  *)
On(f) == f.sandboxed \/ f.tag # << >>
OnAny(fs) == \E i \in 1 .. Len(fs) : On(fs[i])

(* What an include, or a sandbox tag, has found when it read the flag.     *)
TagRight(f) ==
    /\ f.tag = <<TRUE>> => f.sandboxed \/ f.already
    /\ f.tag = <<FALSE>> => ~f.sandboxed /\ ~f.already

Nested(fs) ==
    \A i \in 1 .. Len(fs) :
        /\ TagRight(fs[i])
        /\ fs[i].already <=> \E j \in 1 .. i - 1 : On(fs[j])

(* The flag, of a render whose templates are fs: the include of a template *)
(* that returns may have restored it.                                      *)
Scoped(fs, flag) ==
    /\ fs # << >> /\ Nested(fs)
    /\ flag => OnAny(fs)
    /\ Last(fs).already => flag
    /\ OnAny(fs) /\ Last(fs).stage # "return" => flag

ScopeInv ==
    \A r \in Renders : Alone(r) /\ ~past.leaked => Scoped(frames[r], sandboxed)

(* The blocks that a template has open: its own, and that of a print that  *)
(* waits for an include.                                                   *)
Blocks(f) ==
    IF f.stage \in {"run", "await", "continue"} THEN IF f.print THEN 2 ELSE 1 ELSE 0

(* The templates fs have n blocks open.                                    *)
Open(fs, n) ==
    \E g \in [0 .. Len(fs) -> Nat] :
        /\ g[0] = 0 /\ g[Len(fs)] = n
        /\ \A i \in 1 .. Len(fs) : g[i] = g[i - 1] + Blocks(fs[i])

(* The path from before, and n blocks of r.                                *)
PathOf(r, before, n) ==
    [i \in 1 .. Len(before) + n |-> IF i <= Len(before) THEN before[i] ELSE r]

(* All templates but the last wait; no print waits in one that has not run *)
(* yet, nor in one that runs; and nothing ignores that the first is        *)
(* missing.                                                                *)
Stacked(fs) ==
    /\ \A i \in 1 .. Len(fs) - 1 : fs[i].stage = "await"
    /\ \A i \in 1 .. Len(fs) : fs[i].stage \in {"resolve", "display", "run"} => ~fs[i].print
    /\ ~fs[1].ignoreMissing

(* The root stays the current node when the render has ended its block.    *)
Traced(r, fs, p, before) ==
    /\ fs # << >> /\ Stacked(fs)
    /\ Last(fs).stage # "failed" =>
          \E n \in Nat :
              /\ Open(fs, n)
              /\ p = IF before = << >> /\ Last(fs).stage = "return" /\ Len(fs) = 1
                     THEN <<r>> ELSE PathOf(r, before, n)

TraceInv ==
    \A r \in Renders : Alone(r) => Traced(r, frames[r], path, past.of[r].path)

EnvInv == FlagInv /\ OverlapInv /\ ScopeInv /\ TraceInv

LEMMA FrontIs ==
    ASSUME NEW fs \in Seq(FrameState), fs # << >>
    PROVE  /\ Len(fs) \in Nat \ {0} /\ Len(Front(fs)) = Len(fs) - 1
           /\ Front(fs) \in Seq(FrameState) /\ Last(fs) \in FrameState /\ Last(fs) = fs[Len(fs)]
           /\ \A i \in 1 .. Len(fs) - 1 : Front(fs)[i] = fs[i]
           /\ \A i \in 1 .. Len(fs) : fs[i] \in FrameState
<1>. DEFINE n == Len(fs)
            gs == SubSeq(fs, 1, n - 1)
<1>1. n \in Nat \ {0} /\ \A i \in 1 .. n : fs[i] \in FrameState
  BY EmptySeq
<1>2. gs \in Seq(FrameState) /\ Len(gs) = n - 1 /\ \A i \in 1 .. n - 1 : gs[i] = fs[i]
  <2>. HIDE DEF n
  <2>1. \A i \in 1 .. n - 1 : fs[i] \in FrameState
    BY <1>1
  <2>2. n - 1 \in Int /\ (1 <= n - 1 \/ n - 1 = 0)
    BY <1>1
  <2> QED
    BY <1>1, <2>1, <2>2, SubSeqProperties
<1>3. Front(fs) = gs /\ Last(fs) = fs[n]
  BY DEF Front, Last
<1>4. n \in 1 .. n
  BY <1>1
<1>. HIDE DEF gs, n
<1> QED
  BY <1>1, <1>2, <1>3, <1>4 DEF n

LEMMA AppendIs ==
    ASSUME NEW fs \in Seq(FrameState), NEW f \in FrameState
    PROVE  /\ Append(fs, f) \in Seq(FrameState) /\ Append(fs, f) # << >>
           /\ Len(fs) \in Nat /\ Len(Append(fs, f)) = Len(fs) + 1
           /\ \A i \in 1 .. Len(fs) : Append(fs, f)[i] = fs[i]
           /\ Append(fs, f)[Len(fs) + 1] = f
           /\ Last(Append(fs, f)) = f
<1>. DEFINE gs == Append(fs, f)
<1>1. /\ gs \in Seq(FrameState) /\ Len(fs) \in Nat /\ Len(gs) = Len(fs) + 1
      /\ \A i \in 1 .. Len(fs) : gs[i] = fs[i]
      /\ gs[Len(fs) + 1] = f /\ gs # << >>
  OBVIOUS
<1>2. Last(gs) = gs[Len(gs)]
  BY DEF Last
<1>. HIDE DEF gs
<1>3. Last(gs) = f
  BY <1>1, <1>2
<1> QED
  BY <1>1, <1>3 DEF gs

-----------------------------------------------------------------------------
(* What is sandboxed *)

LEMMA OnFront ==
    ASSUME NEW fs \in Seq(FrameState), fs # << >>
    PROVE  OnAny(fs) <=> OnAny(Front(fs)) \/ On(Last(fs))
<1>. DEFINE n == Len(fs)
            gs == Front(fs)
<1>1. n \in Nat \ {0} /\ Len(gs) = n - 1 /\ Last(fs) = fs[n] /\ \A i \in 1 .. n - 1 : gs[i] = fs[i]
  BY FrontIs
<1>. HIDE DEF gs
<1>2. ASSUME NEW i \in 1 .. n, On(fs[i]) PROVE OnAny(gs) \/ On(fs[n])
  <2>1. i = n \/ i \in 1 .. Len(gs)
    BY <1>1
  <2> QED
    BY <1>1, <1>2, <2>1 DEF OnAny
<1>3. ASSUME NEW i \in 1 .. Len(gs), On(gs[i]) PROVE OnAny(fs)
  <2>1. i \in 1 .. n /\ gs[i] = fs[i]
    BY <1>1
  <2> QED
    BY <1>3, <2>1 DEF OnAny
<1>4. n \in 1 .. n
  BY <1>1
<1> QED
  BY <1>1, <1>2, <1>3, <1>4 DEF OnAny, gs

LEMMA OnAppend ==
    ASSUME NEW fs \in Seq(FrameState), NEW f \in FrameState
    PROVE  OnAny(Append(fs, f)) <=> OnAny(fs) \/ On(f)
<1>. DEFINE n == Len(fs)
            gs == Append(fs, f)
<1>1. /\ n \in Nat /\ Len(gs) = n + 1 /\ gs[n + 1] = f
      /\ \A i \in 1 .. n : gs[i] = fs[i]
  BY AppendIs
<1>. HIDE DEF gs
<1>2. ASSUME NEW i \in 1 .. Len(gs), On(gs[i]) PROVE OnAny(fs) \/ On(f)
  <2>1. i = n + 1 \/ i \in 1 .. n
    BY <1>1
  <2> QED
    BY <1>1, <1>2, <2>1 DEF OnAny
<1>3. ASSUME NEW i \in 1 .. n, On(fs[i]) PROVE OnAny(gs)
  <2>1. i \in 1 .. Len(gs) /\ gs[i] = fs[i]
    BY <1>1
  <2> QED
    BY <1>3, <2>1 DEF OnAny
<1>4. n + 1 \in 1 .. Len(gs)
  BY <1>1
<1> QED
  BY <1>1, <1>2, <1>3, <1>4 DEF OnAny, gs

LEMMA NestedFront ==
    ASSUME NEW fs \in Seq(FrameState), fs # << >>, Nested(fs)
    PROVE  /\ Nested(Front(fs)) /\ TagRight(Last(fs))
           /\ Last(fs).already <=> OnAny(Front(fs))
<1>. DEFINE n == Len(fs)
            gs == Front(fs)
<1>1. n \in Nat \ {0} /\ Len(gs) = n - 1 /\ Last(fs) = fs[n] /\ \A i \in 1 .. n - 1 : gs[i] = fs[i]
  BY FrontIs
<1>. HIDE DEF gs
<1>2. n \in 1 .. n
  BY <1>1
<1>3. TagRight(fs[n]) /\ (fs[n].already <=> \E j \in 1 .. n - 1 : On(fs[j]))
  BY <1>2 DEF Nested
<1>4. (\E j \in 1 .. n - 1 : On(fs[j])) <=> OnAny(gs)
  BY <1>1 DEF OnAny
<1>5. ASSUME NEW i \in 1 .. Len(gs)
      PROVE  TagRight(gs[i]) /\ (gs[i].already <=> \E j \in 1 .. i - 1 : On(gs[j]))
  <2>1. i \in 1 .. n /\ gs[i] = fs[i] /\ \A j \in 1 .. i - 1 : gs[j] = fs[j]
    BY <1>1
  <2>2. TagRight(fs[i]) /\ (fs[i].already <=> \E j \in 1 .. i - 1 : On(fs[j]))
    BY <2>1 DEF Nested
  <2>3. (\E j \in 1 .. i - 1 : On(fs[j])) <=> \E j \in 1 .. i - 1 : On(gs[j])
    BY <2>1
  <2> QED
    BY <2>1, <2>2, <2>3, Zenon
<1> QED
  BY <1>1, <1>3, <1>4, <1>5, Zenon DEF Nested, gs

LEMMA NestedAppend ==
    ASSUME NEW fs \in Seq(FrameState), NEW f \in FrameState, Nested(fs), TagRight(f),
           f.already <=> OnAny(fs)
    PROVE  Nested(Append(fs, f))
<1>. DEFINE n == Len(fs)
            gs == Append(fs, f)
<1>1. /\ n \in Nat /\ Len(gs) = n + 1 /\ gs[n + 1] = f
      /\ \A i \in 1 .. n : gs[i] = fs[i]
  BY AppendIs
<1>. HIDE DEF gs
<1>2. SUFFICES ASSUME NEW i \in 1 .. Len(gs)
               PROVE  TagRight(gs[i]) /\ (gs[i].already <=> \E j \in 1 .. i - 1 : On(gs[j]))
  BY Zenon DEF Nested, gs
<1>3. CASE i = n + 1
  <2>1. (\E j \in 1 .. i - 1 : On(gs[j])) <=> OnAny(fs)
    BY <1>1, <1>3 DEF OnAny
  <2>2. gs[i] = f
    BY <1>1, <1>3
  <2> QED
    BY <2>1, <2>2, Zenon
<1>4. CASE i # n + 1
  <2>1. i \in 1 .. n /\ gs[i] = fs[i] /\ \A j \in 1 .. i - 1 : gs[j] = fs[j]
    BY <1>1, <1>4
  <2>2. TagRight(fs[i]) /\ (fs[i].already <=> \E j \in 1 .. i - 1 : On(fs[j]))
    BY <2>1 DEF Nested
  <2>3. (\E j \in 1 .. i - 1 : On(fs[j])) <=> \E j \in 1 .. i - 1 : On(gs[j])
    BY <2>1
  <2> QED
    BY <2>1, <2>2, <2>3, Zenon
<1> QED
  BY <1>3, <1>4

-----------------------------------------------------------------------------
(* What blocks are open *)

LEMMA BlocksAre == \A f : Blocks(f) \in {0, 1, 2}
BY DEF Blocks

LEMMA OpenNone == Open(<< >>, 0)
<1>. DEFINE g == [i \in 0 .. 0 |-> 0]
<1>1. g \in [0 .. Len(<< >>) -> Nat] /\ g[0] = 0 /\ Len(<< >>) = 0
  OBVIOUS
<1>. HIDE DEF g
<1> QED
  BY <1>1 DEF Open

LEMMA OpenFront ==
    ASSUME NEW fs \in Seq(FrameState), fs # << >>, NEW n \in Nat, Open(fs, n)
    PROVE  \E m \in Nat : Open(Front(fs), m) /\ n = m + Blocks(Last(fs))
<1>. DEFINE l == Len(fs)
            gs == Front(fs)
<1>1. l \in Nat \ {0} /\ Len(gs) = l - 1 /\ Last(fs) = fs[l] /\ \A i \in 1 .. l - 1 : gs[i] = fs[i]
  BY FrontIs
<1>2. PICK g \in [0 .. l -> Nat] :
        /\ g[0] = 0 /\ g[l] = n
        /\ \A i \in 1 .. l : g[i] = g[i - 1] + Blocks(fs[i])
  BY DEF Open
<1>. HIDE DEF gs
<1>. DEFINE h == [i \in 0 .. l - 1 |-> g[i]]
            m == g[l - 1]
<1>3. h \in [0 .. Len(gs) -> Nat] /\ h[0] = 0 /\ h[Len(gs)] = m /\ m \in Nat
  BY SMTT(30), <1>1, <1>2
<1>4. \A i \in 1 .. Len(gs) : h[i] = h[i - 1] + Blocks(gs[i])
  <2>1. SUFFICES ASSUME NEW i \in 1 .. Len(gs) PROVE h[i] = h[i - 1] + Blocks(gs[i])
    OBVIOUS
  <2>2. i \in 1 .. l /\ i \in 0 .. l - 1 /\ i - 1 \in 0 .. l - 1 /\ gs[i] = fs[i]
    BY <1>1
  <2> QED
    BY <1>2, <2>2
<1>5. Open(gs, m)
  <2>. HIDE DEF h, m
  <2> QED
    BY <1>3, <1>4 DEF Open
<1>6. n = m + Blocks(fs[l])
  <2>1. l \in 1 .. l
    BY <1>1
  <2> QED
    BY <1>2, <2>1
<1> QED
  BY <1>1, <1>3, <1>5, <1>6 DEF gs

LEMMA OpenAppend ==
    ASSUME NEW fs \in Seq(FrameState), NEW f \in FrameState, NEW n \in Nat, Open(fs, n)
    PROVE  Open(Append(fs, f), n + Blocks(f)) /\ n + Blocks(f) \in Nat
<1>. DEFINE l == Len(fs)
            gs == Append(fs, f)
            b == Blocks(f)
<1>1. /\ l \in Nat /\ Len(gs) = l + 1 /\ gs[l + 1] = f
      /\ \A i \in 1 .. l : gs[i] = fs[i]
  BY AppendIs
<1>2. PICK g \in [0 .. l -> Nat] :
        /\ g[0] = 0 /\ g[l] = n
        /\ \A i \in 1 .. l : g[i] = g[i - 1] + Blocks(fs[i])
  BY DEF Open
<1>3. b \in Nat
  BY BlocksAre
<1>. HIDE DEF gs, b
<1>. DEFINE h == [i \in 0 .. l + 1 |-> IF i = l + 1 THEN n + b ELSE g[i]]
<1>4. h \in [0 .. Len(gs) -> Nat] /\ h[0] = 0 /\ h[Len(gs)] = n + b
  BY <1>1, <1>2, <1>3
<1>5. \A i \in 1 .. Len(gs) : h[i] = h[i - 1] + Blocks(gs[i])
  <2>1. SUFFICES ASSUME NEW i \in 1 .. Len(gs) PROVE h[i] = h[i - 1] + Blocks(gs[i])
    OBVIOUS
  <2>2. CASE i = l + 1
    <3>1. h[i] = n + b /\ h[i - 1] = n /\ gs[i] = f
      BY <1>1, <1>2, <2>2
    <3> QED
      BY <3>1 DEF b
  <2>3. CASE i # l + 1
    <3>1. i \in 1 .. l /\ i - 1 \in 0 .. l /\ i \in 0 .. l /\ gs[i] = fs[i]
      BY <1>1, <2>3
    <3>2. h[i] = g[i] /\ h[i - 1] = g[i - 1]
      BY <1>1, <3>1
    <3> QED
      BY <1>2, <3>1, <3>2
  <2> QED
    BY <2>2, <2>3
<1>6. Open(gs, n + b)
  <2>. HIDE DEF h
  <2> QED
    BY <1>4, <1>5 DEF Open
<1> QED
  BY <1>3, <1>6 DEF gs, b

LEMMA StackedTop ==
    ASSUME NEW fs \in Seq(FrameState), fs # << >>, Stacked(fs), NEW f \in FrameState,
           f.ignoreMissing = Last(fs).ignoreMissing,
           f.stage \in {"resolve", "display", "run"} => ~f.print
    PROVE  Stacked(Append(Front(fs), f))
<1>. DEFINE n == Len(fs)
            bs == Front(fs)
            gs == Append(bs, f)
<1>1. /\ n \in Nat \ {0} /\ Len(bs) = n - 1 /\ Last(fs) = fs[n] /\ bs \in Seq(FrameState)
      /\ \A i \in 1 .. n - 1 : bs[i] = fs[i]
  BY FrontIs
<1>2. /\ Len(gs) = n /\ gs[n] = f /\ \A i \in 1 .. n - 1 : gs[i] = bs[i]
  BY <1>1, AppendIs
<1>. HIDE DEF gs, bs
<1>3. \A i \in 1 .. n - 1 : gs[i] = fs[i]
  BY <1>1, <1>2
<1>4. \A i \in 1 .. Len(gs) - 1 : gs[i].stage = "await"
  BY <1>2, <1>3 DEF Stacked
<1>5. \A i \in 1 .. Len(gs) : gs[i].stage \in {"resolve", "display", "run"} => ~gs[i].print
  <2>1. SUFFICES ASSUME NEW i \in 1 .. Len(gs), gs[i].stage \in {"resolve", "display", "run"}
                 PROVE  ~gs[i].print
    OBVIOUS
  <2>2. CASE i = n
    BY <1>2, <2>1, <2>2
  <2>3. CASE i # n
    <3>1. i \in 1 .. Len(gs) - 1
      BY <1>1, <1>2, <2>3
    <3> QED
      BY <1>4, <2>1, <3>1
  <2> QED
    BY <2>2, <2>3
<1>6. ~gs[1].ignoreMissing
  <2>1. n = 1 => gs[1] = f /\ Last(fs) = fs[1]
    BY <1>1, <1>2
  <2>2. n # 1 => gs[1] = fs[1]
    BY <1>1, <1>3
  <2> QED
    BY <2>1, <2>2 DEF Stacked
<1> QED
  BY <1>4, <1>5, <1>6 DEF Stacked, gs, bs

LEMMA StackedPush ==
    ASSUME NEW fs \in Seq(FrameState), fs # << >>, Stacked(fs), Last(fs).stage = "await",
           NEW f \in FrameState, ~f.print
    PROVE  Stacked(Append(fs, f))
<1>. DEFINE n == Len(fs)
            gs == Append(fs, f)
<1>1. n \in Nat \ {0} /\ Last(fs) = fs[n]
  BY FrontIs
<1>2. Len(gs) = n + 1 /\ gs[n + 1] = f /\ \A i \in 1 .. n : gs[i] = fs[i]
  BY AppendIs
<1>. HIDE DEF gs
<1>3. \A i \in 1 .. Len(gs) - 1 : gs[i].stage = "await"
  <2>1. SUFFICES ASSUME NEW i \in 1 .. Len(gs) - 1 PROVE gs[i].stage = "await"
    OBVIOUS
  <2>2. gs[i] = fs[i] /\ (i = n \/ i \in 1 .. n - 1)
    BY <1>1, <1>2
  <2> QED
    BY <1>1, <2>2 DEF Stacked
<1>4. \A i \in 1 .. Len(gs) : gs[i].stage \in {"resolve", "display", "run"} => ~gs[i].print
  <2>1. SUFFICES ASSUME NEW i \in 1 .. Len(gs), gs[i].stage \in {"resolve", "display", "run"}
                 PROVE  ~gs[i].print
    OBVIOUS
  <2>2. i = n + 1 \/ i \in 1 .. Len(gs) - 1
    BY <1>1, <1>2
  <2> QED
    BY <1>2, <1>3, <2>1, <2>2
<1>5. gs[1] = fs[1]
  BY <1>1, <1>2
<1> QED
  BY <1>3, <1>4, <1>5 DEF Stacked, gs

LEMMA StackedFront ==
    ASSUME NEW fs \in Seq(FrameState), fs # << >>, Stacked(fs), Len(fs) # 1
    PROVE  /\ Front(fs) # << >> /\ Stacked(Front(fs)) /\ Last(Front(fs)).stage = "await"
<1>. DEFINE n == Len(fs)
            gs == Front(fs)
<1>1. /\ n \in Nat \ {0} /\ Len(gs) = n - 1 /\ gs \in Seq(FrameState)
      /\ \A i \in 1 .. n - 1 : gs[i] = fs[i]
  BY FrontIs
<1>. HIDE DEF gs
<1>2. gs # << >>
  BY <1>1
<1>3. Last(gs) = gs[n - 1]
  BY <1>1, <1>2, FrontIs
<1>4. /\ \A i \in 1 .. Len(gs) : gs[i].stage = "await"
      /\ gs[1] = fs[1]
  BY <1>1 DEF Stacked
<1>5. Stacked(gs)
  BY <1>1, <1>4 DEF Stacked
<1>6. Last(gs).stage = "await"
  BY <1>1, <1>3, <1>4
<1> QED
  BY <1>2, <1>5, <1>6 DEF gs

(* The path as blocks begin and end.                                       *)
LEMMA PathsOf ==
    ASSUME NEW r \in Renders, NEW before \in Seq(Renders), NEW n \in Nat
    PROVE  /\ PathOf(r, before, n) \in Seq(Renders)
           /\ Len(PathOf(r, before, n)) = Len(before) + n
           /\ PathOf(r, before, 0) = before
           /\ Append(PathOf(r, before, n), r) = PathOf(r, before, n + 1)
           /\ n # 0 => Front(PathOf(r, before, n)) = PathOf(r, before, n - 1)
<1>. DEFINE l == Len(before)
            p == PathOf(r, before, n)
<1>1. l \in Nat /\ \A i \in 1 .. l : before[i] \in Renders
  OBVIOUS
<1>2. p = [i \in 1 .. l + n |-> IF i <= l THEN before[i] ELSE r]
  BY DEF PathOf
<1>3. p \in Seq(Renders) /\ Len(p) = l + n
  <2>1. p \in [1 .. l + n -> Renders]
    BY <1>1, <1>2
  <2>. HIDE DEF p
  <2>2. l + n \in Nat
    BY <1>1
  <2>3. p \in Seq(Renders)
    BY <2>1, <2>2, SeqDef
  <2>4. DOMAIN p = 1 .. l + n /\ DOMAIN p = 1 .. Len(p) /\ Len(p) \in Nat
    BY <2>1, <2>3
  <2> QED
    BY <2>2, <2>3, <2>4
<1>4. PathOf(r, before, 0) = before
  <2>1. PathOf(r, before, 0) = [i \in 1 .. l |-> before[i]]
    BY <1>1 DEF PathOf
  <2> QED
    BY <2>1
<1>5. Append(p, r) = PathOf(r, before, n + 1)
  <2>. DEFINE q == PathOf(r, before, n + 1)
              a == Append(p, r)
  <2>1. q = [i \in 1 .. l + (n + 1) |-> IF i <= l THEN before[i] ELSE r]
    BY DEF PathOf
  <2>2. p \in Seq(Renders) /\ Len(p) = l + n /\ \A i \in 1 .. l + n : p[i] = IF i <= l THEN before[i] ELSE r
    BY <1>2, <1>3
  <2>. HIDE DEF p, q
  <2>3. /\ a \in Seq(Renders) /\ Len(a) = l + (n + 1)
        /\ \A i \in 1 .. l + n : a[i] = p[i]
        /\ a[l + n + 1] = r
    BY <1>1, <2>2
  <2>4. q \in Seq(Renders) /\ Len(q) = l + (n + 1)
    <3>1. q \in [1 .. l + (n + 1) -> Renders] /\ l + (n + 1) \in Nat
      BY <1>1, <2>1
    <3>2. q \in Seq(Renders)
      BY <3>1, SeqDef
    <3>3. DOMAIN q = 1 .. l + (n + 1) /\ DOMAIN q = 1 .. Len(q) /\ Len(q) \in Nat
      BY <3>1, <3>2
    <3> QED
      BY <3>1, <3>2, <3>3
  <2>. HIDE DEF a
  <2>5. \A i \in 1 .. l + (n + 1) : a[i] = q[i]
    <3>1. SUFFICES ASSUME NEW i \in 1 .. l + (n + 1) PROVE a[i] = q[i]
      OBVIOUS
    <3>2. CASE i = l + n + 1
      <4>1. q[i] = r
        BY <1>1, <2>1, <3>2
      <4> QED
        BY <2>3, <3>2, <4>1
    <3>3. CASE i # l + n + 1
      <4>1. i \in 1 .. l + n
        BY <1>1, <3>3
      <4> QED
        BY <2>1, <2>2, <2>3, <4>1
    <3> QED
      BY <3>2, <3>3
  <2>6. a = q
    BY <2>3, <2>4, <2>5, SeqEqual
  <2> QED
    BY <2>6 DEF a, p, q
<1>6. ASSUME n # 0 PROVE Front(p) = PathOf(r, before, n - 1)
  <2>. DEFINE q == PathOf(r, before, n - 1)
  <2>1. q = [i \in 1 .. l + (n - 1) |-> IF i <= l THEN before[i] ELSE r]
    BY DEF PathOf
  <2>2. Front(p) = [i \in 1 .. l + (n - 1) |-> p[i]]
    <3>1. Front(p) = SubSeq(p, 1, Len(p) - 1)
      BY DEF Front
    <3>. HIDE DEF p
    <3>2. Len(p) - 1 = l + (n - 1)
      BY <1>1, <1>3
    <3>3. SubSeq(p, 1, l + (n - 1)) = [i \in 1 .. l + (n - 1) |-> p[i]]
      BY <1>1, <1>3, <1>6
    <3> QED
      BY <3>1, <3>2, <3>3
  <2>3. \A i \in 1 .. l + (n - 1) : p[i] = IF i <= l THEN before[i] ELSE r
    BY <1>1, <1>2, <1>6
  <2>. HIDE DEF p, q
  <2>4. Front(p) = q
    BY <2>1, <2>2, <2>3
  <2> QED
    BY <2>4 DEF q
<1>. HIDE DEF p
<1> QED
  BY <1>3, <1>4, <1>5, <1>6 DEF p

-----------------------------------------------------------------------------
(* The last template *)

(* What the flag says of the last template of a render.                    *)
TopScoped(f, flag) ==
    /\ TagRight(f)
    /\ flag => f.already \/ On(f)
    /\ f.already => flag
    /\ On(f) /\ f.stage # "return" => flag

LEMMA ScopedFront ==
    ASSUME NEW fs \in Seq(FrameState), NEW flag, Scoped(fs, flag)
    PROVE  /\ fs # << >> /\ Nested(Front(fs)) /\ TopScoped(Last(fs), flag)
           /\ Last(fs).already <=> OnAny(Front(fs))
<1>1. fs # << >> /\ Nested(fs)
  BY DEF Scoped
<1>2. /\ Nested(Front(fs)) /\ TagRight(Last(fs))
      /\ Last(fs).already <=> OnAny(Front(fs))
      /\ OnAny(fs) <=> OnAny(Front(fs)) \/ On(Last(fs))
  BY <1>1, NestedFront, OnFront
<1> QED
  BY <1>1, <1>2, Zenon DEF Scoped, TopScoped

LEMMA ScopedAppend ==
    ASSUME NEW bs \in Seq(FrameState), NEW f \in FrameState, NEW flag, Nested(bs),
           f.already <=> OnAny(bs), TopScoped(f, flag)
    PROVE  Scoped(Append(bs, f), flag)
<1>1. Append(bs, f) # << >> /\ Last(Append(bs, f)) = f
  BY AppendIs
<1>2. TagRight(f)
  BY DEF TopScoped
<1>3. Nested(Append(bs, f)) /\ (OnAny(Append(bs, f)) <=> OnAny(bs) \/ On(f))
  BY <1>2, NestedAppend, OnAppend
<1> QED
  BY <1>1, <1>3, Zenon DEF Scoped, TopScoped

LEMMA ScopedTop ==
    ASSUME NEW fs \in Seq(FrameState), NEW flag, Scoped(fs, flag), NEW f \in FrameState,
           f.already <=> Last(fs).already, NEW flag2, TopScoped(f, flag2)
    PROVE  Scoped(Append(Front(fs), f), flag2)
<1>1. /\ fs # << >> /\ Nested(Front(fs))
      /\ Last(fs).already <=> OnAny(Front(fs))
  BY ScopedFront
<1>2. f.already <=> OnAny(Front(fs))
  BY <1>1, Zenon
<1>3. Front(fs) \in Seq(FrameState)
  BY <1>1, FrontIs
<1> QED
  BY <1>1, <1>2, <1>3, ScopedAppend

(* The include of the last template, which is done, restores the flag.     *)
LEMMA ScopedLeaves ==
    ASSUME NEW fs \in Seq(FrameState), NEW flag, Scoped(fs, flag), Len(fs) # 1,
           Last(fs).tag # <<FALSE>>, NEW flag2,
           flag2 <=> flag /\ ~(Last(fs).sandboxed /\ ~Last(fs).already)
    PROVE  Scoped(Front(fs), flag2)
<1>1. /\ fs # << >> /\ Nested(Front(fs)) /\ TopScoped(Last(fs), flag)
      /\ Last(fs).already <=> OnAny(Front(fs))
  BY ScopedFront
<1>. DEFINE t == Last(fs)
            bs == Front(fs)
<1>2. bs \in Seq(FrameState) /\ bs # << >> /\ t.tag \in {<< >>, <<TRUE>>, <<FALSE>>}
  <2>1. bs \in Seq(FrameState) /\ Len(bs) = Len(fs) - 1 /\ t \in FrameState /\ Len(fs) \in Nat \ {0}
    BY <1>1, FrontIs
  <2>. HIDE DEF bs, t
  <2>2. bs # << >>
    BY <2>1
  <2> QED
    BY <2>1, <2>2 DEF FrameState
<1>. HIDE DEF t, bs
<1>3. t.tag = << >> \/ t.tag = <<TRUE>>
  BY <1>2 DEF t
<1>4. t.tag = <<TRUE>> => t.sandboxed \/ t.already
  BY <1>1, Zenon DEF TopScoped, TagRight, t
<1>5. On(t) => t.sandboxed \/ t.already
  BY <1>3, <1>4, Zenon DEF On
<1>6. flag2 <=> t.already
  BY <1>1, <1>5, Zenon DEF TopScoped, t
<1>7. Last(bs).already => OnAny(bs)
  <2>1. /\ OnAny(bs) <=> OnAny(Front(bs)) \/ On(Last(bs))
        /\ Last(bs).already <=> OnAny(Front(bs))
    BY <1>1, <1>2, OnFront, NestedFront DEF bs
  <2> QED
    BY <2>1, Zenon
<1> QED
  BY <1>1, <1>2, <1>6, <1>7, Zenon DEF Scoped, t, bs

(* The last template changes, and with it the path.                        *)
LEMMA TracedTop ==
    ASSUME NEW r \in Renders, NEW fs \in Seq(FrameState), NEW before, NEW p,
           Traced(r, fs, p, before), Last(fs).stage # "failed",
           NEW f \in FrameState, f.ignoreMissing = Last(fs).ignoreMissing,
           f.stage \in {"resolve", "display", "run"} => ~f.print,
           NEW p2,
           f.stage # "failed" =>
              \A m \in Nat :
                 /\ Open(Front(fs), m)
                 /\ p = IF before = << >> /\ Last(fs).stage = "return" /\ Len(fs) = 1
                        THEN <<r>> ELSE PathOf(r, before, m + Blocks(Last(fs)))
                 => p2 = IF before = << >> /\ f.stage = "return" /\ Len(fs) = 1
                         THEN <<r>> ELSE PathOf(r, before, m + Blocks(f))
    PROVE  Traced(r, Append(Front(fs), f), p2, before)
<1>. DEFINE t == Last(fs)
            bs == Front(fs)
            gs == Append(bs, f)
<1>1. /\ fs # << >> /\ Stacked(fs)
      /\ \E n \in Nat :
           /\ Open(fs, n)
           /\ p = IF before = << >> /\ t.stage = "return" /\ Len(fs) = 1
                  THEN <<r>> ELSE PathOf(r, before, n)
  BY DEF Traced
<1>2. bs \in Seq(FrameState) /\ Len(bs) = Len(fs) - 1 /\ Len(fs) \in Nat
  BY <1>1, FrontIs
<1>3. Stacked(gs)
  BY <1>1, StackedTop
<1>4. gs # << >> /\ Last(gs) = f /\ Len(gs) = Len(fs)
  BY <1>2, AppendIs
<1>5. PICK m \in Nat :
        /\ Open(bs, m)
        /\ p = IF before = << >> /\ t.stage = "return" /\ Len(fs) = 1
               THEN <<r>> ELSE PathOf(r, before, m + Blocks(t))
  BY <1>1, OpenFront
<1>6. ASSUME f.stage # "failed"
      PROVE  \E n \in Nat :
               /\ Open(gs, n)
               /\ p2 = IF before = << >> /\ Last(gs).stage = "return" /\ Len(gs) = 1
                       THEN <<r>> ELSE PathOf(r, before, n)
  <2>1. Open(gs, m + Blocks(f)) /\ m + Blocks(f) \in Nat
    BY <1>2, <1>5, OpenAppend
  <2>2. p2 = IF before = << >> /\ f.stage = "return" /\ Len(fs) = 1
             THEN <<r>> ELSE PathOf(r, before, m + Blocks(f))
    BY <1>5, <1>6
  <2> QED
    BY <1>4, <2>1, <2>2
<1>. HIDE DEF gs
<1>7. Traced(r, gs, p2, before)
  BY <1>3, <1>4, <1>6 DEF Traced
<1> QED
  BY <1>7 DEF gs

(* A template that has no block of its own yet is added.                   *)
LEMMA TracedPush ==
    ASSUME NEW r \in Renders, NEW fs \in Seq(FrameState), NEW before, NEW p,
           Traced(r, fs, p, before), Last(fs).stage = "await",
           NEW f \in FrameState, f.stage = "resolve", ~f.print
    PROVE  Traced(r, Append(fs, f), p, before)
<1>. DEFINE gs == Append(fs, f)
<1>1. fs # << >> /\ Stacked(fs)
  BY DEF Traced
<1>2. PICK n \in Nat : Open(fs, n) /\ p = PathOf(r, before, n)
  BY DEF Traced
<1>3. Stacked(gs)
  BY <1>1, StackedPush
<1>4. gs # << >> /\ Last(gs) = f
  BY AppendIs
<1>5. Blocks(f) = 0 /\ n + 0 = n
  BY DEF Blocks
<1>6. Open(gs, n)
  BY <1>2, <1>5, OpenAppend
<1>. HIDE DEF gs
<1>7. Traced(r, gs, p, before)
  BY <1>2, <1>3, <1>4, <1>6 DEF Traced
<1> QED
  BY <1>7 DEF gs

(* The last template is done and has no block open.                        *)
LEMMA TracedReturns ==
    ASSUME NEW r \in Renders, NEW fs \in Seq(FrameState), NEW before, NEW p,
           Traced(r, fs, p, before), Last(fs).stage = "return", Len(fs) # 1
    PROVE  Traced(r, Front(fs), p, before) /\ Last(Front(fs)).stage = "await"
<1>. DEFINE bs == Front(fs)
<1>1. fs # << >> /\ Stacked(fs)
  BY DEF Traced
<1>2. bs # << >> /\ Stacked(bs) /\ Last(bs).stage = "await"
  BY <1>1, StackedFront
<1>3. PICK n \in Nat : Open(fs, n) /\ p = PathOf(r, before, n)
  BY DEF Traced
<1>4. Blocks(Last(fs)) = 0
  BY DEF Blocks
<1>5. PICK m \in Nat : Open(bs, m) /\ n = m + 0
  BY <1>1, <1>3, <1>4, OpenFront
<1>6. Open(bs, n)
  BY <1>5
<1>. HIDE DEF bs
<1> QED
  BY <1>2, <1>3, <1>6 DEF Traced, bs

(* The blocks below the last template.                                     *)
LEMMA OpenBelow ==
    ASSUME NEW fs \in Seq(FrameState), fs # << >>, Stacked(fs), NEW m \in Nat,
           Open(Front(fs), m)
    PROVE  (Len(fs) = 1 => m = 0) /\ (Len(fs) # 1 => m # 0)
<1>. DEFINE bs == Front(fs)
<1>1. bs \in Seq(FrameState) /\ Len(bs) = Len(fs) - 1 /\ Len(fs) \in Nat \ {0}
  BY FrontIs
<1>2. ASSUME Len(fs) = 1 PROVE m = 0
  <2>1. Len(bs) = 0
    BY <1>1, <1>2
  <2>. HIDE DEF bs
  <2> QED
    BY <2>1 DEF Open, bs
<1>3. ASSUME Len(fs) # 1 PROVE m # 0
  <2>1. bs # << >> /\ Last(bs).stage = "await"
    BY <1>3, StackedFront
  <2>2. PICK k \in Nat : m = k + Blocks(Last(bs))
    BY <1>1, <2>1, OpenFront
  <2>3. Blocks(Last(bs)) \in {1, 2}
    BY <2>1 DEF Blocks
  <2> QED
    BY <2>2, <2>3
<1> QED
  BY <1>2, <1>3

(* A block ends: that of the template, or that of its print.               *)
LEMMA TracedLeave ==
    ASSUME NEW r \in Renders, NEW fs \in Seq(FrameState), NEW before \in Seq(Renders), NEW p,
           Traced(r, fs, p, before), Last(fs).stage \in {"run", "continue"},
           NEW f \in FrameState, f.ignoreMissing = Last(fs).ignoreMissing,
           f.stage \in {"return", "run"}, f.stage = "run" => ~f.print,
           Blocks(Last(fs)) = Blocks(f) + 1
    PROVE  Traced(r, Append(Front(fs), f), IF Len(p) > 1 THEN Front(p) ELSE p, before)
<1>. DEFINE p2 == IF Len(p) > 1 THEN Front(p) ELSE p
            l == Len(before)
<1>1. fs # << >> /\ Stacked(fs) /\ l \in Nat
  BY DEF Traced
<1>2. ASSUME NEW m \in Nat, Open(Front(fs), m), p = PathOf(r, before, m + Blocks(Last(fs)))
      PROVE  p2 = IF before = << >> /\ f.stage = "return" /\ Len(fs) = 1
                  THEN <<r>> ELSE PathOf(r, before, m + Blocks(f))
  <2>. DEFINE n == m + Blocks(Last(fs))
              b == Blocks(f)
  <2>1. b \in Nat /\ n = m + b + 1 /\ n \in Nat \ {0} /\ n - 1 = m + b
        /\ (f.stage = "return" => b = 0) /\ (f.stage = "run" => b = 1)
    BY BlocksAre DEF Blocks
  <2>2. (Len(fs) = 1 => m = 0) /\ (Len(fs) # 1 => m # 0)
    BY <1>1, <1>2, OpenBelow
  <2>. HIDE DEF n, b
  <2>3. p = PathOf(r, before, n) /\ Len(p) = l + n /\ Front(p) = PathOf(r, before, n - 1)
    BY ZenonT(60), <1>2, <2>1, PathsOf DEF n
  <2>4. CASE before = << >> /\ f.stage = "return" /\ Len(fs) = 1
    <3>1. n = 1 /\ l = 0
      BY <2>1, <2>2, <2>4
    <3>2. p2 = p
      BY <2>3, <3>1
    <3>3. p = <<r>>
      BY <2>3, <2>4, <3>1 DEF PathOf
    <3> QED
      BY <2>4, <3>2, <3>3
  <2>5. CASE ~ (before = << >> /\ f.stage = "return" /\ Len(fs) = 1)
    <3>1. l + n > 1
      <4>1. before # << >> => l # 0
        OBVIOUS
      <4> QED
        BY <1>1, <2>1, <2>2, <2>5, <4>1
    <3>2. p2 = PathOf(r, before, n - 1)
      BY <2>3, <3>1
    <3> QED
      BY <2>1, <2>5, <3>2 DEF b
  <2> QED
    BY <2>4, <2>5
<1>3. Last(fs).stage # "failed" /\ Last(fs).stage # "return"
  OBVIOUS
<1>. HIDE DEF p2
<1>4. Traced(r, Append(Front(fs), f), p2, before)
  BY <1>2, <1>3, TracedTop
<1> QED
  BY <1>4 DEF p2

-----------------------------------------------------------------------------
(* The steps, of a render that no other one overlaps *)

(* A step of a render concerns no other one that is alone.                 *)
LEMMA AloneStep ==
    ASSUME EnvInv, FlagInv', NEW r \in Renders, frames[r] # << >>, NEW gs,
           frames' = [frames EXCEPT ![r] = gs],
           past' \in PastState, past'.of = past.of, past.leaked => past'.leaked,
           path' \in Seq(Renders),
           \A u \in Renders : u # r => outcome'[u] = outcome[u],
           Alone(r) /\ outcome'[r] = "running" /\ ~past'.leaked => Scoped(gs, sandboxed'),
           Alone(r) /\ outcome'[r] = "running" => Traced(r, gs, path', past.of[r].path)
    PROVE  EnvInv'
<1>1. /\ frames'[r] = gs /\ outcome[r] = "running"
      /\ past' = past' /\ FlagInv /\ OverlapInv
  BY DEF EnvInv, FlagInv
<1>2. OverlapInv'
  BY <1>1 DEF OverlapInv
<1>3. ASSUME NEW u \in Renders, Alone(u)' PROVE u = r /\ Alone(r) /\ outcome'[r] = "running"
  <2>1. u # r => FALSE
    BY <1>1, <1>3 DEF Alone, OverlapInv
  <2> QED
    BY <1>1, <1>3, <2>1 DEF Alone
<1>4. ScopeInv'
  <2>1. SUFFICES ASSUME NEW u \in Renders, Alone(u)', ~past'.leaked
                 PROVE  Scoped(frames'[u], sandboxed')
    BY DEF ScopeInv
  <2> QED
    BY <1>1, <1>3, <2>1
<1>5. TraceInv'
  <2>1. SUFFICES ASSUME NEW u \in Renders, Alone(u)'
                 PROVE  Traced(u, frames'[u], path', past'.of[u].path)
    BY DEF TraceInv
  <2> QED
    BY <1>1, <1>3, <2>1
<1> QED
  BY <1>2, <1>4, <1>5 DEF EnvInv

LEMMA EnvTypes ==
    ASSUME EnvInv
    PROVE  /\ FlagInv /\ OverlapInv /\ sandboxed \in BOOLEAN /\ past.leaked \in BOOLEAN
           /\ past \in PastState /\ path \in Seq(Renders)
           /\ frames \in [Renders -> Seq(FrameState)]
           /\ \A r \in Renders :
                 /\ frames[r] \in Seq(FrameState)
                 /\ past.of[r].path \in Seq(Renders)
                 /\ Alone(r) /\ ~past.leaked => Scoped(frames[r], sandboxed)
                 /\ Alone(r) => Traced(r, frames[r], path, past.of[r].path)
<1>1. FlagInv /\ OverlapInv /\ ScopeInv /\ TraceInv
  BY DEF EnvInv
<1>2. past \in PastState /\ path \in Seq(Renders)
  BY <1>1 DEF OverlapInv
<1>3. \A r \in Renders : past.of[r].path \in Seq(Renders)
  BY <1>2 DEF PastState
<1> QED
  BY <1>1, <1>2, <1>3 DEF FlagInv, ScopeInv, TraceInv

LEMMA FrameFields ==
    ASSUME NEW f \in FrameState
    PROVE  /\ f.stage \in Stages
           /\ f.sandboxed \in BOOLEAN /\ f.already \in BOOLEAN /\ f.print \in BOOLEAN
           /\ f.ignoreMissing \in BOOLEAN
           /\ f.tag \in {<< >>, <<TRUE>>, <<FALSE>>}
           /\ f.stage \in {"resolve", "display", "return"} => f.tag = << >>
BY DEF FrameState

LEMMA InStage ==
    ASSUME NEW t \in FrameState, NEW stage \in Stages,
           stage \in {"resolve", "display", "return"} => t.tag = << >>,
           NEW f, f = [t EXCEPT !.stage = stage]
    PROVE  /\ f \in FrameState /\ f.stage = stage
           /\ f.sandboxed = t.sandboxed /\ f.already = t.already /\ f.tag = t.tag
           /\ f.print = t.print /\ f.ignoreMissing = t.ignoreMissing
BY DEF FrameState, Stages

(* Only the stage of the last template changes, not the flag.              *)
LEMMA StageAlone ==
    ASSUME EnvInv, FlagInv', NEW r \in Renders, frames[r] # << >>,
           NEW stage \in Stages \ {"return"}, To(r, stage), Top(r).stage # "return",
           stage = "display" => Top(r).tag = << >>,
           stage # "resolve",
           UNCHANGED <<sandboxed, outcome, past>>, path' \in Seq(Renders),
           Top(r).stage # "failed",
           Alone(r) /\ stage # "failed" =>
              /\ \/ path' = path /\ Blocks([Top(r) EXCEPT !.stage = stage]) = Blocks(Top(r))
                 \/ /\ path' = Append(path, r)
                    /\ Blocks([Top(r) EXCEPT !.stage = stage]) = Blocks(Top(r)) + 1
              /\ Top(r).stage \in {"resolve", "display", "run"}
    PROVE  EnvInv'
<1>. DEFINE fs == frames[r]
            t == Last(fs)
            f == [t EXCEPT !.stage = stage]
            gs == Append(Front(fs), f)
            before == past.of[r].path
<1>1. /\ fs \in Seq(FrameState) /\ t \in FrameState /\ t.stage # "return" /\ t.stage # "failed"
      /\ before \in Seq(Renders) /\ sandboxed \in BOOLEAN
      /\ past' \in PastState /\ past'.of = past.of
      /\ Alone(r) /\ ~past.leaked => Scoped(fs, sandboxed)
      /\ Alone(r) => Traced(r, fs, path, before)
  BY EnvTypes, FrontIs DEF Top
<1>2. frames' = [frames EXCEPT ![r] = gs]
  BY DEF To, WithTop, Top
<1>3. /\ f \in FrameState /\ f.stage = stage
      /\ f.sandboxed = t.sandboxed /\ f.already = t.already /\ f.tag = t.tag
      /\ f.print = t.print /\ f.ignoreMissing = t.ignoreMissing
  <2>1. stage \in {"resolve", "display", "return"} => t.tag = << >>
    BY DEF Top
  <2>. HIDE DEF t
  <2> QED
    BY <1>1, <2>1, InStage
<1>4. Alone(r) /\ stage # "failed" =>
         /\ \/ path' = path /\ Blocks(f) = Blocks(t)
            \/ path' = Append(path, r) /\ Blocks(f) = Blocks(t) + 1
         /\ t.stage \in {"resolve", "display", "run"}
  BY DEF Top
<1>. HIDE DEF t, f
<1>5. ASSUME Alone(r), ~past.leaked PROVE Scoped(gs, sandboxed)
  <2>1. TopScoped(t, sandboxed)
    BY <1>1, <1>5, ScopedFront DEF t
  <2>2. TopScoped(f, sandboxed)
    BY <1>1, <1>3, <2>1, Zenon DEF TopScoped, TagRight, On
  <2> QED
    BY <1>1, <1>3, <1>5, <2>2, ScopedTop DEF t
<1>6. ASSUME Alone(r) PROVE Traced(r, gs, path', before)
  <2>1. fs # << >> /\ Stacked(fs) /\ Traced(r, fs, path, before)
    BY <1>1, <1>6 DEF Traced
  <2>2. t = fs[Len(fs)] /\ Len(fs) \in 1 .. Len(fs)
    BY <1>1, <2>1, FrontIs DEF t
  <2>3. t.stage \in {"resolve", "display", "run"} => ~t.print
    BY <2>1, <2>2 DEF Stacked
  <2>4. f.stage \in {"resolve", "display", "run"} => ~f.print
    BY <1>3, <1>4, <1>6, <2>3
  <2>5. ASSUME f.stage # "failed", NEW m \in Nat,
               path = IF before = << >> /\ t.stage = "return" /\ Len(fs) = 1
                      THEN <<r>> ELSE PathOf(r, before, m + Blocks(t))
        PROVE  path' = IF before = << >> /\ f.stage = "return" /\ Len(fs) = 1
                       THEN <<r>> ELSE PathOf(r, before, m + Blocks(f))
    <3>1. path = PathOf(r, before, m + Blocks(t)) /\ f.stage # "return"
      BY <1>1, <1>3, <2>5
    <3>2. path' = PathOf(r, before, m + Blocks(f))
      <4>1. CASE path' = path /\ Blocks(f) = Blocks(t)
        BY <3>1, <4>1
      <4>2. CASE path' = Append(path, r) /\ Blocks(f) = Blocks(t) + 1
        <5>. DEFINE n == m + Blocks(t)
        <5>1. n \in Nat /\ n + 1 = m + Blocks(f)
          BY <4>2, BlocksAre
        <5>. HIDE DEF n
        <5>2. Append(PathOf(r, before, n), r) = PathOf(r, before, n + 1)
          BY ZenonT(60), <1>1, <5>1, PathsOf
        <5> QED
          BY <3>1, <4>2, <5>1, <5>2 DEF n
      <4> QED
        BY <1>3, <1>4, <1>6, <2>5, <4>1, <4>2
    <3> QED
      BY <3>1, <3>2
  <2> QED
    BY <1>1, <1>3, <2>1, <2>4, <2>5, TracedTop DEF t
<1>7. \A u \in Renders : u # r => outcome'[u] = outcome[u]
  OBVIOUS
<1>8. path' \in Seq(Renders) /\ past' = past /\ sandboxed' = sandboxed
  OBVIOUS
<1>. HIDE DEF gs, fs, before
<1>9. /\ Alone(r) /\ outcome'[r] = "running" /\ ~past'.leaked => Scoped(gs, sandboxed')
      /\ Alone(r) /\ outcome'[r] = "running" => Traced(r, gs, path', past.of[r].path)
  BY <1>5, <1>6, <1>8 DEF before
<1> QED
  BY <1>1, <1>2, <1>7, <1>8, <1>9, AloneStep

(* Any change of the last template.                                        *)
LEMMA TopAlone ==
    ASSUME EnvInv, FlagInv', NEW r \in Renders, frames[r] # << >>, NEW f \in FrameState,
           frames' = WithTop(r, f), f.already = Top(r).already,
           past' \in PastState, past'.of = past.of, past.leaked => past'.leaked,
           path' \in Seq(Renders), UNCHANGED outcome,
           Alone(r) /\ ~past'.leaked /\ TopScoped(Top(r), sandboxed) => TopScoped(f, sandboxed'),
           Alone(r) /\ Traced(r, frames[r], path, past.of[r].path)
              => Traced(r, Append(Front(frames[r]), f), path', past.of[r].path)
    PROVE  EnvInv'
<1>. DEFINE fs == frames[r]
            gs == Append(Front(fs), f)
<1>1. /\ fs \in Seq(FrameState) /\ Top(r) = Last(fs)
      /\ Alone(r) /\ ~past.leaked => Scoped(fs, sandboxed)
      /\ Alone(r) => Traced(r, fs, path, past.of[r].path)
  BY EnvTypes DEF Top
<1>2. frames' = [frames EXCEPT ![r] = gs]
  BY DEF WithTop
<1>3. ASSUME Alone(r), ~past'.leaked PROVE Scoped(gs, sandboxed')
  <2>1. Scoped(fs, sandboxed)
    BY <1>1, <1>3
  <2>2. TopScoped(Last(fs), sandboxed)
    BY <1>1, <2>1, ScopedFront
  <2>3. TopScoped(f, sandboxed') /\ (f.already <=> Last(fs).already)
    BY <1>1, <1>3, <2>2
  <2> QED
    BY <1>1, <2>1, <2>3, ScopedTop
<1>4. Alone(r) => Traced(r, gs, path', past.of[r].path)
  BY <1>1
<1>5. \A u \in Renders : u # r => outcome'[u] = outcome[u]
  OBVIOUS
<1>. HIDE DEF gs, fs
<1> QED
  BY <1>2, <1>3, <1>4, <1>5, AloneStep

(* Nothing of the path is asked of a render that fails.                    *)
LEMMA FailedIsTraced ==
    ASSUME NEW r \in Renders, NEW fs \in Seq(FrameState), NEW before, NEW p, NEW p2,
           fs # << >>, Stacked(fs), NEW f \in FrameState,
           f.ignoreMissing = Last(fs).ignoreMissing, f.stage = "failed"
    PROVE  Traced(r, Append(Front(fs), f), p2, before)
<1>. DEFINE gs == Append(Front(fs), f)
<1>1. Stacked(gs)
  BY StackedTop
<1>2. Front(fs) \in Seq(FrameState)
  BY FrontIs
<1>3. gs # << >> /\ Last(gs) = f
  BY <1>2, AppendIs
<1>. HIDE DEF gs
<1>4. Traced(r, gs, p2, before)
  BY <1>1, <1>3 DEF Traced
<1> QED
  BY <1>4 DEF gs

LEMMA PathTyped ==
    ASSUME path \in Seq(Renders), NEW r \in Renders
    PROVE  /\ enterSourceMapBlock(r) => path' \in Seq(Renders)
           /\ leaveSourceMapBlock => path' \in Seq(Renders)
<1>1. Append(path, r) \in Seq(Renders)
  OBVIOUS
<1>2. ASSUME Len(path) > 1 PROVE Front(path) \in Seq(Renders)
  <2>1. Len(path) \in Nat /\ \A i \in 1 .. Len(path) : path[i] \in Renders
    OBVIOUS
  <2>2. Len(path) - 1 \in Int /\ 1 <= Len(path) - 1
    BY <1>2, <2>1
  <2>3. \A i \in 1 .. Len(path) - 1 : path[i] \in Renders
    BY <2>1
  <2> QED
    BY <2>1, <2>2, <2>3, SubSeqProperties DEF Front
<1> QED
  BY <1>1, <1>2 DEF enterSourceMapBlock, leaveSourceMapBlock

LEMMA LastIsNoPrint ==
    ASSUME EnvInv, NEW r \in Renders, frames[r] # << >>, Alone(r),
           Top(r).stage \in {"resolve", "display", "run"}
    PROVE  ~Top(r).print
<1>. DEFINE fs == frames[r]
<1>1. fs \in Seq(FrameState) /\ Stacked(fs)
  BY EnvTypes DEF Traced
<1>2. Top(r) = fs[Len(fs)] /\ Len(fs) \in 1 .. Len(fs)
  BY <1>1, FrontIs DEF Top
<1>. HIDE DEF fs
<1> QED
  BY <1>1, <1>2 DEF Stacked

(* The flag is restored once: what it was, if the include has set it.      *)
LEMMA RestoredFlag ==
    ASSUME NEW t \in FrameState, sandboxed \in BOOLEAN, restoreSandbox(t)
    PROVE  /\ sandboxed' \in BOOLEAN
           /\ sandboxed' <=> sandboxed /\ ~(t.sandboxed /\ ~t.already)
BY Zenon DEF restoreSandbox

LEMMA ResolveAlone ==
    ASSUME EnvInv, FlagInv', NEW r \in Renders, Resolve(r) \/ Throw(r) \/ Display(r)
    PROVE  EnvInv'
<1>1. frames[r] # << >> /\ UNCHANGED <<sandboxed, outcome, past>> /\ path \in Seq(Renders)
  BY EnvTypes DEF Resolve, Throw, Display, IsAt, Running
<1>2. Top(r) \in FrameState
  BY <1>1, EnvTypes, TopOfRender
<1>3. CASE Resolve(r)
  <2>1. Top(r).stage = "resolve" /\ path' = path /\ Top(r).tag = << >>
        /\ (To(r, "display") \/ To(r, "failed"))
    BY <1>2, <1>3, FrameFields DEF Resolve, IsAt
  <2>2. Blocks([Top(r) EXCEPT !.stage = "display"]) = Blocks(Top(r))
    <3>1. [Top(r) EXCEPT !.stage = "display"].stage = "display"
      BY <1>2 DEF FrameState
    <3> QED
      BY <2>1, <3>1 DEF Blocks
  <2>3. "display" \in Stages \ {"return"} /\ "failed" \in Stages \ {"return"}
    BY DEF Stages
  <2> QED
    BY <1>1, <2>1, <2>2, <2>3, StageAlone
<1>4. CASE Throw(r)
  <2>1. Top(r).stage = "run" /\ path' = path /\ To(r, "failed")
    BY <1>4 DEF Throw, Running, IsAt
  <2>2. "failed" \in Stages \ {"return"}
    BY DEF Stages
  <2> QED
    BY <1>1, <2>1, <2>2, StageAlone
<1>5. CASE Display(r)
  <2>1. Top(r).stage = "display" /\ path' = Append(path, r) /\ To(r, "run")
    BY <1>5 DEF Display, IsAt, enterSourceMapBlock
  <2>2. Alone(r) => Blocks([Top(r) EXCEPT !.stage = "run"]) = Blocks(Top(r)) + 1
    <3>1. Alone(r) => ~Top(r).print
      BY <1>1, <2>1, LastIsNoPrint
    <3>2. [Top(r) EXCEPT !.stage = "run"].stage = "run"
          /\ [Top(r) EXCEPT !.stage = "run"].print = Top(r).print
      BY <1>2 DEF FrameState
    <3> QED
      BY <2>1, <3>1, <3>2 DEF Blocks
  <2>3. "run" \in Stages \ {"return"} /\ path' \in Seq(Renders)
    BY <1>1, <2>1 DEF Stages
  <2> QED
    BY <1>1, <2>1, <2>2, <2>3, StageAlone
<1> QED
  BY <1>3, <1>4, <1>5

LEMMA MissingAlone ==
    ASSUME EnvInv, FlagInv', NEW r \in Renders, Missing(r)
    PROVE  EnvInv'
<1>1. frames[r] # << >> /\ UNCHANGED <<outcome, past, path>> /\ Top(r).stage = "resolve"
  BY DEF Missing, IsAt
<1>2. Top(r) \in FrameState /\ path \in Seq(Renders) /\ past \in PastState /\ sandboxed \in BOOLEAN
      /\ frames[r] \in Seq(FrameState) /\ Top(r) = Last(frames[r])
  BY <1>1, EnvTypes, TopOfRender DEF Top
<1>3. CASE ~Top(r).ignoreMissing
  <2>1. To(r, "failed") /\ UNCHANGED sandboxed /\ "failed" \in Stages \ {"return"}
    BY <1>3 DEF Missing, Stages
  <2> QED
    BY <1>1, <1>2, <2>1, StageAlone
<1>4. CASE Top(r).ignoreMissing
  <2>. DEFINE t == Top(r)
              f == [t EXCEPT !.stage = "return"]
              fs == frames[r]
              before == past.of[r].path
  <2>1. frames' = WithTop(r, f) /\ restoreSandbox(t)
    BY <1>4 DEF Missing, To
  <2>2. t.tag = << >> /\ "return" \in Stages /\ t \in FrameState
    BY <1>1, <1>2, FrameFields DEF Stages
  <2>3. sandboxed' \in BOOLEAN /\ (sandboxed' <=> sandboxed /\ ~(t.sandboxed /\ ~t.already))
    BY <1>2, <2>1, RestoredFlag
  <2>. HIDE DEF t
  <2>4. /\ f \in FrameState /\ f.stage = "return"
        /\ f.sandboxed = t.sandboxed /\ f.already = t.already /\ f.tag = t.tag
        /\ f.print = t.print /\ f.ignoreMissing = t.ignoreMissing
    BY <2>2, InStage
  <2>. HIDE DEF f
  <2>5. TopScoped(t, sandboxed) => TopScoped(f, sandboxed')
    BY <2>2, <2>3, <2>4, Zenon DEF TopScoped, TagRight, On
  <2>6. ASSUME Traced(r, fs, path, before) PROVE Traced(r, Append(Front(fs), f), path', before)
    <3>1. fs # << >> /\ Stacked(fs) /\ t = Last(fs) /\ t.stage = "resolve"
      BY <1>1, <1>2, <2>6 DEF Traced, t
    <3>2. t = fs[Len(fs)]
      BY <1>2, <3>1, FrontIs
    <3>3. Len(fs) # 1
      BY <1>4, <3>1, <3>2 DEF Stacked, t
    <3>4. Blocks(f) = 0 /\ Blocks(t) = 0
      BY <2>4, <3>1 DEF Blocks
    <3>5. path' = path
      BY <1>1
    <3> QED
      BY <1>2, <2>4, <2>6, <3>1, <3>3, <3>4, <3>5, TracedTop
  <2>7. f.already = Top(r).already
    BY <2>4 DEF t
  <2> QED
    BY <1>1, <1>2, <2>1, <2>4, <2>5, <2>6, <2>7, TopAlone DEF t
<1> QED
  BY <1>3, <1>4

LEMMA EndDisplayAlone ==
    ASSUME EnvInv, FlagInv', NEW r \in Renders, EndDisplay(r)
    PROVE  EnvInv'
<1>. DEFINE t == Top(r)
            f == [t EXCEPT !.stage = "return"]
            fs == frames[r]
            before == past.of[r].path
<1>1. /\ fs # << >> /\ UNCHANGED <<sandboxed, outcome, past>> /\ t.stage = "run" /\ t.tag = << >>
      /\ frames' = WithTop(r, f) /\ leaveSourceMapBlock
  BY DEF EndDisplay, IsAt, To
<1>2. /\ t \in FrameState /\ path' \in Seq(Renders) /\ past \in PastState /\ t = Last(fs)
      /\ fs \in Seq(FrameState) /\ before \in Seq(Renders) /\ sandboxed \in BOOLEAN
  BY <1>1, EnvTypes, TopOfRender, PathTyped DEF Top
<1>3. Alone(r) => ~t.print
  BY <1>1, LastIsNoPrint
<1>4. path' = IF Len(path) > 1 THEN Front(path) ELSE path
  BY <1>1 DEF leaveSourceMapBlock
<1>. HIDE DEF t
<1>5. /\ f \in FrameState /\ f.stage = "return"
      /\ f.sandboxed = t.sandboxed /\ f.already = t.already /\ f.tag = t.tag
      /\ f.print = t.print /\ f.ignoreMissing = t.ignoreMissing
  <2>1. "return" \in Stages
    BY DEF Stages
  <2> QED
    BY <1>1, <1>2, <2>1, InStage
<1>. HIDE DEF f, fs, before
<1>6. TopScoped(t, sandboxed) => TopScoped(f, sandboxed')
  <2>1. sandboxed' = sandboxed /\ t.stage # "return"
    BY <1>1
  <2> QED
    BY <1>5, <2>1, Zenon DEF TopScoped, TagRight, On
<1>7. ASSUME Alone(r), Traced(r, fs, path, before)
      PROVE  Traced(r, Append(Front(fs), f), path', before)
  <2>1. Blocks(t) = Blocks(f) + 1
    BY <1>1, <1>3, <1>5, <1>7 DEF Blocks
  <2> QED
    BY <1>1, <1>2, <1>4, <1>5, <1>7, <2>1, TracedLeave
<1>8. past' \in PastState /\ past'.of = past.of /\ past'.leaked = past.leaked /\ outcome' = outcome
  BY <1>1, <1>2
<1> QED
  BY <1>1, <1>2, <1>5, <1>6, <1>7, <1>8, TopAlone DEF t, fs, before

LEMMA ContinueAlone ==
    ASSUME EnvInv, FlagInv', NEW r \in Renders, Continue(r)
    PROVE  EnvInv'
<1>. DEFINE t == Top(r)
            f == [t EXCEPT !.stage = "run", !.print = FALSE]
            fs == frames[r]
            before == past.of[r].path
<1>1. /\ fs # << >> /\ UNCHANGED <<sandboxed, outcome, past>> /\ t.stage = "continue"
      /\ frames' = WithTop(r, f)
      /\ path' = IF t.print /\ Len(path) > 1 THEN Front(path) ELSE path
  BY DEF Continue, IsAt, leaveSourceMapBlock
<1>2. /\ t \in FrameState /\ path' \in Seq(Renders) /\ past \in PastState /\ t = Last(fs)
      /\ fs \in Seq(FrameState) /\ before \in Seq(Renders) /\ sandboxed \in BOOLEAN
      /\ path \in Seq(Renders)
  <2>1. path' \in Seq(Renders)
    BY EnvTypes, PathTyped DEF Continue
  <2> QED
    BY <1>1, <2>1, EnvTypes, TopOfRender DEF Top
<1>. HIDE DEF t
<1>3. /\ f \in FrameState /\ f.stage = "run" /\ f.print = FALSE
      /\ f.sandboxed = t.sandboxed /\ f.already = t.already /\ f.tag = t.tag
      /\ f.ignoreMissing = t.ignoreMissing
  BY <1>2 DEF FrameState, Stages
<1>. HIDE DEF f, fs, before
<1>4. TopScoped(t, sandboxed) => TopScoped(f, sandboxed')
  <2>1. sandboxed' = sandboxed /\ t.stage # "return"
    BY <1>1
  <2> QED
    BY <1>3, <2>1, Zenon DEF TopScoped, TagRight, On
<1>5. ASSUME Traced(r, fs, path, before)
      PROVE  Traced(r, Append(Front(fs), f), path', before)
  <2>1. Blocks(f) = 1 /\ Blocks(t) = IF t.print THEN 2 ELSE 1
    BY <1>1, <1>3 DEF Blocks
  <2>2. CASE t.print
    <3>1. Blocks(t) = Blocks(f) + 1 /\ path' = IF Len(path) > 1 THEN Front(path) ELSE path
      BY <1>1, <2>1, <2>2
    <3>2. Last(fs).stage \in {"run", "continue"} /\ f.stage \in {"return", "run"}
          /\ f.ignoreMissing = Last(fs).ignoreMissing /\ ~f.print
          /\ Blocks(Last(fs)) = Blocks(f) + 1
      BY <1>1, <1>2, <1>3, <3>1
    <3>3. Traced(r, Append(Front(fs), f), IF Len(path) > 1 THEN Front(path) ELSE path, before)
      BY <1>2, <1>3, <1>5, <3>2, TracedLeave
    <3> QED
      BY <3>1, <3>3
  <2>3. CASE ~t.print
    <3>1. Blocks(t) = Blocks(f) /\ path' = path
      BY <1>1, <2>1, <2>3
    <3> QED
      BY <1>1, <1>2, <1>3, <1>5, <3>1, TracedTop
  <2> QED
    BY <2>2, <2>3
<1>6. past' \in PastState /\ past'.of = past.of /\ past'.leaked = past.leaked /\ outcome' = outcome
  BY <1>1, <1>2
<1> QED
  BY <1>1, <1>2, <1>3, <1>4, <1>5, <1>6, TopAlone DEF t, fs, before

LEMMA IncludeNothingAlone ==
    ASSUME EnvInv, FlagInv', NEW r \in Renders, IncludeNothing(r)
    PROVE  EnvInv'
<1>. DEFINE t == Top(r)
            f == [t EXCEPT !.stage = "failed"]
            fs == frames[r]
            before == past.of[r].path
<1>1. /\ fs # << >> /\ outcome' = outcome /\ t.stage = "run"
      /\ frames' = WithTop(r, f) /\ enterSourceMapBlock(r)
  BY DEF IncludeNothing, Running, IsAt, To
<1>2. /\ t \in FrameState /\ path' \in Seq(Renders) /\ past \in PastState /\ t = Last(fs)
      /\ fs \in Seq(FrameState) /\ sandboxed \in BOOLEAN /\ past.leaked \in BOOLEAN
      /\ FlagInv
  <2>1. path' \in Seq(Renders)
    BY <1>1, EnvTypes, PathTyped
  <2> QED
    BY <1>1, <2>1, EnvTypes, TopOfRender DEF Top
<1>3. PICK isSandboxed \in BOOLEAN :
        /\ sandboxed' = (sandboxed \/ isSandboxed)
        /\ past' = [past EXCEPT !.leaked = @ \/ (isSandboxed /\ ~sandboxed)]
  BY DEF IncludeNothing
<1>4. /\ past' \in PastState /\ past'.of = past.of
      /\ past'.leaked = (past.leaked \/ (isSandboxed /\ ~sandboxed))
  <2>1. ASSUME NEW l \in BOOLEAN
        PROVE  /\ [past EXCEPT !.leaked = l] \in PastState
               /\ [past EXCEPT !.leaked = l].of = past.of
               /\ [past EXCEPT !.leaked = l].leaked = l
    BY <1>2 DEF PastState
  <2>2. (past.leaked \/ (isSandboxed /\ ~sandboxed)) \in BOOLEAN
    OBVIOUS
  <2> QED
    BY <1>3, <2>1, <2>2
<1>5. past.leaked => past'.leaked
  BY <1>4
<1>6. ~past'.leaked => (sandboxed' <=> sandboxed)
  BY <1>3, <1>4
<1>. HIDE DEF t
<1>7. /\ f \in FrameState /\ f.stage = "failed"
      /\ f.sandboxed = t.sandboxed /\ f.already = t.already /\ f.tag = t.tag
      /\ f.print = t.print /\ f.ignoreMissing = t.ignoreMissing
  <2>1. "failed" \in Stages
    BY DEF Stages
  <2> QED
    BY <1>2, <2>1, InStage
<1>. HIDE DEF f, fs, before
<1>8. ~past'.leaked /\ TopScoped(t, sandboxed) => TopScoped(f, sandboxed')
  <2>1. t.stage # "return"
    BY <1>1
  <2> QED
    BY <1>6, <1>7, <2>1, Zenon DEF TopScoped, TagRight, On
<1>9. ASSUME Traced(r, fs, path, before)
      PROVE  Traced(r, Append(Front(fs), f), path', before)
  <2>1. fs # << >> /\ Stacked(fs)
    BY <1>9 DEF Traced
  <2> QED
    BY <1>2, <1>7, <2>1, FailedIsTraced
<1> QED
  BY <1>1, <1>2, <1>4, <1>5, <1>7, <1>8, <1>9, TopAlone DEF t, fs, before

(* The sandbox tag remembers the flag that it sets.                        *)
LEMMA EnterSandboxAlone ==
    ASSUME EnvInv, FlagInv', NEW r \in Renders, EnterSandbox(r)
    PROVE  EnvInv'
<1>. DEFINE t == Top(r)
            f == [t EXCEPT !.tag = <<sandboxed>>]
            fs == frames[r]
            before == past.of[r].path
<1>1. /\ fs # << >> /\ outcome' = outcome /\ past' = past /\ path' = path
      /\ t.stage = "run" /\ t.tag = << >>
      /\ frames' = WithTop(r, f) /\ sandboxed' = TRUE
  BY DEF EnterSandbox, Running, IsAt
<1>2. /\ t \in FrameState /\ path \in Seq(Renders) /\ past \in PastState /\ t = Last(fs)
      /\ fs \in Seq(FrameState) /\ sandboxed \in BOOLEAN
  BY <1>1, EnvTypes, TopOfRender DEF Top
<1>. HIDE DEF t
<1>3. /\ f \in FrameState /\ f.stage = "run"
      /\ f.sandboxed = t.sandboxed /\ f.already = t.already /\ f.tag = <<sandboxed>>
      /\ f.print = t.print /\ f.ignoreMissing = t.ignoreMissing
  <2>1. <<sandboxed>> \in {<< >>, <<TRUE>>, <<FALSE>>}
    BY <1>2
  <2>2. \A x \in {<< >>, <<TRUE>>, <<FALSE>>} :
            LET g == [t EXCEPT !.tag = x]
            IN  /\ g \in FrameState /\ g.sandboxed = t.sandboxed /\ g.stage = t.stage
                /\ g.already = t.already /\ g.tag = x
                /\ g.print = t.print /\ g.ignoreMissing = t.ignoreMissing
    BY <1>1, <1>2 DEF FrameState
  <2> QED
    BY <1>1, <2>1, <2>2
<1>. HIDE DEF f, fs, before
<1>4. ASSUME TopScoped(t, sandboxed) PROVE TopScoped(f, sandboxed')
  <2>1. (t.sandboxed \/ t.already) <=> sandboxed
    <3>1. t.stage # "return" /\ t.tag = << >>
      BY <1>1
    <3> QED
      BY <1>4, <3>1, Zenon DEF TopScoped, On
  <2>2. f.tag # << >> /\ (f.tag = <<TRUE>> => sandboxed) /\ (f.tag = <<FALSE>> => ~sandboxed)
    <3>1. CASE sandboxed = TRUE
      BY <1>3, <3>1
    <3>2. CASE sandboxed = FALSE
      <4>1. f.tag = <<FALSE>> /\ ~sandboxed
        BY <1>3, <3>2
      <4>2. <<FALSE>> # << >> /\ <<FALSE>> # <<TRUE>>
        OBVIOUS
      <4> QED
        BY <4>1, <4>2
    <3> QED
      BY <1>2, <3>1, <3>2
  <2>3. sandboxed'
    BY <1>1
  <2> QED
    BY <1>3, <2>1, <2>2, <2>3, Zenon DEF TopScoped, TagRight, On
<1>5. ASSUME Alone(r), Traced(r, fs, path, before)
      PROVE  Traced(r, Append(Front(fs), f), path', before)
  <2>1. ~t.print
    BY <1>1, <1>5, LastIsNoPrint DEF t, fs
  <2>2. Blocks(f) = Blocks(t)
    BY <1>1, <1>3 DEF Blocks
  <2> QED
    BY <1>1, <1>2, <1>3, <1>5, <2>1, <2>2, TracedTop
<1>6. past' \in PastState /\ path' \in Seq(Renders) /\ past'.of = past.of
      /\ past'.leaked = past.leaked
  BY <1>1, <1>2
<1> QED
  BY <1>1, <1>3, <1>4, <1>5, <1>6, TopAlone DEF t, fs, before

LEMMA LeaveSandboxAlone ==
    ASSUME EnvInv, FlagInv', NEW r \in Renders, LeaveSandbox(r)
    PROVE  EnvInv'
<1>. DEFINE t == Top(r)
            f == [t EXCEPT !.tag = << >>, !.stage = "continue"]
            fs == frames[r]
            before == past.of[r].path
<1>1. /\ fs # << >> /\ outcome' = outcome /\ past' = past /\ path' = path
      /\ t.stage = "run" /\ t.tag # << >>
      /\ frames' = WithTop(r, f) /\ sandboxed' = (sandboxed /\ t.tag[1])
  BY DEF LeaveSandbox, IsAt
<1>2. /\ t \in FrameState /\ path \in Seq(Renders) /\ past \in PastState /\ t = Last(fs)
      /\ fs \in Seq(FrameState) /\ sandboxed \in BOOLEAN
  BY <1>1, EnvTypes, TopOfRender DEF Top
<1>. HIDE DEF t
<1>3. /\ f \in FrameState /\ f.stage = "continue"
      /\ f.sandboxed = t.sandboxed /\ f.already = t.already /\ f.tag = << >>
      /\ f.print = t.print /\ f.ignoreMissing = t.ignoreMissing
  BY <1>2 DEF FrameState, Stages
<1>4. \/ t.tag = <<TRUE>> /\ (sandboxed' <=> sandboxed)
      \/ t.tag = <<FALSE>> /\ ~sandboxed'
  <2>1. t.tag = <<TRUE>> \/ t.tag = <<FALSE>>
    BY <1>1, <1>2, FrameFields
  <2>2. <<TRUE>>[1] = TRUE /\ <<FALSE>>[1] = FALSE
    OBVIOUS
  <2> QED
    BY <1>1, <2>1, <2>2
<1>. HIDE DEF f, fs, before
<1>5. ASSUME TopScoped(t, sandboxed) PROVE TopScoped(f, sandboxed')
  <2>1. t.stage # "return" /\ t.tag # << >>
    BY <1>1
  <2>2. ~(f.tag # << >>) /\ f.tag # <<TRUE>> /\ f.tag # <<FALSE>> /\ <<TRUE>> # <<FALSE>>
    BY <1>3
  <2>3. f.sandboxed = t.sandboxed /\ f.already = t.already
    BY <1>3
  <2> QED
    BY <1>4, <1>5, <2>1, <2>2, <2>3, Zenon DEF TopScoped, TagRight, On
<1>6. ASSUME Alone(r), Traced(r, fs, path, before)
      PROVE  Traced(r, Append(Front(fs), f), path', before)
  <2>1. Blocks(f) = Blocks(t)
    BY <1>1, <1>3 DEF Blocks
  <2> QED
    BY <1>1, <1>2, <1>3, <1>6, <2>1, TracedTop
<1>7. past' \in PastState /\ path' \in Seq(Renders) /\ past'.of = past.of
      /\ past'.leaked = past.leaked
  BY <1>1, <1>2
<1> QED
  BY <1>1, <1>3, <1>5, <1>6, <1>7, TopAlone DEF t, fs, before

(* A template waits for the one that it includes.                          *)
LEMMA IncludesAlone ==
    ASSUME EnvInv, FlagInv', NEW r \in Renders, frames[r] # << >>, Top(r).stage = "run",
           NEW isSandboxed \in BOOLEAN, NEW ignoreMissing \in BOOLEAN, NEW print \in BOOLEAN,
           Waiting(r, Frame(isSandboxed, ignoreMissing), print),
           sandboxed' = (sandboxed \/ isSandboxed),
           path' = IF print THEN Append(path, r) ELSE path,
           UNCHANGED <<outcome, past>>
    PROVE  EnvInv'
<1>. DEFINE t == Top(r)
            fs == frames[r]
            w == [t EXCEPT !.stage = "await", !.print = print]
            f == Frame(isSandboxed, ignoreMissing)
            gs == Append(Front(fs), w)
            hs == Append(gs, f)
            before == past.of[r].path
<1>1. /\ t \in FrameState /\ path \in Seq(Renders) /\ past \in PastState /\ t = Last(fs)
      /\ fs \in Seq(FrameState) /\ Front(fs) \in Seq(FrameState) /\ sandboxed \in BOOLEAN
      /\ before \in Seq(Renders)
      /\ Alone(r) /\ ~past.leaked => Scoped(fs, sandboxed)
      /\ Alone(r) => Traced(r, fs, path, before)
  BY EnvTypes, TopOfRender DEF Top
<1>2. frames' = [frames EXCEPT ![r] = hs]
  BY DEF Waiting
<1>3. Alone(r) => ~t.print
  BY LastIsNoPrint
<1>4. t.stage = "run"
  OBVIOUS
<1>. HIDE DEF t
<1>5. /\ w \in FrameState /\ w.stage = "await" /\ w.print = print
      /\ w.sandboxed = t.sandboxed /\ w.already = t.already /\ w.tag = t.tag
      /\ w.ignoreMissing = t.ignoreMissing
  BY <1>1 DEF FrameState, Stages
<1>6. /\ f \in FrameState /\ f.stage = "resolve" /\ f.print = FALSE /\ f.tag = << >>
      /\ f.sandboxed = isSandboxed /\ f.already = sandboxed
  BY <1>1 DEF Frame, FrameState, Stages
<1>. HIDE DEF w, f
<1>7. gs \in Seq(FrameState) /\ Last(gs) = w
  BY <1>1, <1>5, AppendIs
<1>8. ASSUME Alone(r), ~past.leaked PROVE Scoped(hs, sandboxed')
  <2>1. Scoped(gs, sandboxed)
    <3>1. TopScoped(t, sandboxed) /\ t.stage # "return"
      BY <1>1, <1>4, <1>8, ScopedFront
    <3>2. TopScoped(w, sandboxed)
      BY <1>5, <3>1, Zenon DEF TopScoped, TagRight, On
    <3> QED
      BY <1>1, <1>5, <1>8, <3>2, ScopedTop
  <2>2. w.stage # "return"
    BY <1>5
  <2>3. Nested(gs) /\ (sandboxed <=> OnAny(gs))
    BY <1>7, <2>1, <2>2, Zenon DEF Scoped
  <2>. HIDE DEF gs
  <2>4. TopScoped(f, sandboxed')
    <3>1. ~(f.tag # << >>) /\ f.tag # <<TRUE>> /\ f.tag # <<FALSE>>
      BY <1>6
    <3>2. f.sandboxed = isSandboxed /\ f.already = sandboxed
      BY <1>6
    <3>3. sandboxed' = (sandboxed \/ isSandboxed)
      OBVIOUS
    <3> QED
      BY <3>1, <3>2, <3>3, Zenon DEF TopScoped, TagRight, On
  <2>5. f.already <=> OnAny(gs)
    BY <1>6, <2>3, Zenon
  <2> QED
    BY <1>6, <1>7, <2>3, <2>4, <2>5, ScopedAppend
<1>9. ASSUME Alone(r) PROVE Traced(r, hs, path', before)
  <2>1. ASSUME NEW m \in Nat, path = PathOf(r, before, m + Blocks(t))
        PROVE  path' = PathOf(r, before, m + Blocks(w))
    <3>. DEFINE n == m + Blocks(t)
    <3>1. n \in Nat
      BY BlocksAre
    <3>2. Blocks(t) = 1 /\ Blocks(w) = IF print THEN 2 ELSE 1
      BY <1>3, <1>4, <1>5, <1>9 DEF Blocks
    <3>. HIDE DEF n
    <3>3. Append(PathOf(r, before, n), r) = PathOf(r, before, n + 1)
      BY <1>1, <3>1, PathsOf
    <3>4. CASE print
      <4>1. Blocks(w) = Blocks(t) + 1 /\ path' = Append(path, r) /\ n + 1 = m + Blocks(w)
        BY <3>2, <3>4 DEF n
      <4> QED
        BY <2>1, <3>3, <4>1 DEF n
    <3>5. CASE ~print
      <4>1. Blocks(w) = Blocks(t) /\ path' = path
        BY <3>2, <3>5
      <4> QED
        BY <2>1, <4>1
    <3> QED
      BY <3>4, <3>5
  <2>2. Traced(r, gs, path', before)
    <3>. HIDE DEF fs, before
    <3> QED
      BY <1>1, <1>4, <1>5, <1>9, <2>1, TracedTop
  <2>. HIDE DEF gs
  <2> QED
    BY <1>5, <1>6, <1>7, <2>2, TracedPush
<1>10. /\ past' = past /\ path' \in Seq(Renders)
       /\ \A u \in Renders : u # r => outcome'[u] = outcome[u]
  <2>1. Append(path, r) \in Seq(Renders)
    BY <1>1
  <2> QED
    BY <1>1, <2>1
<1>. HIDE DEF hs, fs, before
<1>11. /\ Alone(r) /\ outcome'[r] = "running" /\ ~past'.leaked => Scoped(hs, sandboxed')
       /\ Alone(r) /\ outcome'[r] = "running" => Traced(r, hs, path', past.of[r].path)
  BY <1>8, <1>9, <1>10 DEF before
<1> QED
  BY <1>1, <1>2, <1>10, <1>11, AloneStep

(* A promise settles, and the template below goes on or fails.             *)
LEMMA LeavesAlone ==
    ASSUME EnvInv, FlagInv', NEW r \in Renders, Return(r) \/ Unwind(r)
    PROVE  EnvInv'
<1>. DEFINE t == Top(r)
            fs == frames[r]
            bs == Front(fs)
            before == past.of[r].path
<1>1. /\ fs # << >> /\ path' = path /\ restoreSandbox(t)
      /\ t.stage \in {"return", "failed"}
  BY DEF Return, Unwind, IsAt
<1>2. /\ t \in FrameState /\ path \in Seq(Renders) /\ past \in PastState /\ t = Last(fs)
      /\ fs \in Seq(FrameState) /\ sandboxed \in BOOLEAN /\ past.leaked \in BOOLEAN
      /\ outcome \in [Renders -> {"waiting", "running", "fulfilled", "rejected"}]
      /\ Alone(r) /\ ~past.leaked => Scoped(fs, sandboxed)
      /\ Alone(r) => Traced(r, fs, path, before)
  BY <1>1, EnvTypes, TopOfRender DEF Top, FlagInv
<1>3. sandboxed' \in BOOLEAN /\ (sandboxed' <=> sandboxed /\ ~(t.sandboxed /\ ~t.already))
  BY <1>1, <1>2, RestoredFlag
<1>4. /\ past' \in PastState /\ past'.of = past.of /\ (past.leaked => past'.leaked)
      /\ ~past'.leaked => t.tag # <<FALSE>>
      /\ t.stage = "return" => past'.leaked = past.leaked
  <2>1. CASE Return(r)
    <3>1. past' = past /\ t.stage = "return" /\ t.tag = << >>
      BY <1>2, <2>1, FrameFields DEF Return, IsAt
    <3> QED
      BY <1>2, <3>1
  <2>2. CASE Unwind(r)
    <3>1. past' = [past EXCEPT !.leaked = @ \/ t.tag = <<FALSE>>] /\ t.stage = "failed"
      BY <2>2 DEF Unwind, IsAt
    <3>. HIDE DEF t
    <3>2. PICK l \in BOOLEAN : l <=> past.leaked \/ t.tag = <<FALSE>>
      BY <1>2
    <3>3. past' = [past EXCEPT !.leaked = l]
      BY <1>2, <3>1, <3>2
    <3>4. past' \in PastState /\ past'.of = past.of /\ past'.leaked = l
      BY <1>2, <3>3 DEF PastState
    <3> QED
      BY <3>1, <3>2, <3>4
  <2> QED
    BY <2>1, <2>2
<1>5. CASE Len(fs) = 1
  <2>1. /\ frames' = [frames EXCEPT ![r] = << >>]
        /\ outcome' = [outcome EXCEPT ![r] = "fulfilled"] \/ outcome' = [outcome EXCEPT ![r] = "rejected"]
    BY <1>5 DEF Return, Unwind
  <2>2. outcome'[r] # "running" /\ \A u \in Renders : u # r => outcome'[u] = outcome[u]
    BY <1>2, <2>1
  <2> QED
    BY <1>1, <1>2, <1>4, <2>1, <2>2, AloneStep
<1>6. CASE Len(fs) # 1
  <2>. DEFINE stage == IF t.stage = "return" THEN "continue" ELSE "failed"
              b == Last(bs)
              g == [b EXCEPT !.stage = stage]
              gs == Append(Front(bs), g)
  <2>1. frames' = [frames EXCEPT ![r] = gs] /\ outcome' = outcome
    <3>1. Return(r) => stage = "continue"
      BY DEF Return, IsAt
    <3>2. Unwind(r) => stage = "failed"
      BY DEF Unwind, IsAt
    <3> QED
      BY <1>6, <3>1, <3>2 DEF Return, Unwind
  <2>2. bs \in Seq(FrameState) /\ bs # << >> /\ b \in FrameState /\ stage \in Stages
    <3>1. bs \in Seq(FrameState) /\ Len(bs) = Len(fs) - 1 /\ Len(fs) \in Nat \ {0}
      BY <1>1, <1>2, FrontIs
    <3>2. bs # << >>
      <4>. HIDE DEF bs, fs
      <4> QED
        BY <1>6, <3>1
    <3> QED
      BY <3>1, <3>2, FrontIs DEF Stages
  <2>. HIDE DEF t, b, stage
  <2>3. /\ g \in FrameState /\ g.stage = stage
        /\ g.sandboxed = b.sandboxed /\ g.already = b.already /\ g.tag = b.tag
        /\ g.print = b.print /\ g.ignoreMissing = b.ignoreMissing
    <3>1. stage \notin {"resolve", "display", "return"}
      BY DEF stage
    <3> QED
      BY <2>2, <3>1, InStage
  <2>. HIDE DEF g
  <2>4. ASSUME Alone(r) PROVE Last(bs).stage = "await"
    <3>1. fs # << >> /\ Stacked(fs)
      BY <1>2, <2>4 DEF Traced
    <3> QED
      BY <1>2, <1>6, <3>1, StackedFront
  <2>5. ASSUME Alone(r), ~past'.leaked PROVE Scoped(gs, sandboxed')
    <3>1. Scoped(fs, sandboxed) /\ Last(fs).tag # <<FALSE>>
      BY <1>2, <1>4, <2>5 DEF t
    <3>2. sandboxed' <=> sandboxed /\ ~(Last(fs).sandboxed /\ ~Last(fs).already)
      BY <1>2, <1>3
    <3>3. Scoped(bs, sandboxed')
      BY <1>2, <1>6, <3>1, <3>2, ScopedLeaves
    <3>4. TopScoped(b, sandboxed') /\ b.stage # "return"
      BY <2>2, <2>4, <2>5, <3>3, ScopedFront DEF b
    <3>5. TopScoped(g, sandboxed')
      BY <2>3, <3>4, Zenon DEF TopScoped, TagRight, On
    <3>. HIDE DEF bs
    <3> QED
      BY <2>2, <2>3, <3>3, <3>5, ScopedTop DEF b
  <2>6. ASSUME Alone(r) PROVE Traced(r, gs, path', before)
    <3>1. Traced(r, fs, path, before) /\ Stacked(fs) /\ fs # << >>
      BY <1>2, <2>6 DEF Traced
    <3>2. CASE t.stage = "return"
      <4>1. Traced(r, bs, path, before) /\ b.stage = "await"
        BY <1>2, <1>6, <3>1, <3>2, TracedReturns DEF b
      <4>2. g.stage = "continue" /\ Blocks(g) = Blocks(b)
        BY <2>3, <3>2, <4>1 DEF Blocks, stage
      <4>. HIDE DEF bs
      <4> QED
        BY <1>1, <2>2, <2>3, <4>1, <4>2, TracedTop DEF b
    <3>3. CASE t.stage # "return"
      <4>1. g.stage = "failed"
        BY <2>3, <3>3 DEF stage
      <4>2. Stacked(bs)
        BY <1>2, <1>6, <3>1, StackedFront
      <4>. HIDE DEF bs
      <4> QED
        BY <2>2, <2>3, <4>1, <4>2, FailedIsTraced DEF b
    <3> QED
      BY <3>2, <3>3
  <2>7. path' \in Seq(Renders) /\ \A u \in Renders : u # r => outcome'[u] = outcome[u]
    BY <1>1, <1>2, <2>1
  <2>. HIDE DEF gs, fs, before
  <2>8. /\ Alone(r) /\ outcome'[r] = "running" /\ ~past'.leaked => Scoped(gs, sandboxed')
        /\ Alone(r) /\ outcome'[r] = "running" => Traced(r, gs, path', past.of[r].path)
    BY <2>5, <2>6 DEF before
  <2> QED
    BY <1>1, <1>4, <2>1, <2>7, <2>8, AloneStep DEF fs
<1> QED
  BY <1>5, <1>6

(* A render begins: those in progress overlap it, and when there is none   *)
(* the flag has been restored.                                             *)
LEMMA RenderAlone ==
    ASSUME EnvInv, FlagInv', NEW r \in Renders, Render(r)
    PROVE  EnvInv'
<1>. DEFINE f == Frame(FALSE, FALSE)
            others == {s \in Renders : outcome[s] = "running"}
            one == [path |-> path, overlapped |-> others # {}]
<1>1. /\ outcome[r] = "waiting" /\ path' = path /\ sandboxed' = sandboxed
      /\ frames' = [frames EXCEPT ![r] = <<f>>]
      /\ outcome' = [outcome EXCEPT ![r] = "running"]
  BY DEF Render
<1>2. /\ past \in PastState /\ path \in Seq(Renders) /\ sandboxed \in BOOLEAN
      /\ FlagInv /\ OverlapInv
      /\ outcome \in [Renders -> {"waiting", "running", "fulfilled", "rejected"}]
      /\ frames \in [Renders -> Seq(FrameState)]
  BY EnvTypes DEF FlagInv
<1>3. /\ past'.of = [s \in Renders |->
                       IF s = r THEN one
                       ELSE IF s \in others THEN [past.of[s] EXCEPT !.overlapped = TRUE] ELSE past.of[s]]
      /\ past'.leaked = past.leaked /\ past' \in PastState
  <2>. DEFINE of == [s \in Renders |->
                       IF s = r THEN one
                       ELSE IF s \in others THEN [past.of[s] EXCEPT !.overlapped = TRUE] ELSE past.of[s]]
  <2>1. past' = [past EXCEPT !.of = of]
    BY DEF Render
  <2>2. of \in [Renders -> [path : Seq(Renders), overlapped : BOOLEAN]]
    <3>1. one \in [path : Seq(Renders), overlapped : BOOLEAN]
      BY <1>2
    <3>. HIDE DEF one, others
    <3>2. ASSUME NEW s \in Renders
          PROVE  [past.of[s] EXCEPT !.overlapped = TRUE] \in [path : Seq(Renders), overlapped : BOOLEAN]
                 /\ past.of[s] \in [path : Seq(Renders), overlapped : BOOLEAN]
      <4>1. past.of[s] \in [path : Seq(Renders), overlapped : BOOLEAN]
        BY <1>2 DEF PastState
      <4> QED
        BY <4>1
    <3> QED
      BY <3>1, <3>2
  <2>. HIDE DEF of
  <2>3. past'.of = of /\ past'.leaked = past.leaked /\ past' \in PastState
    BY <1>2, <2>1, <2>2 DEF PastState
  <2> QED
    BY <2>3 DEF of
<1>4. /\ past'.of[r].path = path
      /\ past'.of[r].overlapped <=> \E s \in Renders : outcome[s] = "running"
      /\ \A s \in Renders : s # r /\ outcome[s] = "running" => past'.of[s].overlapped
  <2>1. past'.of[r] = one /\ one.path = path /\ one.overlapped = (others # {})
    BY <1>3
  <2>2. ASSUME NEW s \in Renders, s # r, outcome[s] = "running" PROVE past'.of[s].overlapped
    <3>1. past'.of[s] = [past.of[s] EXCEPT !.overlapped = TRUE]
      BY <1>3, <2>2
    <3>2. past.of[s] \in [path : Seq(Renders), overlapped : BOOLEAN]
      BY <1>2 DEF PastState
    <3> QED
      BY <3>1, <3>2
  <2>3. others # {} <=> \E s \in Renders : outcome[s] = "running"
    OBVIOUS
  <2>. HIDE DEF one, others
  <2>4. past'.of[r].path = path /\ past'.of[r].overlapped = (others # {})
    BY <2>1
  <2> QED
    BY <2>2, <2>3, <2>4, Zenon
<1>5. /\ outcome'[r] = "running" /\ frames'[r] = <<f>>
      /\ \A s \in Renders : s # r => outcome'[s] = outcome[s]
  BY <1>1, <1>2
<1>6. ASSUME NEW u \in Renders, NEW v \in Renders,
             outcome'[u] = "running", outcome'[v] = "running", u # v
      PROVE  past'.of[u].overlapped
  <2>1. CASE u = r
    BY <1>4, <1>5, <1>6, <2>1
  <2>2. CASE u # r
    BY <1>4, <1>5, <1>6, <2>2
  <2> QED
    BY <2>1, <2>2
<1>7. ASSUME NEW u \in Renders, Alone(u)' PROVE u = r /\ \A s \in Renders : outcome[s] # "running"
  <2>1. outcome'[u] = "running" /\ ~past'.of[u].overlapped
    BY <1>7 DEF Alone
  <2>2. u = r
    BY <1>4, <1>5, <2>1
  <2> QED
    BY <1>4, <2>1, <2>2
<1>8. f \in FrameState /\ f.stage = "resolve" /\ ~f.print /\ ~f.ignoreMissing
      /\ f.sandboxed = FALSE /\ f.already = sandboxed /\ f.tag = << >>
  BY <1>2 DEF Frame, FrameState, Stages
<1>9. << >> \in Seq(FrameState) /\ Append(<< >>, f) = <<f>>
  BY <1>8
<1>. HIDE DEF f, others, one
<1>10. <<f>> \in Seq(FrameState) /\ <<f>> # << >> /\ Last(<<f>>) = f
  <2>1. Append(<< >>, f) \in Seq(FrameState) /\ Append(<< >>, f) # << >> /\ Last(Append(<< >>, f)) = f
    BY <1>8, <1>9, AppendIs
  <2> QED
    BY <1>9, <2>1
<1>11. ASSUME \A s \in Renders : outcome[s] # "running", ~past.leaked
       PROVE  Scoped(<<f>>, sandboxed)
  <2>1. ~sandboxed
    <3>1. SUFFICES ASSUME sandboxed PROVE FALSE
      OBVIOUS
    <3>2. PICK s \in Renders : HasOwner(frames[s])
      BY <1>2, <1>11, <3>1 DEF FlagInv
    <3>3. frames[s] # << >>
      BY <3>2 DEF HasOwner
    <3> QED
      BY <1>2, <1>11, <3>3 DEF FlagInv
  <2>2. Nested(<< >>) /\ ~OnAny(<< >>)
    BY DEF Nested, OnAny
  <2>3. ~(f.tag # << >>) /\ f.tag # <<TRUE>> /\ f.tag # <<FALSE>>
    BY <1>8
  <2>4. TopScoped(f, sandboxed) /\ ~f.already
    BY <1>8, <2>1, <2>3, Zenon DEF TopScoped, TagRight, On
  <2>5. f.already <=> OnAny(<< >>)
    BY <2>2, <2>4, Zenon
  <2>6. Scoped(Append(<< >>, f), sandboxed)
    BY <1>8, <1>9, <2>2, <2>4, <2>5, ScopedAppend
  <2> QED
    BY <1>9, <2>6
<1>12. Traced(r, <<f>>, path, path)
  <2>1. Stacked(<<f>>)
    BY <1>8 DEF Stacked
  <2>2. Blocks(f) = 0 /\ 0 + 0 = 0
    BY <1>8 DEF Blocks
  <2>3. Open(Append(<< >>, f), 0)
    <3>1. Open(Append(<< >>, f), 0 + Blocks(f))
      BY <1>8, <1>9, OpenAppend, OpenNone
    <3> QED
      BY <2>2, <3>1
  <2>4. Open(<<f>>, 0)
    BY <1>9, <2>3
  <2>5. path = PathOf(r, path, 0) /\ f.stage # "return"
    BY <1>2, <1>8, PathsOf
  <2> QED
    BY <1>10, <2>1, <2>4, <2>5 DEF Traced
<1>13. OverlapInv'
  BY <1>1, <1>2, <1>3, <1>6 DEF OverlapInv
<1>14. ScopeInv'
  <2>1. SUFFICES ASSUME NEW u \in Renders, Alone(u)', ~past'.leaked
                 PROVE  Scoped(frames'[u], sandboxed')
    BY DEF ScopeInv
  <2> QED
    BY <1>1, <1>3, <1>5, <1>7, <1>11, <2>1
<1>15. TraceInv'
  <2>1. SUFFICES ASSUME NEW u \in Renders, Alone(u)'
                 PROVE  Traced(u, frames'[u], path', past'.of[u].path)
    BY DEF TraceInv
  <2> QED
    BY <1>1, <1>4, <1>5, <1>7, <1>12, <2>1
<1> QED
  BY <1>13, <1>14, <1>15 DEF EnvInv

LEMMA EnvInit == Init => EnvInv
<1>. SUFFICES ASSUME Init PROVE EnvInv
  OBVIOUS
<1>1. FlagInv
  BY InitFlag
<1>2. /\ path = << >> /\ outcome = [r \in Renders |-> "waiting"]
      /\ past = [of |-> [r \in Renders |-> NoPast], leaked |-> FALSE]
  BY DEF Init
<1>3. \A r \in Renders : outcome[r] # "running"
  BY <1>2
<1>4. past \in PastState /\ path \in Seq(Renders)
  <2>1. NoPast \in [path : Seq(Renders), overlapped : BOOLEAN] /\ << >> \in Seq(Renders)
    BY DEF NoPast
  <2> QED
    BY <1>2, <2>1 DEF PastState
<1>5. OverlapInv
  BY <1>3, <1>4 DEF OverlapInv
<1>6. ScopeInv /\ TraceInv
  BY <1>3 DEF ScopeInv, TraceInv, Alone
<1> QED
  BY <1>1, <1>5, <1>6 DEF EnvInv

LEMMA EnvStep == EnvInv /\ [Next]_vars => EnvInv'
<1>. SUFFICES ASSUME EnvInv, [Next]_vars PROVE EnvInv'
  OBVIOUS
<1>1. FlagInv'
  BY StepFlag DEF EnvInv
<1>2. CASE UNCHANGED runtimeVars
  <2>1. UNCHANGED <<sandboxed, path, frames, outcome, past>>
    BY <1>2 DEF runtimeVars
  <2> QED
    BY <1>1, <2>1 DEF EnvInv, OverlapInv, ScopeInv, TraceInv, Alone
<1>3. ASSUME NEW r \in Renders, IncludeFunction(r) PROVE EnvInv'
  <2>1. PICK isSandboxed \in BOOLEAN, ignoreMissing \in BOOLEAN :
          /\ Waiting(r, Frame(isSandboxed, ignoreMissing), TRUE)
          /\ sandboxed' = (sandboxed \/ isSandboxed)
    BY <1>3 DEF IncludeFunction
  <2>2. /\ frames[r] # << >> /\ Top(r).stage = "run" /\ UNCHANGED <<outcome, past>>
        /\ path' = IF TRUE THEN Append(path, r) ELSE path
    BY <1>3 DEF IncludeFunction, Running, IsAt, enterSourceMapBlock
  <2> QED
    BY <1>1, <2>1, <2>2, IncludesAlone
<1>4. ASSUME NEW r \in Renders, IncludeTag(r) PROVE EnvInv'
  <2>1. PICK ignoreMissing \in BOOLEAN : Waiting(r, Frame(FALSE, ignoreMissing), FALSE)
    BY <1>4 DEF IncludeTag
  <2>2. /\ frames[r] # << >> /\ Top(r).stage = "run" /\ UNCHANGED <<outcome, past>>
        /\ path' = IF FALSE THEN Append(path, r) ELSE path
        /\ sandboxed' = (sandboxed \/ FALSE)
    BY <1>4, EnvTypes DEF IncludeTag, Running, IsAt
  <2> QED
    BY <1>1, <2>1, <2>2, IncludesAlone
<1>5. CASE Next
  <2>1. CASE Register
    BY <1>2, <2>1 DEF Register
  <2> QED
    BY <1>1, <1>3, <1>4, <1>5, <2>1, RenderAlone, ResolveAlone, MissingAlone,
       IncludeNothingAlone, EnterSandboxAlone, LeaveSandboxAlone, EndDisplayAlone,
       LeavesAlone, ContinueAlone DEF Next
<1> QED
  BY <1>2, <1>5 DEF vars

(* While a render runs that no other one overlaps, its templates find the  *)
(* environment sandboxed exactly if one of them was included in the        *)
(* sandbox or has a sandbox tag open, for any depth of includes and        *)
(* whatever fails, unless an error has crossed a sandbox tag or an include *)
(* of nothing (include.ts, node/sandbox.ts).                               *)
THEOREM SandboxFollows == Spec => []SandboxFollowsIncludes
<1>1. EnvInv => SandboxFollowsIncludes
  <2>1. SUFFICES ASSUME EnvInv, NEW r \in Renders, outcome[r] = "running",
                        ~past.of[r].overlapped, ~past.leaked, ~IsAt(r, "return")
                 PROVE  sandboxed = \E i \in DOMAIN frames[r] :
                                       frames[r][i].sandboxed \/ frames[r][i].tag # << >>
    BY DEF SandboxFollowsIncludes
  <2>2. Scoped(frames[r], sandboxed) /\ sandboxed \in BOOLEAN /\ frames[r] \in Seq(FrameState)
    BY <2>1, EnvTypes DEF Alone
  <2>3. frames[r] # << >> /\ Last(frames[r]).stage # "return"
    BY <2>1, <2>2 DEF Scoped, IsAt, Top
  <2>4. sandboxed <=> OnAny(frames[r])
    BY <2>2, <2>3, Zenon DEF Scoped
  <2>5. DOMAIN frames[r] = 1 .. Len(frames[r])
    BY <2>2
  <2>6. OnAny(frames[r]) <=> \E i \in DOMAIN frames[r] :
                                frames[r][i].sandboxed \/ frames[r][i].tag # << >>
    BY <2>5 DEF OnAny, On
  <2>7. CASE sandboxed = TRUE
    BY <2>4, <2>6, <2>7
  <2>8. CASE sandboxed = FALSE
    BY <2>4, <2>6, <2>8
  <2> QED
    BY <2>2, <2>7, <2>8
<1> QED
  BY <1>1, EnvInit, EnvStep, PTL DEF Spec

(* A render that no other one overlaps and that is fulfilled has ended     *)
(* each source map block it has entered: the environment is back at the    *)
(* node that was current when the render began, however many templates it  *)
(* has included and whatever earlier renders have left behind              *)
(* (environment.ts enterSourceMapBlock and leaveSourceMapBlock).           *)
THEOREM BlocksAreEnded == Spec => []BlocksEnded
<1>1. EnvInv => BlocksEnded
  <2>. SUFFICES ASSUME EnvInv, NEW r \in Renders, IsAt(r, "return"), Len(frames[r]) = 1,
                       ~past.of[r].overlapped
                PROVE  path = IF past.of[r].path = << >> THEN <<r>> ELSE past.of[r].path
    BY DEF BlocksEnded
  <2>. DEFINE fs == frames[r]
              before == past.of[r].path
  <2>1. fs # << >> /\ Last(fs).stage = "return" /\ fs \in Seq(FrameState)
        /\ before \in Seq(Renders) /\ Alone(r) /\ Traced(r, fs, path, before)
    BY EnvTypes DEF IsAt, Top, FlagInv, Alone
  <2>2. PICK n \in Nat :
          /\ Open(fs, n)
          /\ path = IF before = << >> THEN <<r>> ELSE PathOf(r, before, n)
    BY <2>1 DEF Traced
  <2>3. PICK m \in Nat : Open(Front(fs), m) /\ n = m + Blocks(Last(fs))
    BY <2>1, <2>2, OpenFront
  <2>4. m = 0 /\ Blocks(Last(fs)) = 0 /\ 0 + 0 = 0
    BY <2>1, <2>3, OpenBelow DEF Traced, Blocks
  <2>5. PathOf(r, before, 0) = before /\ n = 0
    BY <2>1, <2>3, <2>4, PathsOf
  <2> QED
    BY <2>2, <2>5
<1> QED
  BY <1>1, EnvInit, EnvStep, PTL DEF Spec

-----------------------------------------------------------------------------
(* The extension set. What it consists of.                                 *)

Definitions == Direct \cup UNION {ToSet(Provides[e]) : e \in DOMAIN Provides}
Names == {d.name : d \in Definitions}
Origins == {Own} \cup DOMAIN Provides
Entry(d, by) == [kind |-> d.kind, name |-> d.name, by |-> by]
Entries == [kind : {d.kind : d \in Definitions}, name : Names, by : Origins]
Labels == Names \X Origins

(* An initialisation, or an addition, under way.                           *)
Additions == [registry : SUBSET Entries, visitors : Seq(Labels), thrown : BOOLEAN]

Named(d) == d.kind # "visitor"
Unique(reg) == \A a, b \in reg : a.kind = b.kind /\ a.name = b.name => a = b
At(vs, v) == {n \in DOMAIN vs : vs[n] = v}

(* An extension clashes with what is there, is registered with all it      *)
(* provides, has no visitor, each of its visitors once; those of the       *)
(* others stay where they are.                                             *)
Clashes(r, e) == \E d \in ToSet(Provides[e]) : Named(d) /\ Has(r, d)
Registered(r, e) == \A d \in ToSet(Provides[e]) : Named(d) => Entry(d, e) \in r.registry
NoneBy(vs, e) == \A x \in Names : At(vs, <<x, e>>) = {}
EachOnce(vs, e) == \A d \in ToSet(Provides[e]) : ~Named(d) => \E i \in DOMAIN vs : At(vs, <<d.name, e>>) = {i}
Apart(us, vs, e) == \A v \in Labels : v[2] # e => At(vs, v) = At(us, v)

Current == [registry |-> registry, visitors |-> visitors, thrown |-> FALSE]

(* A set that has failed is never initialised: what has clashed is still   *)
(* registered, and still provided, when it is tried again. Until then only *)
(* the program has added visitors.                                         *)
SetInv ==
    /\ extensions \in Seq(DOMAIN Provides)
    /\ \A i, j \in 1 .. Len(extensions) : extensions[i] = extensions[j] => i = j
    /\ registry \in SUBSET Entries
    /\ visitors \in Seq(Labels)
    /\ initialized \in BOOLEAN
    /\ failed \in BOOLEAN
    /\ Unique(registry)
    /\ failed => ~initialized /\ \E i \in 1 .. Len(extensions) : Clashes(Current, extensions[i])
    /\ ~failed /\ ~initialized => \A n \in 1 .. Len(visitors) : visitors[n][2] = Own
    /\ initialized => \A i \in 1 .. Len(extensions) :
                        Registered(Current, extensions[i]) /\ EachOnce(visitors, extensions[i])

-----------------------------------------------------------------------------
(* One addition, the additions of an extension and those of all.           *)

LEMMA LeastNat ==
    ASSUME NEW T \in SUBSET Nat, T # {}
    PROVE  \E n \in T : \A m \in T : ~ (m < n)
<1>1. IsWellFoundedOn(OpToRel(<, Nat), Nat)
  BY NatLessThanWellFounded
<1>2. \E n \in T : \A m \in T : ~ (<<m, n>> \in OpToRel(<, Nat))
  BY <1>1, WFMin
<1> QED
  BY <1>2 DEF OpToRel

LEMMA ProvidedSeq ==
    ASSUME NEW e \in DOMAIN Provides
    PROVE  /\ Len(Provides[e]) \in Nat
           /\ DOMAIN Provides[e] = 1 .. Len(Provides[e])
           /\ \A n \in 1 .. Len(Provides[e]) : Provides[e][n] \in ToSet(Provides[e])
           /\ \A d \in ToSet(Provides[e]) : \E n \in 1 .. Len(Provides[e]) : d = Provides[e][n]
           /\ ToSet(Provides[e]) \subseteq Definitions
<1>1. Provides[e] \in Seq(ToSet(Provides[e]))
  BY ExtensionSetAssumption
<1>2. /\ Len(Provides[e]) \in Nat
      /\ DOMAIN Provides[e] = 1 .. Len(Provides[e])
  BY <1>1
<1>3. ToSet(Provides[e]) \subseteq Definitions
  BY DEF Definitions
<1> QED
  BY <1>2, <1>3 DEF ToSet

(* What an addition makes of r: the definition is registered, unless one   *)
(* of its name is; then the addition throws, and what there is remains.    *)
OneMore(r, d, by, q) ==
    /\ q \in Additions
    /\ r.registry \subseteq q.registry
    /\ Unique(r.registry) => Unique(q.registry)
    /\ q.thrown => r.thrown \/ (Named(d) /\ Has(q, d))
    /\ ~q.thrown => ~r.thrown
    /\ ~q.thrown /\ Named(d) => ~Has(r, d) /\ Entry(d, by) \in q.registry
    /\ ~q.thrown => q.visitors = IF Named(d) THEN r.visitors ELSE Append(r.visitors, <<d.name, by>>)

LEMMA AddOne ==
    ASSUME NEW r \in Additions, NEW d \in Definitions, NEW by \in Origins
    PROVE  OneMore(r, d, by, AddDefinition(r, d, by))
<1>. DEFINE q == AddDefinition(r, d, by)
<1>. SUFFICES OneMore(r, d, by, q)
  OBVIOUS
<1>1. /\ r.registry \in SUBSET Entries /\ r.visitors \in Seq(Labels) /\ r.thrown \in BOOLEAN
      /\ r = [registry |-> r.registry, visitors |-> r.visitors, thrown |-> r.thrown]
  BY DEF Additions
<1>2. Entry(d, by) \in Entries /\ <<d.name, by>> \in Labels
  BY DEF Entry, Entries, Labels, Names
<1>3. CASE r.thrown
  BY <1>1, <1>3 DEF AddDefinition, OneMore
<1>4. CASE ~r.thrown /\ ~Named(d)
  <2>1. q = [r EXCEPT !.visitors = Append(@, <<d.name, by>>)]
    BY <1>4 DEF AddDefinition, Named
  <2>2. Append(r.visitors, <<d.name, by>>) \in Seq(Labels)
    BY <1>1, <1>2
  <2>3. /\ q.registry = r.registry /\ q.thrown = r.thrown
        /\ q.visitors = Append(r.visitors, <<d.name, by>>) /\ q \in Additions
    BY <2>1, <2>2, <1>1 DEF Additions
  <2>. HIDE DEF q
  <2> QED
    BY <2>3, <1>4 DEF OneMore
<1>5. CASE ~r.thrown /\ Named(d) /\ Has(r, d)
  <2>1. q = [r EXCEPT !.thrown = TRUE]
    BY <1>5 DEF AddDefinition, Named
  <2>2. q.registry = r.registry /\ q.thrown /\ q \in Additions
    BY <2>1, <1>1 DEF Additions
  <2>. HIDE DEF q
  <2> QED
    BY <2>2, <1>5 DEF OneMore, Has
<1>6. CASE ~r.thrown /\ Named(d) /\ ~Has(r, d)
  <2>1. q = [r EXCEPT !.registry = @ \cup {Entry(d, by)}]
    BY <1>6 DEF AddDefinition, Named, Entry
  <2>2. r.registry \cup {Entry(d, by)} \in SUBSET Entries
    BY <1>1, <1>2
  <2>3. /\ q.registry = r.registry \cup {Entry(d, by)} /\ q.thrown = r.thrown
        /\ q.visitors = r.visitors /\ q \in Additions
    BY <2>1, <2>2, <1>1 DEF Additions
  <2>4. \A known \in r.registry : ~ (known.kind = Entry(d, by).kind /\ known.name = Entry(d, by).name)
    BY <1>6 DEF Has, Entry
  <2>5. Unique(r.registry) => Unique(r.registry \cup {Entry(d, by)})
    <3>. HIDE DEF q
    <3> QED
      BY <2>4 DEF Unique
  <2>. HIDE DEF q
  <2> QED
    BY <2>3, <2>5, <1>6 DEF OneMore
<1> QED
  BY <1>3, <1>4, <1>5, <1>6

(* What there is after each addition of an extension.                      *)
Adding(f, r, e, n) ==
    f = [i \in 0 .. n |-> IF i = 0 THEN r ELSE AddDefinition(f[i - 1], Provides[e][i], e)]

LEMMA AddingAt ==
    ASSUME NEW r, NEW e, NEW n \in Nat, NEW f, Adding(f, r, e, n)
    PROVE  /\ f[0] = r
           /\ \A i \in 1 .. n : f[i] = AddDefinition(f[i - 1], Provides[e][i], e)
<1>1. f[0] = r
  BY DEF Adding
<1>2. ASSUME NEW i \in 1 .. n PROVE f[i] = AddDefinition(f[i - 1], Provides[e][i], e)
  <2>1. i \in 0 .. n /\ i # 0
    OBVIOUS
  <2> QED
    BY <2>1 DEF Adding
<1> QED
  BY <1>1, <1>2

LEMMA AddingExists ==
    ASSUME NEW r, NEW e, NEW n \in Nat
    PROVE  \E f : Adding(f, r, e, n)
<1>. DEFINE Without == {m \in 0 .. n : ~ \E f : Adding(f, r, e, m)}
<1>1. CASE Without # {}
  <2>0. Without \in SUBSET Nat
    OBVIOUS
  <2>. HIDE DEF Without
  <2>1. PICK m \in Without : \A k \in Without : ~ (k < m)
    BY <1>1, <2>0, LeastNat
  <2>. USE DEF Without
  <2>2. m \in 0 .. n /\ ~ \E f : Adding(f, r, e, m)
    OBVIOUS
  <2>3. m # 0
    <3>. DEFINE f == [i \in 0 .. 0 |-> r]
    <3>1. f = [i \in 0 .. 0 |-> IF i = 0 THEN r ELSE AddDefinition(f[i - 1], Provides[e][i], e)]
      OBVIOUS
    <3>2. Adding(f, r, e, 0)
      BY <3>1 DEF Adding
    <3> QED
      BY <2>2, <3>2
  <2>4. PICK f : Adding(f, r, e, m - 1)
    <3>1. m - 1 \in 0 .. n /\ m - 1 < m
      BY <2>2, <2>3
    <3> QED
      BY <2>1, <3>1
  <2>. DEFINE g == [i \in 0 .. m |-> IF i = m THEN AddDefinition(f[m - 1], Provides[e][m], e) ELSE f[i]]
  <2>5. ASSUME NEW i \in 0 .. m
        PROVE  g[i] = IF i = 0 THEN r ELSE AddDefinition(g[i - 1], Provides[e][i], e)
    <3>1. f[0] = r /\ \A j \in 1 .. m - 1 : f[j] = AddDefinition(f[j - 1], Provides[e][j], e)
      <4>1. m - 1 \in Nat
        BY <2>2, <2>3
      <4>2. f[0] = r
        BY <2>4, <4>1 DEF Adding
      <4>3. ASSUME NEW j \in 1 .. m - 1
            PROVE  f[j] = AddDefinition(f[j - 1], Provides[e][j], e)
        <5>1. j \in 0 .. m - 1 /\ j # 0
          BY <4>1
        <5> QED
          BY <2>4, <5>1 DEF Adding
      <4> QED
        BY <4>2, <4>3
    <3>2. CASE i = 0
      BY <2>2, <2>3, <3>1, <3>2
    <3>3. CASE i # 0
      <4>1. g[i - 1] = f[i - 1]
        BY <2>2, <3>3
      <4>2. CASE i = m
        BY <3>3, <4>1, <4>2
      <4>3. CASE i # m
        BY <3>1, <3>3, <4>1, <4>3, <2>2
      <4> QED
        BY <4>2, <4>3
    <3> QED
      BY <3>2, <3>3
  <2>6. Adding(g, r, e, m)
    <3>1. g = [i \in 0 .. m |-> g[i]]
      OBVIOUS
    <3>2. [i \in 0 .. m |-> g[i]]
            = [i \in 0 .. m |-> IF i = 0 THEN r ELSE AddDefinition(g[i - 1], Provides[e][i], e)]
      <4>. HIDE DEF g
      <4> QED
        BY <2>5
    <3>. HIDE DEF g
    <3> QED
      BY <3>1, <3>2 DEF Adding
  <2> QED
    BY <2>2, <2>6
<1>2. CASE Without = {}
  <2>1. n \notin Without
    <3>. HIDE DEF Without
    <3> QED
      BY <1>2
  <2> QED
    BY <2>1
<1> QED
  BY <1>1, <1>2

LEMMA ExtensionAdding ==
    ASSUME NEW r, NEW e \in DOMAIN Provides
    PROVE  \E f : Adding(f, r, e, Len(Provides[e])) /\ initExtension(r, e) = f[Len(Provides[e])]
<1>. DEFINE f == CHOOSE g : g = [n \in 0 .. Len(Provides[e]) |->
                                   IF n = 0 THEN r ELSE AddDefinition(g[n - 1], Provides[e][n], e)]
<1>1. Adding(f, r, e, Len(Provides[e]))
  <2>1. Len(Provides[e]) \in Nat
    BY ProvidedSeq
  <2>2. \E g : Adding(g, r, e, Len(Provides[e]))
    BY <2>1, AddingExists
  <2> QED
    BY <2>2, Zenon DEF Adding
<1>2. initExtension(r, e) = f[Len(Provides[e])]
  BY DEF initExtension
<1> QED
  BY <1>1, <1>2

(* What there is after each extension of an initialisation.                *)
Doing(f, r, es, n) ==
    f = [i \in 0 .. n |-> IF i = 0 THEN r ELSE initExtension(f[i - 1], es[i])]

LEMMA DoingAt ==
    ASSUME NEW r, NEW es, NEW n \in Nat, NEW f, Doing(f, r, es, n)
    PROVE  /\ f[0] = r
           /\ \A i \in 1 .. n : f[i] = initExtension(f[i - 1], es[i])
<1>1. f[0] = r
  BY DEF Doing
<1>2. ASSUME NEW i \in 1 .. n PROVE f[i] = initExtension(f[i - 1], es[i])
  <2>1. i \in 0 .. n /\ i # 0
    OBVIOUS
  <2> QED
    BY <2>1 DEF Doing
<1> QED
  BY <1>1, <1>2

LEMMA DoingExists ==
    ASSUME NEW r, NEW es, NEW n \in Nat
    PROVE  \E f : Doing(f, r, es, n)
<1>. DEFINE Without == {m \in 0 .. n : ~ \E f : Doing(f, r, es, m)}
<1>1. CASE Without # {}
  <2>0. Without \in SUBSET Nat
    OBVIOUS
  <2>. HIDE DEF Without
  <2>1. PICK m \in Without : \A k \in Without : ~ (k < m)
    BY <1>1, <2>0, LeastNat
  <2>. USE DEF Without
  <2>2. m \in 0 .. n /\ ~ \E f : Doing(f, r, es, m)
    OBVIOUS
  <2>3. m # 0
    <3>. DEFINE f == [i \in 0 .. 0 |-> r]
    <3>1. f = [i \in 0 .. 0 |-> IF i = 0 THEN r ELSE initExtension(f[i - 1], es[i])]
      OBVIOUS
    <3>2. Doing(f, r, es, 0)
      BY <3>1 DEF Doing
    <3> QED
      BY <2>2, <3>2
  <2>4. PICK f : Doing(f, r, es, m - 1)
    <3>1. m - 1 \in 0 .. n /\ m - 1 < m
      BY <2>2, <2>3
    <3> QED
      BY <2>1, <3>1
  <2>. DEFINE g == [i \in 0 .. m |-> IF i = m THEN initExtension(f[m - 1], es[m]) ELSE f[i]]
  <2>5. ASSUME NEW i \in 0 .. m
        PROVE  g[i] = IF i = 0 THEN r ELSE initExtension(g[i - 1], es[i])
    <3>1. f[0] = r /\ \A j \in 1 .. m - 1 : f[j] = initExtension(f[j - 1], es[j])
      <4>1. m - 1 \in Nat
        BY <2>2, <2>3
      <4> QED
        BY <2>4, <4>1, DoingAt
    <3>2. CASE i = 0
      BY <2>2, <2>3, <3>1, <3>2
    <3>3. CASE i # 0
      <4>1. g[i - 1] = f[i - 1]
        BY <2>2, <3>3
      <4>2. CASE i = m
        BY <3>3, <4>1, <4>2
      <4>3. CASE i # m
        BY <3>1, <3>3, <4>1, <4>3, <2>2
      <4> QED
        BY <4>2, <4>3
    <3> QED
      BY <3>2, <3>3
  <2>6. Doing(g, r, es, m)
    <3>1. g = [i \in 0 .. m |-> g[i]]
      OBVIOUS
    <3>2. [i \in 0 .. m |-> g[i]]
            = [i \in 0 .. m |-> IF i = 0 THEN r ELSE initExtension(g[i - 1], es[i])]
      <4>. HIDE DEF g
      <4> QED
        BY <2>5
    <3>. HIDE DEF g
    <3> QED
      BY <3>1, <3>2 DEF Doing
  <2> QED
    BY <2>2, <2>6
<1>2. CASE Without = {}
  <2>1. n \notin Without
    <3>. HIDE DEF Without
    <3> QED
      BY <1>2
  <2> QED
    BY <2>1
<1> QED
  BY <1>1, <1>2

LEMMA InitialisationDoing ==
    ASSUME Len(extensions) \in Nat
    PROVE  \E f : Doing(f, Current, extensions, Len(extensions)) /\ Initialisation = f[Len(extensions)]
<1>. DEFINE f == CHOOSE g : g = [n \in 0 .. Len(extensions) |->
                                   IF n = 0 THEN Current ELSE initExtension(g[n - 1], extensions[n])]
<1>1. Doing(f, Current, extensions, Len(extensions))
  BY DoingExists DEF Doing
<1>2. Initialisation = f[Len(extensions)]
  BY DEF Initialisation, Current
<1> QED
  BY <1>1, <1>2

-----------------------------------------------------------------------------
(* What an extension adds.                                                 *)

(* Up to its n-th definition, to what is registered.                       *)
RegisteredTo(r, q, e, n) ==
    /\ q \in Additions
    /\ r.registry \subseteq q.registry
    /\ Unique(r.registry) => Unique(q.registry)
    /\ q.thrown => r.thrown \/ \E k \in 1 .. n : Named(Provides[e][k]) /\ Has(q, Provides[e][k])
    /\ ~q.thrown => ~r.thrown
    /\ ~q.thrown => \A k \in 1 .. n : Named(Provides[e][k]) =>
                      ~Has(r, Provides[e][k]) /\ Entry(Provides[e][k], e) \in q.registry

LEMMA HasGrows ==
    ASSUME NEW r, NEW q, r.registry \subseteq q.registry, NEW d, Has(r, d)
    PROVE  Has(q, d)
BY DEF Has

LEMMA RegisteredStep ==
    ASSUME NEW r \in Additions, NEW p, NEW q, NEW e \in DOMAIN Provides,
           NEW n \in 1 .. Len(Provides[e]), RegisteredTo(r, p, e, n - 1),
           OneMore(p, Provides[e][n], e, q)
    PROVE  RegisteredTo(r, q, e, n)
<1>1. /\ q \in Additions /\ r.registry \subseteq p.registry /\ p.registry \subseteq q.registry
      /\ Unique(r.registry) => Unique(q.registry)
      /\ ~q.thrown => ~p.thrown
      /\ ~p.thrown => ~r.thrown
  BY DEF RegisteredTo, OneMore
<1>2. Len(Provides[e]) \in Nat /\ n \in 1 .. n /\ n - 1 \in Nat
  BY ProvidedSeq
<1>3. \A k \in 1 .. n - 1 : k \in 1 .. n
  BY <1>2
<1>4. ASSUME q.thrown, ~r.thrown
      PROVE  \E k \in 1 .. n : Named(Provides[e][k]) /\ Has(q, Provides[e][k])
  <2>1. CASE p.thrown
    <3>1. PICK k \in 1 .. n - 1 : Named(Provides[e][k]) /\ Has(p, Provides[e][k])
      BY <1>4, <2>1 DEF RegisteredTo
    <3>2. Has(q, Provides[e][k])
      BY <1>1, <3>1, HasGrows
    <3> QED
      BY <1>3, <3>1, <3>2
  <2>2. CASE ~p.thrown
    BY <1>2, <1>4, <2>2 DEF OneMore
  <2> QED
    BY <2>1, <2>2
<1>5. ASSUME ~q.thrown, NEW k \in 1 .. n, Named(Provides[e][k])
      PROVE  ~Has(r, Provides[e][k]) /\ Entry(Provides[e][k], e) \in q.registry
  <2>1. CASE k = n
    <3>1. ~Has(p, Provides[e][n]) /\ Entry(Provides[e][n], e) \in q.registry
      BY <1>5, <2>1 DEF OneMore
    <3> QED
      BY <1>1, <2>1, <3>1, HasGrows
  <2>2. CASE k # n
    <3>1. k \in 1 .. n - 1
      BY <1>2, <2>2
    <3>2. ~Has(r, Provides[e][k]) /\ Entry(Provides[e][k], e) \in p.registry
      BY <1>1, <1>5, <3>1 DEF RegisteredTo
    <3> QED
      BY <1>1, <3>2
  <2> QED
    BY <2>1, <2>2
<1> QED
  BY <1>1, <1>4, <1>5 DEF RegisteredTo

(* And to the visitors.                                                    *)
VisitorsTo(us, vs, e, n) ==
    /\ Apart(us, vs, e)
    /\ NoneBy(us, e) =>
         /\ \A k \in 1 .. n : ~Named(Provides[e][k]) =>
              \E i \in DOMAIN vs : At(vs, <<Provides[e][k].name, e>>) = {i}
         /\ \A x \in Names : (\A k \in 1 .. n : Named(Provides[e][k]) \/ Provides[e][k].name # x) =>
              At(vs, <<x, e>>) = {}

LEMMA AtAppend ==
    ASSUME NEW vs \in Seq(Labels), NEW w \in Labels, NEW v
    PROVE  At(Append(vs, w), v) = At(vs, v) \cup (IF v = w THEN {Len(vs) + 1} ELSE {})
<1>. DEFINE n == Len(vs)
            gs == Append(vs, w)
<1>1. /\ n \in Nat /\ DOMAIN vs = 1 .. n /\ DOMAIN gs = 1 .. n + 1
      /\ \A i \in 1 .. n : gs[i] = vs[i]
      /\ gs[n + 1] = w
  BY AppendProperties
<1>2. \A i \in 1 .. n + 1 : i \in 1 .. n \/ i = n + 1
  BY <1>1
<1>3. \A i \in 1 .. n : i \in 1 .. n + 1
  BY <1>1
<1>4. n + 1 \in 1 .. n + 1
  BY <1>1
<1>. HIDE DEF n, gs
<1>5. At(gs, v) = At(vs, v) \cup (IF v = w THEN {n + 1} ELSE {})
  BY <1>1, <1>2, <1>3, <1>4 DEF At
<1> QED
  BY <1>5 DEF n, gs

LEMMA VisitorsStep ==
    ASSUME NEW us, NEW p \in Additions, NEW q, NEW e \in DOMAIN Provides,
           NEW n \in 1 .. Len(Provides[e]), VisitorsTo(us, p.visitors, e, n - 1),
           OneMore(p, Provides[e][n], e, q), ~q.thrown
    PROVE  VisitorsTo(us, q.visitors, e, n)
<1>. DEFINE d == Provides[e][n]
            w == <<d.name, e>>
            vs == p.visitors
<1>1. Len(Provides[e]) \in Nat /\ n \in 1 .. n /\ n - 1 \in Nat /\ \A k \in 1 .. n - 1 : k \in 1 .. n /\ k # n
  BY ProvidedSeq
<1>2. d \in Definitions /\ d.name \in Names /\ w \in Labels
  <2>1. d \in Definitions
    BY ProvidedSeq
  <2> QED
    BY <2>1 DEF Names, Labels, Origins
<1>3. vs \in Seq(Labels) /\ Len(vs) \in Nat
  <2>1. vs \in Seq(Labels)
    BY DEF Additions
  <2> QED
    BY <2>1
<1>4. Apart(us, vs, e)
  BY DEF VisitorsTo
<1>5. CASE Named(d)
  <2>1. q.visitors = vs
    BY <1>5 DEF OneMore
  <2>2. ASSUME NoneBy(us, e), NEW k \in 1 .. n, ~Named(Provides[e][k])
        PROVE  \E i \in DOMAIN vs : At(vs, <<Provides[e][k].name, e>>) = {i}
    <3>1. k \in 1 .. n - 1
      BY <1>1, <1>5, <2>2
    <3> QED
      BY <2>2, <3>1 DEF VisitorsTo
  <2>3. ASSUME NoneBy(us, e), NEW x \in Names,
               \A k \in 1 .. n : Named(Provides[e][k]) \/ Provides[e][k].name # x
        PROVE  At(vs, <<x, e>>) = {}
    BY <1>1, <2>3 DEF VisitorsTo
  <2> QED
    BY <1>4, <2>1, <2>2, <2>3 DEF VisitorsTo
<1>6. CASE ~Named(d)
  <2>1. q.visitors = Append(vs, w)
    BY <1>6 DEF OneMore
  <2>. DEFINE ws == Append(vs, w)
  <2>2. \A v : At(ws, v) = At(vs, v) \cup (IF v = w THEN {Len(vs) + 1} ELSE {})
    BY <1>2, <1>3, AtAppend
  <2>3. DOMAIN vs \subseteq DOMAIN ws /\ Len(vs) + 1 \in DOMAIN ws
    BY <1>2, <1>3, AppendProperties
  <2>. HIDE DEF ws, vs
  <2>4. \A v : v # w => At(ws, v) = At(vs, v)
    BY <2>2
  <2>5. Apart(us, ws, e)
    <3>1. ASSUME NEW v \in Labels, v[2] # e PROVE At(ws, v) = At(us, v)
      <4>1. v # w
        BY <3>1
      <4> QED
        BY <1>4, <2>4, <3>1, <4>1 DEF Apart
    <3> QED
      BY <3>1 DEF Apart
  <2>6. ASSUME NEW k \in 1 .. n - 1
        PROVE  Named(Provides[e][k]) \/ Provides[e][k].name # d.name
    <3>1. k \in DOMAIN Provides[e] /\ n \in DOMAIN Provides[e] /\ k # n
      BY <1>1, ProvidedSeq
    <3> QED
      BY <1>6, <3>1, ExtensionSetAssumption DEF Named
  <2>7. ASSUME NoneBy(us, e), NEW k \in 1 .. n, ~Named(Provides[e][k])
        PROVE  \E i \in DOMAIN ws : At(ws, <<Provides[e][k].name, e>>) = {i}
    <3>1. CASE k = n
      <4>1. At(vs, w) = {}
        BY <1>2, <2>6, <2>7 DEF VisitorsTo, vs
      <4>2. At(ws, w) = {Len(vs) + 1}
        BY <2>2, <4>1
      <4> QED
        BY <2>3, <3>1, <4>2
    <3>2. CASE k # n
      <4>1. k \in 1 .. n - 1
        BY <1>1, <3>2
      <4>2. PICK i \in DOMAIN vs : At(vs, <<Provides[e][k].name, e>>) = {i}
        BY <2>7, <4>1 DEF VisitorsTo, vs
      <4>3. <<Provides[e][k].name, e>> # w
        BY <2>6, <2>7, <4>1
      <4> QED
        BY <2>3, <2>4, <4>2, <4>3
    <3> QED
      BY <3>1, <3>2
  <2>8. ASSUME NoneBy(us, e), NEW x \in Names,
               \A k \in 1 .. n : Named(Provides[e][k]) \/ Provides[e][k].name # x
        PROVE  At(ws, <<x, e>>) = {}
    <3>1. At(vs, <<x, e>>) = {}
      BY <1>1, <2>8 DEF VisitorsTo, vs
    <3>2. <<x, e>> # w
      BY <1>1, <1>6, <2>8
    <3> QED
      BY <2>4, <3>1, <3>2
  <2>9. VisitorsTo(us, ws, e, n)
    BY <2>5, <2>7, <2>8 DEF VisitorsTo
  <2> QED
    BY <2>1, <2>9 DEF ws
<1> QED
  BY <1>5, <1>6

(* After all of them.                                                      *)
Extended(r, q, e) ==
    /\ q \in Additions
    /\ r.registry \subseteq q.registry
    /\ Unique(r.registry) => Unique(q.registry)
    /\ q.thrown => r.thrown \/ Clashes(q, e)
    /\ ~q.thrown => ~r.thrown /\ ~Clashes(r, e) /\ Registered(q, e)
    /\ ~q.thrown => Apart(r.visitors, q.visitors, e) /\ (NoneBy(r.visitors, e) => EachOnce(q.visitors, e))

LEMMA AddingAll ==
    ASSUME NEW r \in Additions, NEW e \in DOMAIN Provides,
           NEW f, Adding(f, r, e, Len(Provides[e]))
    PROVE  \A n \in 0 .. Len(Provides[e]) :
             RegisteredTo(r, f[n], e, n) /\ (~f[n].thrown => VisitorsTo(r.visitors, f[n].visitors, e, n))
<1>. DEFINE Right(n) == RegisteredTo(r, f[n], e, n)
                        /\ (~f[n].thrown => VisitorsTo(r.visitors, f[n].visitors, e, n))
            Wrong == {n \in 0 .. Len(Provides[e]) : ~Right(n)}
<1>1. Len(Provides[e]) \in Nat
  BY ProvidedSeq
<1>2. f[0] = r /\ \A n \in 1 .. Len(Provides[e]) : f[n] = AddDefinition(f[n - 1], Provides[e][n], e)
  BY SMTT(30), <1>1, AddingAt
<1>3. Right(0)
  <2>1. RegisteredTo(r, r, e, 0)
    BY DEF RegisteredTo
  <2>2. VisitorsTo(r.visitors, r.visitors, e, 0)
    BY DEF VisitorsTo, Apart, NoneBy
  <2> QED
    BY <1>2, <2>1, <2>2
<1>4. ASSUME NEW n \in 1 .. Len(Provides[e]), Right(n - 1) PROVE Right(n)
  <2>1. f[n - 1] \in Additions
    BY <1>4 DEF RegisteredTo
  <2>2. Provides[e][n] \in Definitions /\ e \in Origins
    BY ProvidedSeq DEF Origins
  <2>3. OneMore(f[n - 1], Provides[e][n], e, f[n])
    BY <1>2, <2>1, <2>2, AddOne
  <2>4. RegisteredTo(r, f[n], e, n)
    BY <1>4, <2>3, RegisteredStep
  <2>5. ASSUME ~f[n].thrown PROVE VisitorsTo(r.visitors, f[n].visitors, e, n)
    <3>1. ~f[n - 1].thrown
      BY <2>3, <2>5 DEF OneMore
    <3>2. VisitorsTo(r.visitors, f[n - 1].visitors, e, n - 1)
      BY <1>4, <3>1
    <3> QED
      BY <2>1, <2>3, <2>5, <3>2, VisitorsStep
  <2> QED
    BY <2>4, <2>5
<1>5. CASE Wrong # {}
  <2>0. Wrong \in SUBSET Nat
    OBVIOUS
  <2>. HIDE DEF Wrong
  <2>1. PICK n \in Wrong : \A m \in Wrong : ~ (m < n)
    BY <1>5, <2>0, LeastNat
  <2>. USE DEF Wrong
  <2>. HIDE DEF Right
  <2>2. n \in 0 .. Len(Provides[e]) /\ ~Right(n)
    OBVIOUS
  <2>3. n \in 1 .. Len(Provides[e]) /\ n - 1 \in 0 .. Len(Provides[e]) /\ n - 1 < n
    BY <1>1, <1>3, <2>2
  <2>4. Right(n - 1)
    BY <2>1, <2>3
  <2> QED
    BY <1>4, <2>2, <2>3, <2>4
<1>6. CASE Wrong = {}
  BY <1>6
<1> QED
  BY <1>5, <1>6

LEMMA ExtensionAdded ==
    ASSUME NEW r \in Additions, NEW e \in DOMAIN Provides
    PROVE  Extended(r, initExtension(r, e), e)
<1>. DEFINE n == Len(Provides[e])
<1>1. PICK f : Adding(f, r, e, n) /\ initExtension(r, e) = f[n]
  BY ExtensionAdding
<1>2. n \in 0 .. n /\ n \in Nat
  BY ProvidedSeq
<1>3. RegisteredTo(r, f[n], e, n) /\ (~f[n].thrown => VisitorsTo(r.visitors, f[n].visitors, e, n))
  BY <1>1, <1>2, AddingAll
<1>. DEFINE q == f[n]
<1>4. /\ \A k \in 1 .. n : Provides[e][k] \in ToSet(Provides[e])
      /\ \A d \in ToSet(Provides[e]) : \E k \in 1 .. n : d = Provides[e][k]
  BY ProvidedSeq
<1>. HIDE DEF n, q
<1>5. RegisteredTo(r, q, e, n) /\ (~q.thrown => VisitorsTo(r.visitors, q.visitors, e, n))
  BY <1>3 DEF q
<1>6. q.thrown => r.thrown \/ Clashes(q, e)
  BY <1>4, <1>5 DEF RegisteredTo, Clashes
<1>7. ~q.thrown => ~r.thrown /\ ~Clashes(r, e) /\ Registered(q, e)
  BY <1>4, <1>5 DEF RegisteredTo, Clashes, Registered
<1>8. ASSUME ~q.thrown, NoneBy(r.visitors, e) PROVE EachOnce(q.visitors, e)
  <2>1. ASSUME NEW d \in ToSet(Provides[e]), ~Named(d)
        PROVE  \E i \in DOMAIN q.visitors : At(q.visitors, <<d.name, e>>) = {i}
    <3>1. PICK k \in 1 .. n : d = Provides[e][k]
      BY <1>4
    <3> QED
      BY <1>5, <1>8, <2>1, <3>1 DEF VisitorsTo
  <2> QED
    BY <2>1 DEF EachOnce
<1>9. Extended(r, q, e)
  BY <1>5, <1>6, <1>7, <1>8 DEF Extended, RegisteredTo, VisitorsTo
<1> QED
  BY <1>1, <1>9 DEF q

-----------------------------------------------------------------------------
(* What an initialisation adds.                                            *)

Unvisited(vs) == \A e \in DOMAIN Provides : NoneBy(vs, e)

(* Up to the n-th extension.                                               *)
DoneTo(r, q, es, n) ==
    /\ q \in Additions
    /\ r.registry \subseteq q.registry
    /\ Unique(r.registry) => Unique(q.registry)
    /\ q.thrown => r.thrown \/ \E k \in 1 .. n : Clashes(q, es[k])
    /\ ~q.thrown => ~r.thrown /\ \A k \in 1 .. n : ~Clashes(r, es[k]) /\ Registered(q, es[k])
    /\ ~q.thrown /\ Unvisited(r.visitors) =>
         /\ \A k \in 1 .. n : EachOnce(q.visitors, es[k])
         /\ \A e \in DOMAIN Provides : (\A k \in 1 .. n : es[k] # e) => NoneBy(q.visitors, e)

LEMMA ClashesGrow ==
    ASSUME NEW r, NEW q, r.registry \subseteq q.registry, NEW e
    PROVE  /\ Clashes(r, e) => Clashes(q, e)
           /\ Registered(r, e) => Registered(q, e)
<1>1. Clashes(r, e) => Clashes(q, e)
  BY HasGrows DEF Clashes
<1>2. Registered(r, e) => Registered(q, e)
  BY DEF Registered
<1> QED
  BY <1>1, <1>2

(* The visitors of an extension are not concerned by another one.          *)
LEMMA VisitorsApart ==
    ASSUME NEW us, NEW vs, NEW e \in DOMAIN Provides, NEW o \in DOMAIN Provides, o # e,
           Apart(us, vs, e)
    PROVE  /\ EachOnce(us, o) => EachOnce(vs, o)
           /\ NoneBy(us, o) => NoneBy(vs, o)
<1>1. \A x \in Names : At(vs, <<x, o>>) = At(us, <<x, o>>)
  <2>1. ASSUME NEW x \in Names PROVE At(vs, <<x, o>>) = At(us, <<x, o>>)
    <3>1. <<x, o>> \in Labels /\ <<x, o>>[2] # e
      BY DEF Labels, Origins
    <3> QED
      BY <3>1 DEF Apart
  <2> QED
    BY <2>1
<1>2. ASSUME EachOnce(us, o), NEW d \in ToSet(Provides[o]), ~Named(d)
      PROVE  \E i \in DOMAIN vs : At(vs, <<d.name, o>>) = {i}
  <2>1. PICK i \in DOMAIN us : At(us, <<d.name, o>>) = {i}
    BY <1>2 DEF EachOnce
  <2>2. d.name \in Names
    BY ProvidedSeq DEF Names
  <2>3. At(vs, <<d.name, o>>) = {i}
    BY <1>1, <2>1, <2>2
  <2>4. i \in DOMAIN vs
    BY <2>3 DEF At
  <2> QED
    BY <2>3, <2>4
<1>3. NoneBy(us, o) => NoneBy(vs, o)
  BY <1>1 DEF NoneBy
<1> QED
  BY <1>2, <1>3 DEF EachOnce

LEMMA DoneStep ==
    ASSUME NEW r \in Additions, NEW p, NEW q, NEW n \in Nat \ {0}, NEW es,
           \A k \in 1 .. n : es[k] \in DOMAIN Provides,
           \A j, k \in 1 .. n : es[j] = es[k] => j = k,
           DoneTo(r, p, es, n - 1), Extended(p, q, es[n])
    PROVE  DoneTo(r, q, es, n)
<1>1. /\ q \in Additions /\ r.registry \subseteq p.registry /\ p.registry \subseteq q.registry
      /\ r.registry \subseteq q.registry
      /\ Unique(r.registry) => Unique(q.registry)
      /\ ~q.thrown => ~p.thrown
      /\ ~p.thrown => ~r.thrown
  BY DEF DoneTo, Extended
<1>2. n \in 1 .. n /\ \A k \in 1 .. n - 1 : k \in 1 .. n /\ k # n
  OBVIOUS
<1>3. \A k \in 1 .. n : k = n \/ k \in 1 .. n - 1
  OBVIOUS
<1>4. ASSUME q.thrown, ~r.thrown PROVE \E k \in 1 .. n : Clashes(q, es[k])
  <2>1. CASE p.thrown
    <3>1. PICK k \in 1 .. n - 1 : Clashes(p, es[k])
      BY <1>4, <2>1 DEF DoneTo
    <3>2. Clashes(q, es[k])
      BY <1>1, <3>1, ClashesGrow
    <3> QED
      BY <1>2, <3>2
  <2>2. CASE ~p.thrown
    BY <1>2, <1>4, <2>2 DEF Extended
  <2> QED
    BY <2>1, <2>2
<1>5. ASSUME ~q.thrown, NEW k \in 1 .. n PROVE ~Clashes(r, es[k]) /\ Registered(q, es[k])
  <2>1. CASE k = n
    <3>1. ~Clashes(p, es[n]) /\ Registered(q, es[n])
      BY <1>5 DEF Extended
    <3> QED
      BY <1>1, <2>1, <3>1, ClashesGrow
  <2>2. CASE k \in 1 .. n - 1
    <3>1. ~Clashes(r, es[k]) /\ Registered(p, es[k])
      BY <1>1, <1>5, <2>2 DEF DoneTo
    <3> QED
      BY <1>1, <3>1, ClashesGrow
  <2> QED
    BY <1>3, <2>1, <2>2
<1>6. ASSUME ~q.thrown, Unvisited(r.visitors)
      PROVE  /\ \A k \in 1 .. n : EachOnce(q.visitors, es[k])
             /\ \A e \in DOMAIN Provides : (\A k \in 1 .. n : es[k] # e) => NoneBy(q.visitors, e)
  <2>1. /\ \A k \in 1 .. n - 1 : EachOnce(p.visitors, es[k])
        /\ \A e \in DOMAIN Provides : (\A k \in 1 .. n - 1 : es[k] # e) => NoneBy(p.visitors, e)
    BY <1>1, <1>6 DEF DoneTo
  <2>2. es[n] \in DOMAIN Provides /\ \A k \in 1 .. n - 1 : es[k] \in DOMAIN Provides /\ es[k] # es[n]
    BY <1>2
  <2>3. Apart(p.visitors, q.visitors, es[n]) /\ (NoneBy(p.visitors, es[n]) => EachOnce(q.visitors, es[n]))
    BY <1>6 DEF Extended
  <2>4. EachOnce(q.visitors, es[n])
    BY <2>1, <2>2, <2>3
  <2>5. \A k \in 1 .. n - 1 : EachOnce(q.visitors, es[k])
    BY <2>1, <2>2, <2>3, VisitorsApart
  <2>6. ASSUME NEW e \in DOMAIN Provides, \A k \in 1 .. n : es[k] # e PROVE NoneBy(q.visitors, e)
    <3>1. NoneBy(p.visitors, e) /\ e # es[n]
      BY <1>2, <2>1, <2>6
    <3> QED
      BY <2>2, <2>3, <3>1, VisitorsApart
  <2> QED
    BY <1>3, <2>4, <2>5, <2>6
<1> QED
  BY <1>1, <1>4, <1>5, <1>6 DEF DoneTo

LEMMA DoingAll ==
    ASSUME NEW r \in Additions, NEW es \in Seq(DOMAIN Provides),
           \A j, k \in 1 .. Len(es) : es[j] = es[k] => j = k,
           NEW f, Doing(f, r, es, Len(es))
    PROVE  \A n \in 0 .. Len(es) : DoneTo(r, f[n], es, n)
<1>. DEFINE Wrong == {n \in 0 .. Len(es) : ~DoneTo(r, f[n], es, n)}
<1>1. Len(es) \in Nat /\ \A k \in 1 .. Len(es) : es[k] \in DOMAIN Provides
  OBVIOUS
<1>2. f[0] = r /\ \A n \in 1 .. Len(es) : f[n] = initExtension(f[n - 1], es[n])
  <2>1. f[0] = r
    BY <1>1 DEF Doing
  <2>2. ASSUME NEW n \in 1 .. Len(es) PROVE f[n] = initExtension(f[n - 1], es[n])
    <3>1. n \in 0 .. Len(es) /\ n # 0
      BY <1>1
    <3> QED
      BY <3>1 DEF Doing
  <2> QED
    BY <2>1, <2>2
<1>3. DoneTo(r, f[0], es, 0)
  BY <1>2 DEF DoneTo, Unvisited
<1>4. ASSUME NEW n \in 1 .. Len(es), DoneTo(r, f[n - 1], es, n - 1) PROVE DoneTo(r, f[n], es, n)
  <2>1. f[n - 1] \in Additions /\ es[n] \in DOMAIN Provides
    BY <1>1, <1>4 DEF DoneTo
  <2>2. Extended(f[n - 1], f[n], es[n])
    BY <1>2, <2>1, ExtensionAdded
  <2>3. n \in Nat \ {0} /\ \A k \in 1 .. n : k \in 1 .. Len(es)
    BY <1>1
  <2>4. /\ \A k \in 1 .. n : es[k] \in DOMAIN Provides
        /\ \A j, k \in 1 .. n : es[j] = es[k] => j = k
    BY <1>1, <2>3
  <2> QED
    BY <1>4, <2>2, <2>3, <2>4, DoneStep
<1>5. CASE Wrong # {}
  <2>0. Wrong \in SUBSET Nat
    OBVIOUS
  <2>. HIDE DEF Wrong
  <2>1. PICK n \in Wrong : \A m \in Wrong : ~ (m < n)
    BY <1>5, <2>0, LeastNat
  <2>. USE DEF Wrong
  <2>2. n \in 0 .. Len(es) /\ ~DoneTo(r, f[n], es, n)
    OBVIOUS
  <2>3. n \in 1 .. Len(es) /\ n - 1 \in 0 .. Len(es) /\ n - 1 < n
    BY <1>1, <1>3, <2>2
  <2>4. DoneTo(r, f[n - 1], es, n - 1)
    BY <2>1, <2>3
  <2> QED
    BY <1>4, <2>2, <2>3, <2>4
<1>6. CASE Wrong = {}
  BY <1>6
<1> QED
  BY <1>5, <1>6

-----------------------------------------------------------------------------
(* The steps of the set.                                                   *)

LEMMA CurrentIs ==
    ASSUME SetInv
    PROVE  /\ Current \in Additions /\ Current.registry = registry
           /\ Current.visitors = visitors /\ Current.thrown = FALSE
BY DEF SetInv, Current, Additions

LEMMA InitialisationDone ==
    ASSUME SetInv
    PROVE  DoneTo(Current, Initialisation, extensions, Len(extensions))
<1>. DEFINE n == Len(extensions)
<1>1. /\ extensions \in Seq(DOMAIN Provides) /\ n \in Nat /\ n \in 0 .. n
      /\ \A j, k \in 1 .. n : extensions[j] = extensions[k] => j = k
  BY DEF SetInv
<1>2. PICK f : Doing(f, Current, extensions, n) /\ Initialisation = f[n]
  BY <1>1, InitialisationDoing
<1>3. Current \in Additions
  BY CurrentIs
<1>4. \A m \in 0 .. n : DoneTo(Current, f[m], extensions, m)
  BY <1>1, <1>2, <1>3, DoingAll
<1> QED
  BY <1>1, <1>2, <1>4

LEMMA InitKeepsSet ==
    ASSUME SetInv, initExtensions PROVE SetInv'
<1>. DEFINE q == Initialisation
            n == Len(extensions)
<1>1. /\ ~initialized /\ registry' = q.registry /\ visitors' = q.visitors
      /\ initialized' = ~q.thrown /\ failed' = (failed \/ q.thrown)
      /\ extensions' = extensions
  BY DEF initExtensions
<1>2. DoneTo(Current, q, extensions, n)
  BY InitialisationDone
<1>3. /\ Current.registry = registry /\ Current.visitors = visitors /\ Current.thrown = FALSE
  BY CurrentIs
<1>4. /\ extensions \in Seq(DOMAIN Provides) /\ Unique(registry) /\ failed \in BOOLEAN
      /\ n \in Nat /\ \A k \in 1 .. n : extensions[k] \in DOMAIN Provides
      /\ \A j, k \in 1 .. n : extensions[j] = extensions[k] => j = k
      /\ failed => \E k \in 1 .. n : Clashes(Current, extensions[k])
      /\ ~failed => \A k \in 1 .. Len(visitors) : visitors[k][2] = Own
      /\ visitors \in Seq(Labels)
  BY <1>1 DEF SetInv
<1>. HIDE DEF q
<1>5. q \in Additions /\ q.thrown \in BOOLEAN /\ q.registry \in SUBSET Entries
      /\ q.visitors \in Seq(Labels) /\ Unique(q.registry)
  BY <1>2, <1>3, <1>4 DEF DoneTo, Additions
<1>6. Current'.registry = q.registry /\ Current'.visitors = q.visitors
  BY <1>1 DEF Current
<1>7. \A e : (Clashes(q, e) => Clashes(Current', e)) /\ (Registered(q, e) => Registered(Current', e))
  BY <1>6 DEF Clashes, Registered, Has
<1>8. failed => q.thrown
  <2>1. SUFFICES ASSUME failed, ~q.thrown PROVE FALSE
    BY <1>5
  <2>2. PICK k \in 1 .. n : Clashes(Current, extensions[k])
    BY <1>4, <2>1
  <2> QED
    BY <1>2, <2>1, <2>2 DEF DoneTo
<1>9. ASSUME q.thrown PROVE \E k \in 1 .. n : Clashes(Current', extensions[k])
  <2>1. PICK k \in 1 .. n : Clashes(q, extensions[k])
    BY <1>2, <1>3, <1>9 DEF DoneTo
  <2> QED
    BY <1>7, <2>1
<1>10. ASSUME ~q.thrown
       PROVE  \A k \in 1 .. n : Registered(Current', extensions[k]) /\ EachOnce(q.visitors, extensions[k])
  <2>1. ~failed
    BY <1>8, <1>10
  <2>2. Unvisited(visitors)
    <3>1. ASSUME NEW e \in DOMAIN Provides, NEW x \in Names PROVE At(visitors, <<x, e>>) = {}
      <4>1. DOMAIN visitors = 1 .. Len(visitors) /\ e # Own
        BY <1>4, ExtensionSetAssumption
      <4>2. \A k \in DOMAIN visitors : visitors[k] # <<x, e>>
        BY <1>4, <2>1, <4>1
      <4> QED
        BY <4>2 DEF At
    <3> QED
      BY <3>1 DEF Unvisited, NoneBy
  <2>3. \A k \in 1 .. n : EachOnce(q.visitors, extensions[k]) /\ Registered(q, extensions[k])
    BY <1>2, <1>3, <1>10, <2>2 DEF DoneTo
  <2> QED
    BY <1>7, <2>3
<1>11. /\ failed' => ~initialized' /\ \E k \in 1 .. n : Clashes(Current', extensions[k])
       /\ failed' \/ initialized'
       /\ initialized' \in BOOLEAN /\ failed' \in BOOLEAN
       /\ initialized' => ~q.thrown
  BY <1>1, <1>4, <1>5, <1>8, <1>9
<1> QED
  BY <1>1, <1>4, <1>5, <1>10, <1>11 DEF SetInv

LEMMA AddDefinitionKeepsSet ==
    ASSUME SetInv, NEW d \in Direct, addDefinition(d) PROVE SetInv'
<1>. DEFINE q == AddDefinition(Current, d, Own)
<1>1. /\ ~initialized /\ ~q.thrown /\ registry' = q.registry /\ visitors' = q.visitors
      /\ extensions' = extensions /\ initialized' = initialized /\ failed' = failed
  BY DEF addDefinition, Current
<1>2. d \in Definitions /\ Own \in Origins
  BY DEF Definitions, Origins
<1>3. /\ Current \in Additions /\ Current.registry = registry
      /\ Current.visitors = visitors /\ Current.thrown = FALSE
  BY CurrentIs
<1>4. OneMore(Current, d, Own, q)
  BY <1>2, <1>3, AddOne
<1>. HIDE DEF q
<1>5. q.registry \in SUBSET Entries /\ q.visitors \in Seq(Labels) /\ Unique(q.registry)
      /\ Current.registry \subseteq q.registry
  BY <1>3, <1>4 DEF OneMore, Additions, SetInv
<1>6. Current'.registry = q.registry
  BY <1>1 DEF Current
<1>7. \A e : Clashes(Current, e) => Clashes(Current', e)
  BY <1>5, <1>6, ClashesGrow
<1>8. ASSUME ~failed, NEW n \in 1 .. Len(q.visitors) PROVE q.visitors[n][2] = Own
  <2>1. visitors \in Seq(Labels) /\ \A m \in 1 .. Len(visitors) : visitors[m][2] = Own
    BY <1>1, <1>8 DEF SetInv
  <2>2. <<d.name, Own>> \in Labels
    BY <1>2 DEF Labels, Names
  <2>3. CASE q.visitors = visitors
    BY <1>8, <2>1, <2>3
  <2>4. CASE q.visitors = Append(visitors, <<d.name, Own>>)
    <3>1. /\ Len(q.visitors) = Len(visitors) + 1 /\ Len(visitors) \in Nat
          /\ \A m \in 1 .. Len(visitors) : q.visitors[m] = visitors[m]
          /\ q.visitors[Len(visitors) + 1] = <<d.name, Own>>
      BY <2>1, <2>2, <2>4, AppendProperties
    <3>2. n = Len(visitors) + 1 \/ n \in 1 .. Len(visitors)
      BY <1>8, <3>1
    <3> QED
      BY <2>1, <3>1, <3>2
  <2> QED
    BY <1>1, <1>3, <1>4, <2>3, <2>4 DEF OneMore
<1> QED
  BY <1>1, <1>5, <1>7, <1>8 DEF SetInv

LEMMA AddExtensionKeepsSet ==
    ASSUME SetInv, NEW e \in DOMAIN Provides, addExtension(e) PROVE SetInv'
<1>. DEFINE es == extensions
            gs == Append(extensions, e)
            n == Len(extensions)
<1>1. /\ ~initialized /\ e \notin ToSet(es) /\ extensions' = gs
      /\ registry' = registry /\ visitors' = visitors
      /\ initialized' = initialized /\ failed' = failed
  BY DEF addExtension
<1>2. es \in Seq(DOMAIN Provides) /\ n \in Nat /\ DOMAIN es = 1 .. n
  BY DEF SetInv
<1>3. /\ gs \in Seq(DOMAIN Provides) /\ Len(gs) = n + 1
      /\ \A i \in 1 .. n : gs[i] = es[i]
      /\ gs[n + 1] = e
  BY <1>2, AppendProperties
<1>4. \A i \in 1 .. n : es[i] # e
  BY <1>1, <1>2 DEF ToSet
<1>. HIDE DEF n, gs
<1>5. \A i \in 1 .. n + 1 : i \in 1 .. n \/ i = n + 1
  BY <1>2
<1>6. \A i, j \in 1 .. n + 1 : gs[i] = gs[j] => i = j
  <2>1. \A i, j \in 1 .. n : es[i] = es[j] => i = j
    BY DEF SetInv, n
  <2> QED
    BY <1>3, <1>4, <1>5, <2>1
<1>7. Current' = Current
  BY <1>1 DEF Current
<1>8. failed => \E i \in 1 .. n + 1 : Clashes(Current, gs[i])
  <2>1. SUFFICES ASSUME failed PROVE \E i \in 1 .. n + 1 : Clashes(Current, gs[i])
    OBVIOUS
  <2>2. PICK i \in 1 .. n : Clashes(Current, es[i])
    BY <2>1 DEF SetInv, n
  <2>3. i \in 1 .. n + 1
    BY <1>2
  <2> QED
    BY <1>3, <2>2, <2>3
<1> QED
  BY <1>1, <1>3, <1>6, <1>7, <1>8 DEF SetInv

LEMMA SetStays ==
    ASSUME SetInv, UNCHANGED extensionVars PROVE SetInv'
<1>1. /\ extensions' = extensions /\ registry' = registry /\ visitors' = visitors
      /\ initialized' = initialized /\ failed' = failed
  BY DEF extensionVars
<1>2. Current' = Current
  BY <1>1 DEF Current
<1> QED
  BY <1>1, <1>2 DEF SetInv

LEMMA InitSet == Init => SetInv
<1>1. SUFFICES ASSUME Init PROVE SetInv
  OBVIOUS
<1>2. extensions = << >> /\ registry = {} /\ visitors = << >> /\ initialized = FALSE /\ failed = FALSE
  BY <1>1 DEF Init, InitExtensions
<1>3. << >> \in Seq(DOMAIN Provides) /\ << >> \in Seq(Labels) /\ Len(<< >>) = 0 /\ 1 .. 0 = {}
  OBVIOUS
<1>4. Unique({})
  BY DEF Unique
<1> QED
  BY <1>2, <1>3, <1>4 DEF SetInv

LEMMA StepSet == SetInv /\ [Next]_vars => SetInv'
<1>. SUFFICES ASSUME SetInv, [Next]_vars PROVE SetInv'
  OBVIOUS
<1>1. CASE UNCHANGED vars
  BY <1>1, SetStays DEF vars
<1>2. CASE Register
  BY <1>2, AddExtensionKeepsSet, AddDefinitionKeepsSet, InitKeepsSet DEF Register
<1>3. ASSUME NEW r \in Renders, Resolve(r) PROVE SetInv'
  BY <1>3, InitKeepsSet, SetStays DEF Resolve, Ask
<1>4. ASSUME NEW r \in Renders,
             \/ Render(r) \/ Missing(r) \/ Display(r)
             \/ IncludeFunction(r) \/ IncludeNothing(r) \/ IncludeTag(r) \/ EnterSandbox(r) \/ LeaveSandbox(r)
             \/ Throw(r) \/ EndDisplay(r) \/ Return(r) \/ Continue(r) \/ Unwind(r)
      PROVE  SetInv'
  <2>1. UNCHANGED extensionVars
    BY <1>4 DEF Render, Missing, Display, IncludeFunction, IncludeNothing, IncludeTag, EnterSandbox,
       LeaveSandbox, Throw, EndDisplay, Return, Continue, Unwind
  <2> QED
    BY <2>1, SetStays
<1> QED
  BY <1>1, <1>2, <1>3, <1>4 DEF Next

(* Once the extension set answers a question it has all that its           *)
(* extensions provide, each definition once and each under the name of the *)
(* extension that provides it, and no initialisation of it has ever thrown *)
(* (TwingExtensionSet.initExtensions): what has made one throw makes the   *)
(* next one throw.                                                         *)
THEOREM SetIsWhole == Spec => []WholeOrNothing
<1>1. SetInv => WholeOrNothing
  <2>1. SUFFICES ASSUME SetInv, initialized PROVE WholeOrNothing
    BY DEF WholeOrNothing
  <2>2. /\ ~failed /\ Unique(registry) /\ extensions \in Seq(DOMAIN Provides)
        /\ \A i \in 1 .. Len(extensions) :
             Registered(Current, extensions[i]) /\ EachOnce(visitors, extensions[i])
    BY <2>1 DEF SetInv
  <2>3. \A e \in ToSet(extensions) : Registered(Current, e) /\ EachOnce(visitors, e)
    BY <2>2 DEF ToSet
  <2>4. ASSUME NEW e \in ToSet(extensions), NEW d \in ToSet(Provides[e]), ~Named(d)
        PROVE  Cardinality({n \in DOMAIN visitors : visitors[n] = <<d.name, e>>}) = 1
    <3>1. PICK i \in DOMAIN visitors : At(visitors, <<d.name, e>>) = {i}
      BY <2>3, <2>4 DEF EachOnce
    <3>2. {n \in DOMAIN visitors : visitors[n] = <<d.name, e>>} = {i}
      BY <3>1 DEF At
    <3> QED
      BY <3>2, FS_Singleton
  <2>5. ASSUME NEW e \in ToSet(extensions), NEW d \in ToSet(Provides[e]), Named(d)
        PROVE  {known \in registry : known.kind = d.kind /\ known.name = d.name}
                 = {[kind |-> d.kind, name |-> d.name, by |-> e]}
    <3>1. Entry(d, e) \in registry
      BY <2>1, <2>3, <2>5, CurrentIs DEF Registered
    <3>2. Entry(d, e).kind = d.kind /\ Entry(d, e).name = d.name
      BY DEF Entry
    <3>3. \A known \in registry : known.kind = d.kind /\ known.name = d.name => known = Entry(d, e)
      BY <2>2, <3>1, <3>2 DEF Unique
    <3>4. {known \in registry : known.kind = d.kind /\ known.name = d.name} = {Entry(d, e)}
      BY <3>1, <3>2, <3>3
    <3> QED
      BY <3>4 DEF Entry
  <2> QED
    BY <2>2, <2>4, <2>5 DEF WholeOrNothing, Named
<1> QED
  BY <1>1, InitSet, StepSet, PTL DEF Spec

-----------------------------------------------------------------------------
(* The arguments of a call. What is passed, and the state of a binding.    *)

Passed(given, accepted) ==
    {given[k][2] : k \in DOMAIN given} \cup {<<"default", accepted[k].name>> : k \in DOMAIN accepted}

Bindings(given, accepted) ==
    [given : {given}, arguments : Seq(Passed(given, accepted)), optional : Seq(Passed(given, accepted)),
     left : SUBSET DOMAIN given, pos : Nat, rejected : BOOLEAN]

(* After the n-th parameter: each has what is meant for it, some of the    *)
(* last ones a default that is not passed yet; positional arguments are    *)
(* left from pos on, named ones if no parameter so far has their name and  *)
(* no later one has it too; and what is not left was passed, or has the    *)
(* name of a later one.                                                    *)
NoneWrong(given, accepted, n) == \A k \in 1 .. n : ~WrongAt(given, accepted, k)

Taken(given, accepted, args, opt, n) ==
    /\ Len(args) + Len(opt) = n
    /\ \A k \in 1 .. Len(args) : args[k] = Meant(given, accepted, k)
    /\ \A k \in 1 .. Len(opt) : opt[k] = Meant(given, accepted, Len(args) + k)

Reached(given, pos, n) ==
    /\ 1 <= pos /\ pos <= n + 1
    /\ \A k \in 1 .. n : IsPositional(given, k) <=> k < pos

Unnamed(given, accepted, j, n) == \A k \in 1 .. n : accepted[k].name # given[j][1]

Remains(given, accepted, left, pos, n) ==
    /\ \A j \in DOMAIN given : given[j][1] = Positional => (j \in left <=> pos <= j)
    /\ \A j \in DOMAIN given :
         given[j][1] # Positional => (j \in left <=> j \in Survivors(given) /\ Unnamed(given, accepted, j, n))

Kept(given, args, left) ==
    \A j \in Survivors(given) : j \in left \/ \E k \in 1 .. Len(args) : args[k] = given[j][2]

InPlace(given, accepted, args, opt, left, pos, n) ==
    /\ NoneWrong(given, accepted, n)
    /\ Taken(given, accepted, args, opt, n)
    /\ Reached(given, pos, n)
    /\ Remains(given, accepted, left, pos, n)
    /\ Kept(given, args, left)

BoundTo(b, given, accepted, n) ==
    /\ b \in Bindings(given, accepted)
    /\ b.rejected => \E k \in 1 .. n : WrongAt(given, accepted, k)
    /\ ~b.rejected => InPlace(given, accepted, b.arguments, b.optional, b.left, b.pos, n)

(* What a template can give and a callable accept, by normalised names.    *)
Fitting(given, accepted) ==
    /\ Len(given) \in Nat /\ DOMAIN given = 1 .. Len(given)
    /\ \A k \in DOMAIN given : given[k][2] # Rejected[1] /\ given[k][2][1] # "rest"
    /\ Len(accepted) \in Nat /\ DOMAIN accepted = 1 .. Len(accepted)
    /\ \A j, k \in DOMAIN accepted : accepted[j].name = accepted[k].name => j = k
    /\ \A k \in DOMAIN accepted : accepted[k].name # Positional /\ accepted[k].optional \in BOOLEAN

LEMMA CallsFit ==
    ASSUME NEW given \in Calls, NEW accepted \in Signatures
    PROVE  Fitting(Parameters(given), CallableParameters(accepted))
<1>. DEFINE p == Parameters(given)
            a == CallableParameters(accepted)
<1>1. given \in Seq({given[k] : k \in DOMAIN given})
  BY ArgumentsAssumption
<1>2. accepted \in Seq({accepted[k] : k \in DOMAIN accepted})
  BY ArgumentsAssumption
<1>3. Len(given) \in Nat /\ DOMAIN given = 1 .. Len(given)
  BY <1>1
<1>4. Len(accepted) \in Nat /\ DOMAIN accepted = 1 .. Len(accepted)
  BY <1>2
<1>5. /\ DOMAIN p = 1 .. Len(given)
      /\ \A k \in DOMAIN p : p[k][2] = given[k][2]
  BY <1>3 DEF Parameters
<1>6. /\ DOMAIN a = 1 .. Len(accepted)
      /\ \A k \in DOMAIN a : a[k].name = normalizeName[accepted[k].name] /\ a[k].optional = accepted[k].optional
  BY <1>4 DEF CallableParameters
<1>7. Len(p) = Len(given) /\ Len(a) = Len(accepted)
  <2>1. p \in Seq({p[k] : k \in DOMAIN p}) /\ a \in Seq({a[k] : k \in DOMAIN a})
    BY <1>3, <1>4 DEF Parameters, CallableParameters
  <2>. HIDE DEF p, a
  <2>2. Len(p) \in Nat /\ DOMAIN p = 1 .. Len(p) /\ Len(a) \in Nat /\ DOMAIN a = 1 .. Len(a)
    BY <2>1
  <2> QED
    BY <1>3, <1>4, <1>5, <1>6, <2>2
<1>. HIDE DEF p, a
<1>8. \A k \in DOMAIN p : p[k][2] # Rejected[1] /\ p[k][2][1] # "rest"
  BY <1>3, <1>5, ArgumentsAssumption
<1>9. ASSUME NEW j \in DOMAIN a, NEW k \in DOMAIN a, a[j].name = a[k].name PROVE j = k
  <2>1. j \in DOMAIN accepted /\ k \in DOMAIN accepted
    BY <1>4, <1>6
  <2>2. normalizeName[accepted[j].name] = normalizeName[accepted[k].name]
    BY <1>6, <1>9
  <2> QED
    BY <2>1, <2>2, ArgumentsAssumption
<1>10. ASSUME NEW k \in DOMAIN a PROVE a[k].name # Positional /\ a[k].optional \in BOOLEAN
  <2>1. k \in DOMAIN accepted
    BY <1>4, <1>6
  <2>2. accepted[k].name \in DOMAIN normalizeName /\ accepted[k].optional \in BOOLEAN
    BY <2>1, ArgumentsAssumption
  <2>3. normalizeName[accepted[k].name] # Positional
    BY <2>2, ArgumentsAssumption
  <2> QED
    BY <1>6, <2>2, <2>3
<1>11. Fitting(p, a)
  BY <1>3, <1>4, <1>5, <1>6, <1>7, <1>8, <1>9, <1>10 DEF Fitting
<1> QED
  BY <1>11 DEF p, a

(* Of the arguments with one name, the last one survives, and only that.   *)
LEMMA SurvivorIs ==
    ASSUME NEW given, NEW accepted, Fitting(given, accepted),
           NEW name, name # Positional, IsNamed(given, name)
    PROVE  \E k \in Survivors(given) : {j \in Survivors(given) : given[j][1] = name} = {k}
<1>. DEFINE After == {d \in Nat : \E k \in DOMAIN given : d = Len(given) - k /\ given[k][1] = name}
<1>1. DOMAIN given = 1 .. Len(given) /\ Len(given) \in Nat
  BY DEF Fitting
<1>2. ASSUME NEW k \in DOMAIN given, given[k][1] = name PROVE Len(given) - k \in After
  <2>1. Len(given) - k \in Nat
    BY <1>1
  <2> QED
    BY <1>2, <2>1
<1>3. After # {}
  BY <1>2 DEF IsNamed
<1>4. After \in SUBSET Nat
  OBVIOUS
<1>. HIDE DEF After
<1>5. PICK d \in After : \A e \in After : ~ (e < d)
  BY <1>3, <1>4, LeastNat
<1>6. PICK k \in DOMAIN given : d = Len(given) - k /\ given[k][1] = name
  BY <1>5 DEF After
<1>7. ASSUME NEW j \in DOMAIN given, given[j][1] = name, j # k PROVE j < k
  <2>1. ~ (Len(given) - j < Len(given) - k)
    BY <1>2, <1>5, <1>6, <1>7
  <2> QED
    BY <1>1, <1>7, <2>1
<1>8. k \in Survivors(given)
  <2>1. ASSUME NEW j \in DOMAIN given, k < j, given[j][1] = given[k][1] PROVE FALSE
    BY <1>1, <1>6, <1>7, <2>1
  <2> QED
    BY <1>6, <2>1 DEF Survivors, Overwritten
<1>9. ASSUME NEW j \in Survivors(given), given[j][1] = name PROVE j = k
  <2>1. j \in DOMAIN given /\ ~Overwritten(given, j)
    BY DEF Survivors
  <2>2. ~ (j < k)
    BY <1>6, <1>9, <2>1 DEF Overwritten
  <2> QED
    BY <1>7, <1>9, <2>1, <2>2
<1> QED
  BY <1>6, <1>8, <1>9

(* An argument at a place survives.                                        *)
LEMMA PlacesSurvive ==
    ASSUME NEW given
    PROVE  /\ Survivors(given) \in SUBSET DOMAIN given
           /\ \A j \in DOMAIN given : given[j][1] = Positional => j \in Survivors(given)
BY DEF Survivors, Overwritten

LEMMA JoinedIs ==
    ASSUME NEW S, NEW s \in Seq(S), NEW t \in Seq(S), NEW x \in S
    PROVE  /\ Append(s \o t, x) \in Seq(S)
           /\ Len(Append(s \o t, x)) = Len(s) + Len(t) + 1
           /\ \A k \in 1 .. Len(s) : Append(s \o t, x)[k] = s[k]
           /\ \A k \in 1 .. Len(t) : Append(s \o t, x)[Len(s) + k] = t[k]
           /\ Append(s \o t, x)[Len(s) + Len(t) + 1] = x
           /\ Append(s \o t, x) = s \o t \o <<x>>
<1>1. /\ s \o t \in Seq(S) /\ Len(s \o t) = Len(s) + Len(t)
      /\ Len(s) \in Nat /\ Len(t) \in Nat
      /\ \A k \in 1 .. Len(s) + Len(t) : (s \o t)[k] = IF k <= Len(s) THEN s[k] ELSE t[k - Len(s)]
  BY ConcatProperties
<1>. DEFINE u == s \o t
            v == Append(u, x)
<1>2. v = u \o <<x>>
  BY <1>1
<1>. HIDE DEF u
<1>3. /\ v \in Seq(S) /\ Len(v) = Len(u) + 1
      /\ \A k \in 1 .. Len(u) : v[k] = u[k]
      /\ v[Len(u) + 1] = x
  BY <1>1, AppendProperties DEF u
<1>. HIDE DEF v
<1>4. \A k \in 1 .. Len(s) : v[k] = s[k]
  <2>1. ASSUME NEW k \in 1 .. Len(s) PROVE v[k] = s[k]
    <3>1. k \in 1 .. Len(s) + Len(t) /\ k <= Len(s)
      BY <1>1
    <3> QED
      BY <1>1, <1>3, <3>1 DEF u
  <2> QED
    BY <2>1
<1>5. \A k \in 1 .. Len(t) : v[Len(s) + k] = t[k]
  <2>1. ASSUME NEW k \in 1 .. Len(t) PROVE v[Len(s) + k] = t[k]
    <3>1. Len(s) + k \in 1 .. Len(s) + Len(t) /\ ~ (Len(s) + k <= Len(s)) /\ (Len(s) + k) - Len(s) = k
      BY <1>1
    <3> QED
      BY <1>1, <1>3, <3>1 DEF u
  <2> QED
    BY <2>1
<1> QED
  BY <1>1, <1>2, <1>3, <1>4, <1>5 DEF u, v

LEMMA FittingAt ==
    ASSUME NEW given, NEW accepted, Fitting(given, accepted), NEW n \in 1 .. Len(accepted)
    PROVE  /\ n \in Nat \ {0} /\ n - 1 \in Nat /\ n - 1 + 1 = n /\ n \in DOMAIN accepted
           /\ accepted[n].name # Positional /\ accepted[n].optional \in BOOLEAN
           /\ \A k \in 1 .. n - 1 : accepted[k].name # accepted[n].name
           /\ \A k \in 1 .. n : k = n \/ k \in 1 .. n - 1
           /\ \A k \in 1 .. n - 1 : k \in 1 .. n
           /\ n \in 1 .. n
<1>1. Len(accepted) \in Nat /\ DOMAIN accepted = 1 .. Len(accepted)
  BY DEF Fitting
<1>2. n \in Nat \ {0} /\ n - 1 \in Nat /\ n - 1 + 1 = n /\ n \in DOMAIN accepted
  BY <1>1
<1>3. ASSUME NEW k \in 1 .. n - 1 PROVE accepted[k].name # accepted[n].name
  <2>1. k \in DOMAIN accepted /\ k # n
    BY <1>1, <1>2
  <2> QED
    BY <1>2, <2>1 DEF Fitting
<1>4. accepted[n].name # Positional /\ accepted[n].optional \in BOOLEAN
  BY <1>2 DEF Fitting
<1>5. /\ \A k \in 1 .. n : k = n \/ k \in 1 .. n - 1
      /\ \A k \in 1 .. n - 1 : k \in 1 .. n
      /\ n \in 1 .. n
  BY <1>2
<1> QED
  BY <1>2, <1>3, <1>4, <1>5

(* The argument with the name of a parameter, if there is one, is left.    *)
LEMMA NamedIs ==
    ASSUME NEW given, NEW accepted, Fitting(given, accepted),
           NEW n \in 1 .. Len(accepted), NEW left \in SUBSET DOMAIN given, NEW pos,
           Remains(given, accepted, left, pos, n - 1)
    PROVE  LET named == {k \in left : given[k][1] = accepted[n].name}
           IN  /\ named # {} <=> IsNamed(given, accepted[n].name)
               /\ \A k \in named : /\ named = {k} /\ k \in Survivors(given)
                                   /\ given[k][2] = Meant(given, accepted, n)
<1>. DEFINE name == accepted[n].name
            named == {k \in left : given[k][1] = name}
            surviving == {k \in Survivors(given) : given[k][1] = name}
<1>1. name # Positional /\ \A i \in 1 .. n - 1 : accepted[i].name # name
  BY FittingAt
<1>2. ASSUME NEW k \in DOMAIN given, given[k][1] = name PROVE k \in left <=> k \in Survivors(given)
  <2>1. Unnamed(given, accepted, k, n - 1)
    BY <1>1, <1>2, Zenon DEF Unnamed
  <2>2. given[k][1] # Positional
    BY <1>1, <1>2
  <2> QED
    BY <2>1, <2>2 DEF Remains
<1>3. named = surviving
  BY <1>2, PlacesSurvive
<1>4. ASSUME NEW k \in named PROVE IsNamed(given, name)
  BY DEF IsNamed
<1>5. ASSUME IsNamed(given, name) PROVE \E k \in surviving : surviving = {k}
  BY <1>1, <1>5, SurvivorIs
<1>6. ASSUME NEW k \in named
      PROVE  named = {k} /\ k \in Survivors(given) /\ given[k][2] = Meant(given, accepted, n)
  <2>1. IsNamed(given, name)
    BY <1>4
  <2>2. surviving = {k}
    BY <1>3, <1>5, <2>1
  <2>3. (CHOOSE j \in Survivors(given) : given[j][1] = name) = k
    BY <2>2
  <2>4. Meant(given, accepted, n) = given[k][2]
    BY <2>1, <2>3 DEF Meant
  <2> QED
    BY <1>3, <2>2, <2>4
<1> QED
  BY <1>3, <1>4, <1>5, <1>6

(* So is the one at its place; the positional arguments come first.        *)
LEMMA PlacedIs ==
    ASSUME NEW given, NEW accepted, Fitting(given, accepted), ~Misplaced(given),
           NEW n \in 1 .. Len(accepted), NEW left \in SUBSET DOMAIN given, NEW pos \in Nat,
           Remains(given, accepted, left, pos, n - 1), Reached(given, pos, n - 1)
    PROVE  LET placed == {k \in left : given[k][1] = Positional /\ k = pos}
           IN  /\ placed # {} <=> IsPositional(given, n)
               /\ IsPositional(given, n) => pos = n /\ n \in left
<1>. DEFINE placed == {k \in left : given[k][1] = Positional /\ k = pos}
<1>1. n \in Nat \ {0} /\ n - 1 \in Nat /\ n - 1 + 1 = n
  BY FittingAt
<1>2. 1 <= pos /\ pos <= n
  BY <1>1 DEF Reached
<1>3. \A k \in 1 .. n - 1 : IsPositional(given, k) <=> k < pos
  BY DEF Reached
<1>4. Len(given) \in Nat /\ DOMAIN given = 1 .. Len(given)
  BY DEF Fitting
<1>5. pos = n \/ (pos \in 1 .. n - 1 /\ ~IsPositional(given, pos))
  <2>1. pos = n \/ pos \in 1 .. n - 1
    BY <1>1, <1>2
  <2>2. pos \in 1 .. n - 1 => ~IsPositional(given, pos)
    BY <1>3
  <2> QED
    BY <2>1, <2>2
<1>6. ASSUME IsPositional(given, n) PROVE pos = n /\ n \in left /\ placed # {}
  <2>1. n \in DOMAIN given /\ given[n][1] = Positional
    BY <1>6 DEF IsPositional
  <2>2. pos = n
    <3>1. SUFFICES ASSUME pos # n PROVE FALSE
      OBVIOUS
    <3>2. pos \in 1 .. n - 1 /\ ~IsPositional(given, pos)
      BY <1>5, <3>1
    <3>3. n \in 1 .. Len(given) /\ pos \in 1 .. n - 1
      BY <1>4, <2>1, <3>2, Zenon
    <3>4. pos \in 1 .. Len(given) /\ pos < n
      BY <1>1, <1>4, <3>3
    <3> QED
      BY <1>4, <2>1, <3>2, <3>4 DEF IsPositional, Misplaced
  <2>3. pos <= n
    BY <1>1, <2>2
  <2>4. n \in left
    BY <2>1, <2>3 DEF Remains
  <2> QED
    BY <2>1, <2>2, <2>4
<1>7. ASSUME placed # {} PROVE IsPositional(given, n)
  <2>1. pos \in DOMAIN given /\ given[pos][1] = Positional
    BY <1>7
  <2>2. IsPositional(given, pos)
    BY <2>1 DEF IsPositional
  <2> QED
    BY <1>5, <2>2
<1> QED
  BY <1>6, <1>7

(* One more parameter that is not wrong.                                   *)
LEMMA MoreRight ==
    ASSUME NEW given, NEW accepted, Fitting(given, accepted), NEW n \in 1 .. Len(accepted),
           NoneWrong(given, accepted, n - 1), ~WrongAt(given, accepted, n)
    PROVE  NoneWrong(given, accepted, n)
<1>1. \A k \in 1 .. n : k = n \/ k \in 1 .. n - 1
  BY FittingAt
<1> QED
  BY <1>1, Zenon DEF NoneWrong

(* An argument is passed after the defaults: what was meant, in its place. *)
LEMMA TakenPassed ==
    ASSUME NEW given, NEW accepted, NEW S, NEW args \in Seq(S), NEW opt \in Seq(S), NEW x \in S,
           NEW n \in Nat \ {0}, Taken(given, accepted, args, opt, n - 1), x = Meant(given, accepted, n)
    PROVE  Taken(given, accepted, Append(args \o opt, x), << >>, n)
<1>. DEFINE v == Append(args \o opt, x)
<1>1. /\ Len(v) = Len(args) + Len(opt) + 1
      /\ \A k \in 1 .. Len(args) : v[k] = args[k]
      /\ \A k \in 1 .. Len(opt) : v[Len(args) + k] = opt[k]
      /\ v[Len(args) + Len(opt) + 1] = x
  BY JoinedIs
<1>2. Len(args) \in Nat /\ Len(opt) \in Nat /\ Len(args) + Len(opt) = n - 1
  BY DEF Taken
<1>. HIDE DEF v
<1>3. Len(v) = n
  BY <1>1, <1>2
<1>4. ASSUME NEW k \in 1 .. n PROVE v[k] = Meant(given, accepted, k)
  <2>1. CASE k \in 1 .. Len(args)
    <3>1. args[k] = Meant(given, accepted, k)
      BY <2>1 DEF Taken
    <3> QED
      BY <1>1, <2>1, <3>1
  <2>2. CASE k - Len(args) \in 1 .. Len(opt)
    <3>1. opt[k - Len(args)] = Meant(given, accepted, Len(args) + (k - Len(args)))
      BY <2>2 DEF Taken
    <3>2. v[Len(args) + (k - Len(args))] = opt[k - Len(args)]
      BY <1>1, <2>2
    <3>3. Len(args) + (k - Len(args)) = k
      BY <1>2
    <3> QED
      BY <3>1, <3>2, <3>3
  <2>3. CASE k = n
    <3>1. Len(args) + Len(opt) + 1 = n
      BY <1>2
    <3> QED
      BY <1>1, <2>3, <3>1
  <2>4. k \in 1 .. Len(args) \/ k - Len(args) \in 1 .. Len(opt) \/ k = n
    BY <1>2
  <2> QED
    BY <2>1, <2>2, <2>3, <2>4
<1>5. Len(<< >>) = 0
  OBVIOUS
<1>6. Taken(given, accepted, v, << >>, n)
  BY <1>3, <1>4, <1>5 DEF Taken
<1> QED
  BY <1>6 DEF v

LEMMA KeptPassed ==
    ASSUME NEW given, NEW left, NEW S, NEW args \in Seq(S), NEW opt \in Seq(S), NEW i,
           given[i][2] \in S, Kept(given, args, left)
    PROVE  Kept(given, Append(args \o opt, given[i][2]), left \ {i})
<1>. DEFINE v == Append(args \o opt, given[i][2])
<1>1. /\ Len(v) = Len(args) + Len(opt) + 1
      /\ \A k \in 1 .. Len(args) : v[k] = args[k]
      /\ v[Len(args) + Len(opt) + 1] = given[i][2]
  BY JoinedIs
<1>2. Len(args) \in Nat /\ Len(opt) \in Nat
  OBVIOUS
<1>. HIDE DEF v
<1>3. Len(v) \in 1 .. Len(v) /\ v[Len(v)] = given[i][2]
  BY <1>1, <1>2
<1>4. \A k \in 1 .. Len(args) : k \in 1 .. Len(v)
  BY <1>1, <1>2
<1>5. ASSUME NEW j \in Survivors(given)
      PROVE  j \in left \ {i} \/ \E k \in 1 .. Len(v) : v[k] = given[j][2]
  <2>1. CASE j = i
    BY <1>3, <2>1
  <2>2. CASE \E k \in 1 .. Len(args) : args[k] = given[j][2]
    BY <1>1, <1>4, <2>2
  <2> QED
    BY <2>1, <2>2 DEF Kept
<1>6. Kept(given, v, left \ {i})
  BY <1>5 DEF Kept
<1> QED
  BY <1>6 DEF v

(* A default is held back: it was meant too.                               *)
LEMMA TakenHeld ==
    ASSUME NEW given, NEW accepted, NEW S, NEW args \in Seq(S), NEW opt \in Seq(S), NEW x \in S,
           NEW n \in Nat \ {0}, Taken(given, accepted, args, opt, n - 1), x = Meant(given, accepted, n)
    PROVE  Taken(given, accepted, args, Append(opt, x), n)
<1>. DEFINE v == Append(opt, x)
<1>1. /\ Len(v) = Len(opt) + 1
      /\ \A k \in 1 .. Len(opt) : v[k] = opt[k]
      /\ v[Len(opt) + 1] = x
  BY AppendProperties
<1>2. Len(args) \in Nat /\ Len(opt) \in Nat /\ Len(args) + Len(opt) = n - 1
  BY DEF Taken
<1>. HIDE DEF v
<1>3. Len(args) + Len(v) = n /\ Len(args) + (Len(opt) + 1) = n
  BY <1>1, <1>2
<1>4. ASSUME NEW k \in 1 .. Len(v) PROVE v[k] = Meant(given, accepted, Len(args) + k)
  <2>1. CASE k \in 1 .. Len(opt)
    <3>1. opt[k] = Meant(given, accepted, Len(args) + k)
      BY <2>1 DEF Taken
    <3> QED
      BY <1>1, <2>1, <3>1
  <2>2. CASE k = Len(opt) + 1
    BY <1>1, <1>3, <2>2
  <2>3. k \in 1 .. Len(opt) \/ k = Len(opt) + 1
    BY <1>1, <1>2
  <2> QED
    BY <2>1, <2>2, <2>3
<1>5. Taken(given, accepted, args, v, n)
  BY <1>3, <1>4 DEF Taken
<1> QED
  BY <1>5 DEF v

LEMMA UnnamedMore ==
    ASSUME NEW given, NEW accepted, Fitting(given, accepted), NEW n \in 1 .. Len(accepted), NEW j
    PROVE  Unnamed(given, accepted, j, n) <=>
             (Unnamed(given, accepted, j, n - 1) /\ accepted[n].name # given[j][1])
<1>1. /\ \A k \in 1 .. n : k = n \/ k \in 1 .. n - 1
      /\ \A k \in 1 .. n - 1 : k \in 1 .. n
      /\ n \in 1 .. n
  BY FittingAt
<1> QED
  BY <1>1, Zenon DEF Unnamed

(* The place that is reached, and what remains, in the three cases in      *)
(* which a parameter is bound.                                             *)
LEMMA ReachedSame ==
    ASSUME NEW given, NEW pos \in Nat, NEW n \in Nat \ {0},
           Reached(given, pos, n - 1), ~IsPositional(given, n)
    PROVE  Reached(given, pos, n)
<1>1. 1 <= pos /\ pos <= n
  BY DEF Reached
<1>2. ASSUME NEW k \in 1 .. n PROVE IsPositional(given, k) <=> k < pos
  <2>1. CASE k = n
    BY <1>1, <2>1
  <2>2. CASE k \in 1 .. n - 1
    BY <2>2 DEF Reached
  <2>3. k = n \/ k \in 1 .. n - 1
    OBVIOUS
  <2> QED
    BY <2>1, <2>2, <2>3
<1> QED
  BY <1>1, <1>2 DEF Reached

LEMMA ReachedNext ==
    ASSUME NEW given, NEW n \in Nat \ {0},
           Reached(given, n, n - 1), IsPositional(given, n)
    PROVE  Reached(given, n + 1, n)
<1>1. ASSUME NEW k \in 1 .. n PROVE IsPositional(given, k) <=> k < n + 1
  <2>1. k < n + 1
    OBVIOUS
  <2>2. CASE k = n
    BY <2>1, <2>2
  <2>3. CASE k \in 1 .. n - 1
    <3>1. k < n
      BY <2>3
    <3>2. IsPositional(given, k)
      BY <2>3, <3>1 DEF Reached
    <3> QED
      BY <2>1, <3>2
  <2>4. k = n \/ k \in 1 .. n - 1
    OBVIOUS
  <2> QED
    BY <2>2, <2>3, <2>4
<1> QED
  BY <1>1 DEF Reached

LEMMA RemainsNamed ==
    ASSUME NEW given, NEW accepted, Fitting(given, accepted), NEW n \in 1 .. Len(accepted),
           NEW left \in SUBSET DOMAIN given, NEW pos,
           Remains(given, accepted, left, pos, n - 1),
           NEW i \in Survivors(given), given[i][1] = accepted[n].name
    PROVE  Remains(given, accepted, left \ {i}, pos, n)
<1>1. given[i][1] # Positional
  BY FittingAt
<1>2. ASSUME NEW j \in DOMAIN given, given[j][1] = Positional
      PROVE  j \in left \ {i} <=> pos <= j
  <2>1. j # i
    BY <1>1, <1>2
  <2> QED
    BY <1>2, <2>1 DEF Remains
<1>3. ASSUME NEW j \in DOMAIN given, given[j][1] # Positional
      PROVE  j \in left \ {i} <=> j \in Survivors(given) /\ Unnamed(given, accepted, j, n)
  <2>1. j \in left <=> j \in Survivors(given) /\ Unnamed(given, accepted, j, n - 1)
    BY <1>3 DEF Remains
  <2>2. j \in Survivors(given) => (j = i <=> accepted[n].name = given[j][1])
    <3>1. i \in DOMAIN given /\ IsNamed(given, accepted[n].name)
      BY PlacesSurvive DEF IsNamed
    <3>2. \E k \in Survivors(given) : {m \in Survivors(given) : given[m][1] = accepted[n].name} = {k}
      BY <1>1, <3>1, SurvivorIs
    <3> QED
      BY <3>2
  <2>3. Unnamed(given, accepted, j, n) <=>
          (Unnamed(given, accepted, j, n - 1) /\ accepted[n].name # given[j][1])
    BY UnnamedMore
  <2> QED
    BY <2>1, <2>2, <2>3
<1> QED
  BY <1>2, <1>3 DEF Remains

LEMMA RemainsPlaced ==
    ASSUME NEW given, NEW accepted, Fitting(given, accepted), NEW n \in 1 .. Len(accepted),
           NEW left \in SUBSET DOMAIN given,
           Remains(given, accepted, left, n, n - 1),
           IsPositional(given, n), ~IsNamed(given, accepted[n].name)
    PROVE  Remains(given, accepted, left \ {n}, n + 1, n)
<1>1. n \in DOMAIN given /\ given[n][1] = Positional
  BY DEF IsPositional
<1>2. DOMAIN given = 1 .. Len(given) /\ n \in Nat
  <2>1. n \in Nat
    BY FittingAt
  <2> QED
    BY <2>1 DEF Fitting
<1>3. ASSUME NEW j \in DOMAIN given, given[j][1] = Positional
      PROVE  j \in left \ {n} <=> n + 1 <= j
  <2>1. j \in left <=> n <= j
    BY <1>3 DEF Remains
  <2>2. (n <= j /\ j # n) <=> n + 1 <= j
    BY <1>2
  <2> QED
    BY <2>1, <2>2
<1>4. ASSUME NEW j \in DOMAIN given, given[j][1] # Positional
      PROVE  j \in left \ {n} <=> j \in Survivors(given) /\ Unnamed(given, accepted, j, n)
  <2>1. j \in left <=> j \in Survivors(given) /\ Unnamed(given, accepted, j, n - 1)
    BY <1>4 DEF Remains
  <2>2. j # n /\ accepted[n].name # given[j][1]
    BY <1>1, <1>4 DEF IsNamed
  <2>3. Unnamed(given, accepted, j, n) <=>
          (Unnamed(given, accepted, j, n - 1) /\ accepted[n].name # given[j][1])
    BY UnnamedMore
  <2> QED
    BY <2>1, <2>2, <2>3
<1> QED
  BY <1>3, <1>4 DEF Remains

LEMMA RemainsSame ==
    ASSUME NEW given, NEW accepted, Fitting(given, accepted), NEW n \in 1 .. Len(accepted),
           NEW left \in SUBSET DOMAIN given, NEW pos,
           Remains(given, accepted, left, pos, n - 1),
           ~IsNamed(given, accepted[n].name)
    PROVE  Remains(given, accepted, left, pos, n)
<1>1. ASSUME NEW j \in DOMAIN given, given[j][1] # Positional
      PROVE  j \in left <=> j \in Survivors(given) /\ Unnamed(given, accepted, j, n)
  <2>1. j \in left <=> j \in Survivors(given) /\ Unnamed(given, accepted, j, n - 1)
    BY <1>1 DEF Remains
  <2>2. accepted[n].name # given[j][1]
    BY DEF IsNamed
  <2>3. Unnamed(given, accepted, j, n) <=>
          (Unnamed(given, accepted, j, n - 1) /\ accepted[n].name # given[j][1])
    BY UnnamedMore
  <2> QED
    BY <2>1, <2>2, <2>3
<1> QED
  BY <1>1 DEF Remains

(* One parameter is bound: by its name, at its place, or to its default.   *)
LEMMA NamedInPlace ==
    ASSUME NEW given, NEW accepted, Fitting(given, accepted), NEW n \in 1 .. Len(accepted),
           NEW args \in Seq(Passed(given, accepted)), NEW opt \in Seq(Passed(given, accepted)),
           NEW left \in SUBSET DOMAIN given, NEW pos \in Nat,
           InPlace(given, accepted, args, opt, left, pos, n - 1),
           NEW i \in Survivors(given), given[i][1] = accepted[n].name,
           given[i][2] = Meant(given, accepted, n), ~IsPositional(given, n)
    PROVE  InPlace(given, accepted, Append(args \o opt, given[i][2]), << >>, left \ {i}, pos, n)
<1>1. n \in Nat \ {0} /\ i \in DOMAIN given
  BY FittingAt, PlacesSurvive
<1>2. given[i][2] \in Passed(given, accepted)
  BY <1>1 DEF Passed
<1>3. IsNamed(given, accepted[n].name)
  BY <1>1 DEF IsNamed
<1>4. NoneWrong(given, accepted, n)
  BY <1>3, MoreRight DEF InPlace, WrongAt
<1>5. Taken(given, accepted, Append(args \o opt, given[i][2]), << >>, n)
  BY <1>1, <1>2, TakenPassed DEF InPlace
<1>6. Reached(given, pos, n)
  BY <1>1, ReachedSame DEF InPlace
<1>7. Remains(given, accepted, left \ {i}, pos, n)
  BY RemainsNamed DEF InPlace
<1>8. Kept(given, Append(args \o opt, given[i][2]), left \ {i})
  BY <1>2, KeptPassed DEF InPlace
<1> QED
  BY <1>4, <1>5, <1>6, <1>7, <1>8 DEF InPlace

LEMMA PlacedInPlace ==
    ASSUME NEW given, NEW accepted, Fitting(given, accepted), NEW n \in 1 .. Len(accepted),
           NEW args \in Seq(Passed(given, accepted)), NEW opt \in Seq(Passed(given, accepted)),
           NEW left \in SUBSET DOMAIN given,
           InPlace(given, accepted, args, opt, left, n, n - 1),
           IsPositional(given, n), ~IsNamed(given, accepted[n].name)
    PROVE  InPlace(given, accepted, Append(args \o opt, given[n][2]), << >>, left \ {n}, n + 1, n)
<1>1. n \in Nat \ {0}
  BY FittingAt
<1>2. n \in DOMAIN given
  BY DEF IsPositional
<1>3. given[n][2] \in Passed(given, accepted)
  BY <1>2 DEF Passed
<1>4. given[n][2] = Meant(given, accepted, n)
  BY DEF Meant
<1>5. NoneWrong(given, accepted, n)
  BY MoreRight DEF InPlace, WrongAt
<1>6. Taken(given, accepted, Append(args \o opt, given[n][2]), << >>, n)
  BY <1>1, <1>3, <1>4, TakenPassed DEF InPlace
<1>7. Reached(given, n + 1, n)
  BY <1>1, ReachedNext DEF InPlace
<1>8. Remains(given, accepted, left \ {n}, n + 1, n)
  BY RemainsPlaced DEF InPlace
<1>9. Kept(given, Append(args \o opt, given[n][2]), left \ {n})
  BY <1>3, KeptPassed DEF InPlace
<1> QED
  BY <1>5, <1>6, <1>7, <1>8, <1>9 DEF InPlace

LEMMA HeldInPlace ==
    ASSUME NEW given, NEW accepted, Fitting(given, accepted), NEW n \in 1 .. Len(accepted),
           NEW args \in Seq(Passed(given, accepted)), NEW opt \in Seq(Passed(given, accepted)),
           NEW left \in SUBSET DOMAIN given, NEW pos \in Nat,
           InPlace(given, accepted, args, opt, left, pos, n - 1),
           ~IsPositional(given, n), ~IsNamed(given, accepted[n].name), accepted[n].optional
    PROVE  InPlace(given, accepted, args, Append(opt, <<"default", accepted[n].name>>), left, pos, n)
<1>1. n \in Nat \ {0} /\ n \in DOMAIN accepted
  BY FittingAt
<1>2. <<"default", accepted[n].name>> \in Passed(given, accepted)
  BY <1>1 DEF Passed
<1>3. <<"default", accepted[n].name>> = Meant(given, accepted, n)
  BY DEF Meant
<1>4. NoneWrong(given, accepted, n)
  BY MoreRight DEF InPlace, WrongAt
<1>5. Taken(given, accepted, args, Append(opt, <<"default", accepted[n].name>>), n)
  BY <1>1, <1>2, <1>3, TakenHeld DEF InPlace
<1>6. Reached(given, pos, n)
  BY <1>1, ReachedSame DEF InPlace
<1>7. Remains(given, accepted, left, pos, n)
  BY RemainsSame DEF InPlace
<1> QED
  BY <1>4, <1>5, <1>6, <1>7 DEF InPlace

(* The records that Bind makes.                                            *)
BindingOf(given, args, opt, left, pos, rejected) ==
    [given |-> given, arguments |-> args, optional |-> opt, left |-> left, pos |-> pos, rejected |-> rejected]

WithArguments(b, x) == [b EXCEPT !.arguments = x]
WithOptional(b, x) == [b EXCEPT !.optional = x]
WithLeft(b, x) == [b EXCEPT !.left = x]
WithPos(b, x) == [b EXCEPT !.pos = x]
WithRejected(b, x) == [b EXCEPT !.rejected = x]

LEMMA BindingWith ==
    ASSUME NEW given, NEW args, NEW opt, NEW left, NEW pos, NEW rejected, NEW x
    PROVE  LET b == BindingOf(given, args, opt, left, pos, rejected)
           IN  /\ WithArguments(b, x) = BindingOf(given, x, opt, left, pos, rejected)
               /\ WithOptional(b, x) = BindingOf(given, args, x, left, pos, rejected)
               /\ WithLeft(b, x) = BindingOf(given, args, opt, x, pos, rejected)
               /\ WithPos(b, x) = BindingOf(given, args, opt, left, x, rejected)
               /\ WithRejected(b, x) = BindingOf(given, args, opt, left, pos, x)
BY DEF BindingOf, WithArguments, WithOptional, WithLeft, WithPos, WithRejected

LEMMA BindingIs ==
    ASSUME NEW given, NEW accepted, NEW b \in Bindings(given, accepted)
    PROVE  /\ b = BindingOf(given, b.arguments, b.optional, b.left, b.pos, b.rejected)
           /\ b.given = given /\ b.arguments \in Seq(Passed(given, accepted))
           /\ b.optional \in Seq(Passed(given, accepted))
           /\ b.left \in SUBSET DOMAIN given /\ b.pos \in Nat /\ b.rejected \in BOOLEAN
BY DEF Bindings, BindingOf

LEMMA PassIs ==
    ASSUME NEW given, NEW accepted, NEW b \in Bindings(given, accepted), NEW k
    PROVE  Pass(b, k) = BindingOf(given, Append(b.arguments \o b.optional, given[k][2]), << >>,
                                  b.left \ {k}, b.pos, b.rejected)
<1>1. b.given = given
  BY BindingIs
<1>2. b = BindingOf(given, b.arguments, b.optional, b.left, b.pos, b.rejected)
  BY BindingIs
<1>. DEFINE args == b.arguments
            opt == b.optional
            left == b.left
            pos == b.pos
            rejected == b.rejected
            x == Append(args \o opt, given[k][2])
<1>3. Pass(b, k) = WithLeft(WithOptional(WithArguments(b, x), << >>), left \ {k})
  BY <1>1 DEF Pass, WithArguments, WithOptional, WithLeft
<1>4. b = BindingOf(given, args, opt, left, pos, rejected)
  BY <1>2
<1>. HIDE DEF args, opt, left, pos, rejected, x
<1>5. WithLeft(WithOptional(WithArguments(b, x), << >>), left \ {k})
        = BindingOf(given, x, << >>, left \ {k}, pos, rejected)
  BY <1>4, BindingWith, SMT
<1> QED
  BY <1>3, <1>5 DEF args, opt, left, pos, rejected, x

LEMMA BoundToIs ==
    ASSUME NEW given, NEW accepted, NEW n,
           NEW args \in Seq(Passed(given, accepted)), NEW opt \in Seq(Passed(given, accepted)),
           NEW left \in SUBSET DOMAIN given, NEW pos \in Nat, NEW rejected \in BOOLEAN,
           rejected => \E k \in 1 .. n : WrongAt(given, accepted, k),
           ~rejected => InPlace(given, accepted, args, opt, left, pos, n)
    PROVE  BoundTo(BindingOf(given, args, opt, left, pos, rejected), given, accepted, n)
<1>. DEFINE b == BindingOf(given, args, opt, left, pos, rejected)
<1>1. b \in Bindings(given, accepted)
  BY DEF Bindings, BindingOf
<1>2. /\ b.arguments = args /\ b.optional = opt /\ b.left = left /\ b.pos = pos
      /\ b.rejected = rejected
  BY DEF BindingOf
<1>. HIDE DEF b
<1>3. BoundTo(b, given, accepted, n)
  BY <1>1, <1>2 DEF BoundTo
<1> QED
  BY <1>3 DEF b

(* A parameter is bound.                                                   *)
LEMMA BindStep ==
    ASSUME NEW given, NEW accepted, Fitting(given, accepted), ~Misplaced(given),
           NEW n \in 1 .. Len(accepted), NEW b, BoundTo(b, given, accepted, n - 1)
    PROVE  BoundTo(Bind(b, accepted[n]), given, accepted, n)
<1>. DEFINE S == Passed(given, accepted)
            args == b.arguments
            opt == b.optional
            left == b.left
            pos == b.pos
            named == {k \in left : given[k][1] = accepted[n].name}
            placed == {k \in left : given[k][1] = Positional /\ k = pos}
<1>1. b \in Bindings(given, accepted)
  BY DEF BoundTo
<1>2. /\ b = BindingOf(given, args, opt, left, pos, b.rejected)
      /\ b.given = given /\ args \in Seq(S) /\ opt \in Seq(S)
      /\ left \in SUBSET DOMAIN given /\ pos \in Nat /\ b.rejected \in BOOLEAN
  BY <1>1, BindingIs
<1>3. ByName(b, accepted[n]) = named /\ ByPlace(b) = placed
  BY <1>2 DEF ByName, ByPlace
<1>4. n \in Nat \ {0} /\ n \in 1 .. n /\ \A k \in 1 .. n - 1 : k \in 1 .. n
  BY FittingAt
<1>5. n \in DOMAIN accepted /\ accepted[n].optional \in BOOLEAN
  BY FittingAt
<1>6. CASE b.rejected
  <2>1. \E k \in 1 .. n : WrongAt(given, accepted, k)
    BY <1>4, <1>6 DEF BoundTo
  <2>2. Bind(b, accepted[n]) = b
    BY <1>6 DEF Bind
  <2> QED
    BY <1>1, <1>6, <2>1, <2>2 DEF BoundTo
<1>7. CASE ~b.rejected
  <2>1. InPlace(given, accepted, args, opt, left, pos, n - 1)
    BY <1>7 DEF BoundTo
  <2>2. Remains(given, accepted, left, pos, n - 1) /\ Reached(given, pos, n - 1)
    BY <2>1 DEF InPlace
  <2>. HIDE DEF args, opt, left, pos
  <2>3. /\ named # {} <=> IsNamed(given, accepted[n].name)
        /\ \A k \in named : /\ named = {k} /\ k \in Survivors(given)
                            /\ given[k][2] = Meant(given, accepted, n)
    BY <1>2, <2>2, NamedIs
  <2>4. /\ placed # {} <=> IsPositional(given, n)
        /\ IsPositional(given, n) => pos = n /\ n \in left
    <3>1. left \in SUBSET DOMAIN given /\ pos \in Nat
      BY <1>2
    <3> QED
      BY <2>2, <3>1, PlacedIs
  <2>5. CASE named # {}
    <3>1. PICK i \in named : TRUE
      BY <2>5
    <3>2. (CHOOSE k \in ByName(b, accepted[n]) : TRUE) = i
      <4>1. named = {i}
        BY <2>3
      <4> QED
        BY <1>3, <4>1
    <3>3. /\ i \in Survivors(given) /\ i \in DOMAIN given
          /\ given[i][1] = accepted[n].name /\ given[i][2] = Meant(given, accepted, n)
      BY <1>2, <2>3
    <3>4. Bind(b, accepted[n]) = WithRejected(Pass(b, i), placed # {})
      BY <1>3, <1>7, <2>5, <3>2 DEF Bind, WithRejected
    <3>. DEFINE x == Append(args \o opt, given[i][2])
                wrong == (placed # {})
    <3>5. Pass(b, i) = BindingOf(given, x, << >>, left \ {i}, pos, b.rejected)
      BY <1>1, PassIs DEF args, opt, left, pos
    <3>6. Bind(b, accepted[n]) = WithRejected(Pass(b, i), wrong)
      BY <3>4
    <3>7. given[i][2] \in S
      BY <3>3 DEF Passed
    <3>8. x \in Seq(S) /\ << >> \in Seq(S)
      BY <1>2, <3>7, JoinedIs
    <3>9. wrong => WrongAt(given, accepted, n)
      BY <2>3, <2>4, <2>5 DEF WrongAt
    <3>10. ~wrong => InPlace(given, accepted, x, << >>, left \ {i}, pos, n)
      BY <1>2, <2>1, <2>4, <3>3, NamedInPlace
    <3>11. wrong \in BOOLEAN
      OBVIOUS
    <3>. HIDE DEF x, wrong
    <3>12. Bind(b, accepted[n]) = BindingOf(given, x, << >>, left \ {i}, pos, wrong)
      BY <3>5, <3>6, BindingWith, SMT
    <3>13. BoundTo(BindingOf(given, x, << >>, left \ {i}, pos, wrong), given, accepted, n)
      <4>1. wrong => \E k \in 1 .. n : WrongAt(given, accepted, k)
        BY <1>4, <3>9
      <4>2. left \ {i} \in SUBSET DOMAIN given
        BY <1>2
      <4> QED
        BY <1>2, <3>8, <3>10, <3>11, <4>1, <4>2, BoundToIs
    <3> QED
      BY <3>12, <3>13
  <2>6. CASE named = {} /\ placed # {}
    <3>1. IsPositional(given, n) /\ pos = n /\ n \in left /\ ~IsNamed(given, accepted[n].name)
      BY <2>3, <2>4, <2>6
    <3>2. b.pos = n
      BY <3>1 DEF pos
    <3>3. Bind(b, accepted[n]) = [Pass(b, n) EXCEPT !.pos = @ + 1]
      BY <1>3, <1>7, <2>6, <3>2 DEF Bind
    <3>. DEFINE x == Append(args \o opt, given[n][2])
                next == n + 1
                no == b.rejected
    <3>4. Pass(b, n) = BindingOf(given, x, << >>, left \ {n}, n, no)
      BY <1>1, <3>2, PassIs DEF args, opt, left
    <3>5. given[n][2] \in S
      BY <3>1 DEF Passed, IsPositional
    <3>6. x \in Seq(S) /\ << >> \in Seq(S)
      BY <1>2, <3>5, JoinedIs
    <3>7. InPlace(given, accepted, x, << >>, left \ {n}, next, n)
      BY <1>2, <2>1, <3>1, PlacedInPlace
    <3>8. next \in Nat /\ left \ {n} \in SUBSET DOMAIN given /\ no \in BOOLEAN /\ ~no
      BY <1>2, <1>4, <1>7
    <3>9. Bind(b, accepted[n]) = WithPos(Pass(b, n), next)
      <4>1. Pass(b, n).pos = n
        BY <3>4 DEF BindingOf
      <4> QED
        BY <3>3, <4>1 DEF WithPos
    <3>. HIDE DEF x, next, no
    <3>10. Bind(b, accepted[n]) = BindingOf(given, x, << >>, left \ {n}, next, no)
      BY <3>4, <3>9, BindingWith, SMT
    <3>11. BoundTo(BindingOf(given, x, << >>, left \ {n}, next, no), given, accepted, n)
      BY <3>6, <3>7, <3>8, BoundToIs
    <3> QED
      BY <3>10, <3>11
  <2>7. CASE named = {} /\ placed = {} /\ accepted[n].optional
    <3>1. ~IsPositional(given, n) /\ ~IsNamed(given, accepted[n].name)
      BY <2>3, <2>4, <2>7
    <3>. DEFINE d == <<"default", accepted[n].name>>
                x == Append(opt, d)
    <3>2. Bind(b, accepted[n]) = WithOptional(b, x)
      BY <1>3, <1>7, <2>7 DEF Bind, opt, WithOptional
    <3>3. d \in S
      BY <1>5 DEF Passed
    <3>4. x \in Seq(S)
      BY <1>2, <3>3, AppendProperties
    <3>5. InPlace(given, accepted, args, x, left, pos, n)
      BY <1>2, <2>1, <2>7, <3>1, HeldInPlace
    <3>. DEFINE no == b.rejected
    <3>6. no \in BOOLEAN /\ ~no /\ b = BindingOf(given, args, opt, left, pos, no)
      BY <1>2, <1>7
    <3>. HIDE DEF x, no
    <3>7. Bind(b, accepted[n]) = BindingOf(given, args, x, left, pos, no)
      BY <3>2, <3>6, BindingWith, SMT
    <3>8. BoundTo(BindingOf(given, args, x, left, pos, no), given, accepted, n)
      BY <1>2, <3>4, <3>5, <3>6, BoundToIs
    <3> QED
      BY <3>7, <3>8
  <2>8. CASE named = {} /\ placed = {} /\ ~accepted[n].optional
    <3>1. WrongAt(given, accepted, n)
      BY <2>3, <2>4, <2>8 DEF WrongAt
    <3>. DEFINE yes == TRUE
    <3>2. Bind(b, accepted[n]) = WithRejected(b, yes)
      BY <1>3, <1>7, <2>8 DEF Bind, WithRejected
    <3>3. yes \in BOOLEAN /\ yes
      OBVIOUS
    <3>. HIDE DEF yes
    <3>4. Bind(b, accepted[n]) = BindingOf(given, args, opt, left, pos, yes)
      BY <1>2, <3>2, BindingWith, SMT
    <3>5. \E k \in 1 .. n : WrongAt(given, accepted, k)
      BY <1>4, <3>1
    <3>6. BoundTo(BindingOf(given, args, opt, left, pos, yes), given, accepted, n)
      BY <1>2, <3>3, <3>5, BoundToIs
    <3> QED
      BY <3>4, <3>6
  <2> QED
    BY <1>5, <2>5, <2>6, <2>7, <2>8
<1> QED
  BY <1>2, <1>6, <1>7

(* Before the first parameter, all that survives is left.                  *)
LEMMA UnboundIs ==
    ASSUME NEW given, NEW accepted, Fitting(given, accepted)
    PROVE  BoundTo(Unbound(given), given, accepted, 0)
<1>. DEFINE no == FALSE
            left == Survivors(given)
            S == Passed(given, accepted)
<1>1. DOMAIN given = 1 .. Len(given) /\ Len(given) \in Nat
  BY DEF Fitting
<1>2. NoneWrong(given, accepted, 0)
  BY DEF NoneWrong
<1>3. Taken(given, accepted, << >>, << >>, 0)
  <2>1. Len(<< >>) = 0 /\ 0 + 0 = 0
    OBVIOUS
  <2> QED
    BY <2>1 DEF Taken
<1>4. Reached(given, 1, 0)
  BY DEF Reached
<1>5. Remains(given, accepted, left, 1, 0)
  <2>1. \A j \in DOMAIN given : 1 <= j /\ Unnamed(given, accepted, j, 0)
    BY <1>1 DEF Unnamed
  <2> QED
    BY <2>1, PlacesSurvive DEF Remains
<1>6. Kept(given, << >>, left)
  BY DEF Kept
<1>7. InPlace(given, accepted, << >>, << >>, left, 1, 0)
  BY <1>2, <1>3, <1>4, <1>5, <1>6 DEF InPlace
<1>8. << >> \in Seq(S) /\ left \in SUBSET DOMAIN given /\ 1 \in Nat /\ no \in BOOLEAN /\ ~no
  BY PlacesSurvive
<1>9. Unbound(given) = BindingOf(given, << >>, << >>, left, 1, no)
  BY DEF Unbound, BindingOf
<1>. HIDE DEF no, left
<1>10. BoundTo(BindingOf(given, << >>, << >>, left, 1, no), given, accepted, 0)
  BY <1>7, <1>8, BoundToIs
<1> QED
  BY <1>9, <1>10

(* A binding after each of the parameters.                                 *)
BoundIn(f, given, accepted, n) ==
    f = [i \in 0 .. n |-> IF i = 0 THEN Unbound(given) ELSE Bind(f[i - 1], accepted[i])]

LEMMA BoundInAt ==
    ASSUME NEW given, NEW accepted, NEW n \in Nat, NEW f, BoundIn(f, given, accepted, n)
    PROVE  /\ f[0] = Unbound(given)
           /\ \A i \in 1 .. n : f[i] = Bind(f[i - 1], accepted[i])
<1>1. f[0] = Unbound(given)
  BY DEF BoundIn
<1>2. ASSUME NEW i \in 1 .. n PROVE f[i] = Bind(f[i - 1], accepted[i])
  <2>1. i \in 0 .. n /\ i # 0
    OBVIOUS
  <2> QED
    BY <2>1 DEF BoundIn
<1> QED
  BY <1>1, <1>2

LEMMA BoundInExists ==
    ASSUME NEW given, NEW accepted, NEW n \in Nat
    PROVE  \E f : BoundIn(f, given, accepted, n)
<1>. DEFINE Without == {m \in 0 .. n : ~ \E f : BoundIn(f, given, accepted, m)}
<1>1. CASE Without # {}
  <2>0. Without \in SUBSET Nat
    OBVIOUS
  <2>. HIDE DEF Without
  <2>1. PICK m \in Without : \A k \in Without : ~ (k < m)
    BY <1>1, <2>0, LeastNat
  <2>. USE DEF Without
  <2>2. m \in 0 .. n /\ ~ \E f : BoundIn(f, given, accepted, m)
    OBVIOUS
  <2>3. m # 0
    <3>. DEFINE f == [i \in 0 .. 0 |-> Unbound(given)]
    <3>1. f = [i \in 0 .. 0 |-> IF i = 0 THEN Unbound(given) ELSE Bind(f[i - 1], accepted[i])]
      OBVIOUS
    <3>2. BoundIn(f, given, accepted, 0)
      BY <3>1 DEF BoundIn
    <3> QED
      BY <2>2, <3>2
  <2>4. PICK f : BoundIn(f, given, accepted, m - 1)
    <3>1. m - 1 \in 0 .. n /\ m - 1 < m
      BY <2>2, <2>3
    <3> QED
      BY <2>1, <3>1
  <2>. DEFINE g == [i \in 0 .. m |-> IF i = m THEN Bind(f[m - 1], accepted[m]) ELSE f[i]]
  <2>5. ASSUME NEW i \in 0 .. m
        PROVE  g[i] = IF i = 0 THEN Unbound(given) ELSE Bind(g[i - 1], accepted[i])
    <3>1. f[0] = Unbound(given) /\ \A j \in 1 .. m - 1 : f[j] = Bind(f[j - 1], accepted[j])
      <4>. DEFINE p == m - 1
      <4>1. p \in Nat /\ BoundIn(f, given, accepted, p)
        BY <2>2, <2>3, <2>4
      <4>. HIDE DEF p
      <4>2. f[0] = Unbound(given) /\ \A j \in 1 .. p : f[j] = Bind(f[j - 1], accepted[j])
        BY <4>1, BoundInAt
      <4> QED
        BY <4>2 DEF p
    <3>2. CASE i = 0
      BY <2>2, <2>3, <3>1, <3>2
    <3>3. CASE i # 0
      <4>1. g[i - 1] = f[i - 1]
        BY <2>2, <3>3
      <4>2. CASE i = m
        BY <3>3, <4>1, <4>2
      <4>3. CASE i # m
        BY <3>1, <3>3, <4>1, <4>3, <2>2
      <4> QED
        BY <4>2, <4>3
    <3> QED
      BY <3>2, <3>3
  <2>6. BoundIn(g, given, accepted, m)
    <3>1. g = [i \in 0 .. m |-> g[i]]
      OBVIOUS
    <3>2. [i \in 0 .. m |-> g[i]]
            = [i \in 0 .. m |-> IF i = 0 THEN Unbound(given) ELSE Bind(g[i - 1], accepted[i])]
      <4>. HIDE DEF g
      <4> QED
        BY <2>5
    <3>. HIDE DEF g
    <3> QED
      BY <3>1, <3>2 DEF BoundIn
  <2> QED
    BY <2>2, <2>6
<1>2. CASE Without = {}
  <2>1. n \notin Without
    <3>. HIDE DEF Without
    <3> QED
      BY <1>2
  <2> QED
    BY <2>1
<1> QED
  BY <1>1, <1>2

LEMMA BoundSteps ==
    ASSUME NEW given, NEW accepted, Len(accepted) \in Nat
    PROVE  \E f : BoundIn(f, given, accepted, Len(accepted)) /\ Bound(given, accepted) = f[Len(accepted)]
<1>. DEFINE f == CHOOSE g : g = [n \in 0 .. Len(accepted) |->
                                   IF n = 0 THEN Unbound(given) ELSE Bind(g[n - 1], accepted[n])]
<1>1. BoundIn(f, given, accepted, Len(accepted))
  <2>1. \E g : BoundIn(g, given, accepted, Len(accepted))
    BY BoundInExists
  <2> QED
    BY <2>1, Zenon DEF BoundIn
<1>2. Bound(given, accepted) = f[Len(accepted)]
  BY DEF Bound
<1> QED
  BY <1>1, <1>2

(* All the parameters are bound.                                           *)
LEMMA BoundIs ==
    ASSUME NEW given, NEW accepted, Fitting(given, accepted), ~Misplaced(given)
    PROVE  BoundTo(Bound(given, accepted), given, accepted, Len(accepted))
<1>1. Len(accepted) \in Nat
  BY DEF Fitting
<1>2. PICK f : BoundIn(f, given, accepted, Len(accepted)) /\ Bound(given, accepted) = f[Len(accepted)]
  BY <1>1, BoundSteps
<1>3. f[0] = Unbound(given) /\ \A n \in 1 .. Len(accepted) : f[n] = Bind(f[n - 1], accepted[n])
  BY <1>1, <1>2, BoundInAt
<1>. DEFINE Right(n) == BoundTo(f[n], given, accepted, n)
            Wrongs == {n \in 0 .. Len(accepted) : ~Right(n)}
<1>4. Right(0)
  BY <1>3, UnboundIs
<1>5. ASSUME NEW n \in 1 .. Len(accepted), Right(n - 1) PROVE Right(n)
  BY <1>3, <1>5, BindStep
<1>6. CASE Wrongs # {}
  <2>0. Wrongs \in SUBSET Nat
    OBVIOUS
  <2>. HIDE DEF Wrongs
  <2>1. PICK n \in Wrongs : \A m \in Wrongs : ~ (m < n)
    BY <1>6, <2>0, LeastNat
  <2>. USE DEF Wrongs
  <2>. HIDE DEF Right
  <2>2. n \in 0 .. Len(accepted) /\ ~Right(n)
    OBVIOUS
  <2>3. n \in 1 .. Len(accepted) /\ n - 1 \in 0 .. Len(accepted) /\ n - 1 < n
    BY <1>1, <1>4, <2>2
  <2>4. Right(n - 1)
    BY <2>1, <2>3
  <2> QED
    BY <1>5, <2>2, <2>3, <2>4
<1>7. CASE Wrongs = {}
  <2>1. Len(accepted) \in 0 .. Len(accepted)
    BY <1>1
  <2>2. Right(Len(accepted))
    <3>. HIDE DEF Right
    <3> QED
      BY <1>7, <2>1
  <2> QED
    BY <1>2, <2>2
<1> QED
  BY <1>6, <1>7

(* No argument stands for a rejection, and neither does what is left.      *)
LEMMA NotRejected ==
    ASSUME NEW given, NEW accepted, Fitting(given, accepted), NEW k \in DOMAIN accepted
    PROVE  Meant(given, accepted, k) # Rejected[1]
<1>1. Rejected[1] = <<"rejected">>
  BY DEF Rejected
<1>2. <<"default", accepted[k].name>> # <<"rejected">>
  OBVIOUS
<1>3. \A j \in DOMAIN given : given[j][2] # Rejected[1]
  BY DEF Fitting
<1>4. CASE IsNamed(given, accepted[k].name)
  <2>. DEFINE j == CHOOSE j \in Survivors(given) : given[j][1] = accepted[k].name
  <2>1. j \in DOMAIN given
    <3>1. accepted[k].name # Positional
      BY DEF Fitting
    <3>2. \E i \in Survivors(given) : {m \in Survivors(given) : given[m][1] = accepted[k].name} = {i}
      BY <1>4, <3>1, SurvivorIs
    <3>3. j \in Survivors(given)
      BY <3>2
    <3> QED
      BY <3>3, PlacesSurvive
  <2>2. Meant(given, accepted, k) = given[j][2]
    BY <1>4 DEF Meant
  <2>. HIDE DEF j
  <2> QED
    BY <1>3, <2>1, <2>2
<1>5. CASE ~IsNamed(given, accepted[k].name) /\ IsPositional(given, k)
  <2>1. Meant(given, accepted, k) = given[k][2] /\ k \in DOMAIN given
    BY <1>5 DEF Meant, IsPositional
  <2> QED
    BY <1>3, <2>1
<1>6. CASE ~IsNamed(given, accepted[k].name) /\ ~IsPositional(given, k)
  <2>1. Meant(given, accepted, k) = <<"default", accepted[k].name>>
    BY <1>6 DEF Meant
  <2> QED
    BY <1>1, <1>2, <2>1
<1> QED
  BY <1>4, <1>5, <1>6

(* Something is left if, and only if, no parameter takes it.               *)
LEMMA LeftIsUnknown ==
    ASSUME NEW given, NEW accepted, Fitting(given, accepted), ~Misplaced(given),
           NEW left \in SUBSET DOMAIN given, NEW pos \in Nat,
           Reached(given, pos, Len(accepted)),
           Remains(given, accepted, left, pos, Len(accepted))
    PROVE  left # {} <=> Unknown(given, accepted)
<1>. DEFINE n == Len(accepted)
<1>1. n \in Nat /\ DOMAIN accepted = 1 .. n /\ DOMAIN given = 1 .. Len(given) /\ Len(given) \in Nat
  BY DEF Fitting
<1>2. /\ 1 <= pos /\ pos <= n + 1
      /\ \A k \in 1 .. n : IsPositional(given, k) <=> k < pos
  BY DEF Reached
<1>3. /\ \A j \in DOMAIN given : given[j][1] = Positional => (j \in left <=> pos <= j)
      /\ \A j \in DOMAIN given :
           given[j][1] # Positional => (j \in left <=> j \in Survivors(given) /\ Unnamed(given, accepted, j, n))
  BY DEF Remains
<1>4. Unknown(given, accepted) <=>
        \/ IsPositional(given, n + 1)
        \/ \E k \in DOMAIN given : given[k][1] # Positional /\ Unnamed(given, accepted, k, n)
  BY <1>1 DEF Unknown, Unnamed
<1>. HIDE DEF n
<1>5. ASSUME NEW j \in left PROVE Unknown(given, accepted)
  <2>1. j \in DOMAIN given /\ j \in Nat /\ j <= Len(given)
    BY <1>1
  <2>2. CASE given[j][1] # Positional
    BY <1>3, <1>4, <2>1, <2>2
  <2>3. CASE given[j][1] = Positional
    <3>1. pos <= j
      BY <1>3, <2>1, <2>3
    <3>2. pos \in DOMAIN given
      BY <1>1, <1>2, <2>1, <3>1
    <3>3. given[pos][1] = Positional
      <4>1. CASE pos = j
        BY <2>3, <4>1
      <4>2. CASE pos # j
        <5>1. pos < j
          BY <2>1, <3>1, <4>2
        <5> QED
          BY <2>1, <2>3, <3>2, <5>1 DEF Misplaced
      <4> QED
        BY <4>1, <4>2
    <3>4. IsPositional(given, pos)
      BY <3>2, <3>3 DEF IsPositional
    <3>5. ~ (pos \in 1 .. n)
      <4>1. ~ (pos < pos)
        OBVIOUS
      <4> QED
        BY <1>2, <3>4, <4>1
    <3>6. pos = n + 1
      BY <1>1, <1>2, <3>5
    <3> QED
      BY <1>4, <3>4, <3>6
  <2> QED
    BY <2>2, <2>3
<1>6. ASSUME IsPositional(given, n + 1) PROVE left # {}
  <2>1. n + 1 \in DOMAIN given /\ given[n + 1][1] = Positional
    BY <1>6 DEF IsPositional
  <2> QED
    BY <1>2, <1>3, <2>1
<1>7. ASSUME NEW k \in DOMAIN given, given[k][1] # Positional, Unnamed(given, accepted, k, n) PROVE left # {}
  <2>. DEFINE name == given[k][1]
  <2>1. IsNamed(given, name) /\ name # Positional
    BY <1>7 DEF IsNamed
  <2>2. PICK i \in Survivors(given) : {m \in Survivors(given) : given[m][1] = name} = {i}
    BY <2>1, SurvivorIs
  <2>3. i \in DOMAIN given /\ given[i][1] = name
    BY <2>2, PlacesSurvive
  <2>4. Unnamed(given, accepted, i, n)
    BY <1>7, <2>3 DEF Unnamed
  <2> QED
    BY <1>3, <2>1, <2>3, <2>4
<1> QED
  BY <1>4, <1>5, <1>6, <1>7

(* What is required of the result of a call.                               *)
RightFor(given, accepted, isVariadic, hasCallable, result) ==
    LET rest == {k \in DOMAIN given : result # << >> /\ result[Len(result)][1] = "rest" /\ k \in result[Len(result)][2]}
    IN  IF WrongCall(given, accepted, isVariadic, hasCallable) THEN result = Rejected
        ELSE /\ result # Rejected
             /\ \A k \in DOMAIN result : k <= Len(accepted) => result[k] = Meant(given, accepted, k)
             /\ \A k \in Survivors(given) : k \in rest \/ \E j \in DOMAIN result : result[j] = given[k][2]
             /\ rest \subseteq Survivors(given)

(* A call that names nothing is passed on as it is.                        *)
LEMMA RightAsGiven ==
    ASSUME NEW given, NEW accepted, Fitting(given, accepted), NEW hasCallable,
           ~HasNamed(given), ~Misplaced(given)
    PROVE  RightFor(given, accepted, FALSE, hasCallable, [k \in DOMAIN given |-> given[k][2]])
<1>. DEFINE result == [k \in DOMAIN given |-> given[k][2]]
<1>1. ~WrongCall(given, accepted, FALSE, hasCallable)
  BY DEF WrongCall
<1>2. result # Rejected
  <2>1. SUFFICES ASSUME result = Rejected PROVE FALSE
    OBVIOUS
  <2>2. 1 \in DOMAIN Rejected
    BY DEF Rejected
  <2>3. 1 \in DOMAIN given /\ given[1][2] = Rejected[1]
    BY <2>1, <2>2
  <2> QED
    BY <2>3 DEF Fitting
<1>3. ASSUME NEW k \in DOMAIN result, k <= Len(accepted) PROVE result[k] = Meant(given, accepted, k)
  <2>1. k \in DOMAIN given /\ result[k] = given[k][2]
    OBVIOUS
  <2>2. k \in DOMAIN accepted
    <3>1. DOMAIN given = 1 .. Len(given) /\ DOMAIN accepted = 1 .. Len(accepted) /\ Len(given) \in Nat
      BY DEF Fitting
    <3>2. k \in 1 .. Len(given)
      BY <2>1, <3>1, Zenon
    <3> QED
      BY <1>3, <3>1, <3>2
  <2>3. accepted[k].name # Positional
    BY <2>2 DEF Fitting
  <2>4. given[k][1] = Positional /\ ~IsNamed(given, accepted[k].name)
    BY <2>1, <2>3 DEF HasNamed, IsNamed
  <2>5. IsPositional(given, k)
    BY <2>1, <2>4 DEF IsPositional
  <2> QED
    BY <2>1, <2>4, <2>5 DEF Meant
<1>4. \A k \in Survivors(given) : \E j \in DOMAIN result : result[j] = given[k][2]
  BY PlacesSurvive
<1>5. \A k \in DOMAIN given : k \in Survivors(given)
  BY PlacesSurvive DEF HasNamed
<1>. HIDE DEF result
<1>6. RightFor(given, accepted, FALSE, hasCallable, result)
  BY <1>1, <1>2, <1>3, <1>4, <1>5 DEF RightFor
<1> QED
  BY <1>6 DEF result

(* What is passed to a parameter is not what is left.                      *)
LEMMA PassedIsNoRest ==
    ASSUME NEW given, NEW accepted, Fitting(given, accepted), NEW x \in Passed(given, accepted)
    PROVE  x[1] # "rest"
<1>1. CASE \E k \in DOMAIN given : x = given[k][2]
  BY <1>1 DEF Fitting
<1>2. CASE \E k \in DOMAIN accepted : x = <<"default", accepted[k].name>>
  BY <1>2
<1> QED
  BY <1>1, <1>2 DEF Passed

(* A call all of which was passed.                                         *)
LEMMA RightPassed ==
    ASSUME NEW given, NEW accepted, Fitting(given, accepted), NEW isVariadic \in BOOLEAN, NEW hasCallable,
           ~WrongCall(given, accepted, isVariadic, hasCallable),
           NEW args \in Seq(Passed(given, accepted)), NEW opt \in Seq(Passed(given, accepted)),
           Taken(given, accepted, args, opt, Len(accepted)), Kept(given, args, {})
    PROVE  RightFor(given, accepted, isVariadic, hasCallable, args)
<1>1. Len(accepted) \in Nat /\ DOMAIN accepted = 1 .. Len(accepted)
  BY DEF Fitting
<1>2. Len(args) \in Nat /\ Len(opt) \in Nat /\ DOMAIN args = 1 .. Len(args)
  OBVIOUS
<1>3. Len(args) + Len(opt) = Len(accepted)
  BY DEF Taken
<1>4. \A k \in 1 .. Len(args) : k \in DOMAIN accepted /\ args[k] = Meant(given, accepted, k)
  <2>1. \A k \in 1 .. Len(args) : k \in DOMAIN accepted
    BY <1>1, <1>2, <1>3
  <2> QED
    BY <2>1 DEF Taken
<1>5. args # Rejected
  <2>1. SUFFICES ASSUME args = Rejected PROVE FALSE
    OBVIOUS
  <2>2. Len(Rejected) = 1
    BY DEF Rejected
  <2>3. 1 \in 1 .. Len(args) /\ args[1] = Rejected[1]
    BY <2>1, <2>2
  <2>4. 1 \in DOMAIN accepted /\ Meant(given, accepted, 1) = Rejected[1]
    BY <1>4, <2>3
  <2> QED
    BY <2>4, NotRejected
<1>6. \A k \in DOMAIN args : args[k] = Meant(given, accepted, k)
  BY <1>2, <1>4
<1>7. \A k \in Survivors(given) : \E j \in DOMAIN args : args[j] = given[k][2]
  BY <1>2 DEF Kept
<1>8. ASSUME args # << >> PROVE args[Len(args)][1] # "rest"
  <2>1. Len(args) \in DOMAIN args
    BY <1>2, <1>8
  <2>2. args[Len(args)] \in Passed(given, accepted)
    BY <2>1
  <2> QED
    BY <2>2, PassedIsNoRest
<1> QED
  BY <1>5, <1>6, <1>7, <1>8 DEF RightFor

(* A call of a variadic callable, with something that is left.             *)
LEMMA RightRest ==
    ASSUME NEW given, NEW accepted, Fitting(given, accepted),
           ~WrongCall(given, accepted, TRUE, TRUE), NEW left \in SUBSET Survivors(given),
           NEW args \in Seq(Passed(given, accepted)), NEW opt \in Seq(Passed(given, accepted)),
           Taken(given, accepted, args, opt, Len(accepted)), Kept(given, args, left)
    PROVE  RightFor(given, accepted, TRUE, TRUE, args \o opt \o << <<"rest", left>> >>)
<1>. DEFINE x == <<"rest", left>>
            S == Passed(given, accepted) \cup {x}
            n == Len(accepted)
            result == Append(args \o opt, x)
<1>1. n \in Nat
  BY DEF Fitting
<1>2. args \in Seq(S) /\ opt \in Seq(S) /\ x \in S
  OBVIOUS
<1>3. Len(args) \in Nat /\ Len(opt) \in Nat
  OBVIOUS
<1>4. Len(args) + Len(opt) = n
  BY DEF Taken
<1>. HIDE DEF x, S, n
<1>5. /\ result \in Seq(S)
      /\ Len(result) = Len(args) + Len(opt) + 1
      /\ \A k \in 1 .. Len(args) : result[k] = args[k]
      /\ \A k \in 1 .. Len(opt) : result[Len(args) + k] = opt[k]
      /\ result[Len(args) + Len(opt) + 1] = x
      /\ result = args \o opt \o <<x>>
  BY <1>2, JoinedIs
<1>. HIDE DEF result
<1>6. Len(result) = n + 1 /\ DOMAIN result = 1 .. n + 1 /\ result[n + 1] = x
  BY <1>1, <1>3, <1>4, <1>5
<1>7. x[1] = "rest" /\ x[2] = left /\ x # Rejected[1]
  BY DEF x, Rejected
<1>8. result # Rejected
  <2>1. SUFFICES ASSUME result = Rejected PROVE FALSE
    OBVIOUS
  <2>2. Len(Rejected) = 1
    BY DEF Rejected
  <2>3. n + 1 = 1
    BY <1>6, <2>1, <2>2
  <2>4. result[1] = x
    BY <1>6, <2>3
  <2> QED
    BY <1>7, <2>1, <2>4
<1>9. ASSUME NEW k \in DOMAIN result, k <= n PROVE result[k] = Meant(given, accepted, k)
  <2>1. k \in 1 .. n
    BY <1>1, <1>6, <1>9
  <2>2. CASE k \in 1 .. Len(args)
    BY <1>5, <2>2 DEF Taken
  <2>3. CASE k - Len(args) \in 1 .. Len(opt)
    <3>1. Len(args) + (k - Len(args)) = k
      BY <1>3, <2>1
    <3>2. opt[k - Len(args)] = Meant(given, accepted, Len(args) + (k - Len(args)))
      BY <2>3 DEF Taken
    <3>3. result[Len(args) + (k - Len(args))] = opt[k - Len(args)]
      BY <1>5, <2>3
    <3> QED
      BY <3>1, <3>2, <3>3
  <2>4. k \in 1 .. Len(args) \/ k - Len(args) \in 1 .. Len(opt)
    BY <1>3, <1>4, <2>1
  <2> QED
    BY <2>2, <2>3, <2>4
<1>10. ASSUME NEW k \in Survivors(given)
       PROVE  \/ /\ result # << >> /\ result[Len(result)][1] = "rest"
                 /\ k \in result[Len(result)][2]
              \/ \E j \in DOMAIN result : result[j] = given[k][2]
  <2>1. CASE k \in left
    <3>1. result # << >>
      <4>1. Len(<< >>) = 0 /\ n + 1 # 0
        BY <1>1
      <4> QED
        BY <1>6, <4>1
    <3>2. result[Len(result)] = x
      BY <1>6
    <3> QED
      BY <1>7, <2>1, <3>1, <3>2
  <2>2. CASE \E j \in 1 .. Len(args) : args[j] = given[k][2]
    <3>1. PICK j \in 1 .. Len(args) : args[j] = given[k][2]
      BY <2>2
    <3>2. j \in DOMAIN result
      BY <1>3, <1>4, <1>6
    <3> QED
      BY <1>5, <3>1, <3>2
  <2> QED
    BY <2>1, <2>2 DEF Kept
<1>11. result[Len(result)][2] = left
  BY <1>6, <1>7
<1>12. \A k \in Survivors(given) : k \in DOMAIN given
  BY PlacesSurvive
<1>13. RightFor(given, accepted, TRUE, TRUE, result)
  BY <1>8, <1>9, <1>10, <1>11, <1>12 DEF RightFor, n
<1> QED
  BY <1>5, <1>13 DEF x

(* Only what survives is left.                                             *)
LEMMA LeftSurvives ==
    ASSUME NEW given, NEW accepted, NEW left \in SUBSET DOMAIN given, NEW pos, NEW n,
           Remains(given, accepted, left, pos, n)
    PROVE  left \in SUBSET Survivors(given)
BY PlacesSurvive DEF Remains

(* What getArguments gives is right.                                       *)
LEMMA RightResult ==
    ASSUME NEW rawGiven, NEW rawAccepted, Fitting(Parameters(rawGiven), CallableParameters(rawAccepted)),
           NEW isVariadic \in BOOLEAN, NEW hasCallable \in BOOLEAN
    PROVE  RightFor(Parameters(rawGiven), CallableParameters(rawAccepted), isVariadic, hasCallable,
                    getArguments(rawGiven, rawAccepted, isVariadic, hasCallable))
<1>. DEFINE given == Parameters(rawGiven)
            accepted == CallableParameters(rawAccepted)
            n == Len(accepted)
            b == Bound(given, accepted)
            args == b.arguments
            opt == b.optional
            left == b.left
            result == getArguments(rawGiven, rawAccepted, isVariadic, hasCallable)
<1>0. /\ Fitting(given, accepted)
      /\ result = IF Misplaced(given) THEN Rejected
                  ELSE IF ~HasNamed(given) /\ ~isVariadic THEN [k \in DOMAIN given |-> given[k][2]]
                  ELSE IF ~hasCallable \/ b.rejected \/ (left # {} /\ ~isVariadic) THEN Rejected
                  ELSE IF left # {} THEN args \o opt \o << <<"rest", left>> >>
                  ELSE args
  BY DEF getArguments
<1>. HIDE DEF given, accepted, result
<1>. SUFFICES RightFor(given, accepted, isVariadic, hasCallable, result)
  BY DEF given, accepted, result
<1>1. CASE Misplaced(given)
  <2>1. result = Rejected /\ WrongCall(given, accepted, isVariadic, hasCallable)
    BY <1>0, <1>1 DEF WrongCall
  <2> QED
    BY <2>1 DEF RightFor
<1>2. CASE ~Misplaced(given) /\ ~HasNamed(given) /\ ~isVariadic
  <2>1. result = [k \in DOMAIN given |-> given[k][2]]
    BY <1>0, <1>2
  <2>2. isVariadic = FALSE
    BY <1>2
  <2>3. RightFor(given, accepted, FALSE, hasCallable, [k \in DOMAIN given |-> given[k][2]])
    BY <1>0, <1>2, RightAsGiven
  <2> QED
    BY <2>1, <2>2, <2>3
<1>3. CASE ~Misplaced(given) /\ (HasNamed(given) \/ isVariadic) /\ ~hasCallable
  <2>1. result = Rejected /\ WrongCall(given, accepted, isVariadic, hasCallable)
    BY <1>0, <1>3 DEF WrongCall
  <2> QED
    BY <2>1 DEF RightFor
<1>4. CASE ~Misplaced(given) /\ (HasNamed(given) \/ isVariadic) /\ hasCallable
  <2>0. hasCallable = TRUE
    BY <1>4
  <2>1. BoundTo(b, given, accepted, n)
    BY <1>0, <1>4, BoundIs
  <2>2. result = IF b.rejected \/ (left # {} /\ ~isVariadic) THEN Rejected
                 ELSE IF left # {} THEN args \o opt \o << <<"rest", left>> >>
                 ELSE args
    BY <1>0, <1>4
  <2>3. DOMAIN accepted = 1 .. n
    BY <1>0 DEF Fitting
  <2>4. b \in Bindings(given, accepted)
    BY <2>1 DEF BoundTo
  <2>5. /\ args \in Seq(Passed(given, accepted)) /\ opt \in Seq(Passed(given, accepted))
        /\ left \in SUBSET DOMAIN given /\ b.pos \in Nat
    BY <2>4, BindingIs
  <2>. HIDE DEF b
  <2>6. CASE b.rejected
    <3>1. WrongCall(given, accepted, isVariadic, hasCallable)
      BY <1>4, <2>1, <2>3, <2>6 DEF BoundTo, WrongCall
    <3>2. result = Rejected
      BY <2>2, <2>6
    <3> QED
      BY <3>1, <3>2 DEF RightFor
  <2>7. CASE ~b.rejected
    <3>1. InPlace(given, accepted, args, opt, left, b.pos, n)
      BY <2>1, <2>7 DEF BoundTo
    <3>2. left # {} <=> Unknown(given, accepted)
      BY <1>0, <1>4, <2>5, <3>1, LeftIsUnknown DEF InPlace
    <3>3. \A k \in DOMAIN accepted : ~WrongAt(given, accepted, k)
      BY <2>3, <3>1 DEF InPlace, NoneWrong
    <3>4. WrongCall(given, accepted, isVariadic, hasCallable) <=> (~isVariadic /\ left # {})
      BY <1>4, <3>2, <3>3 DEF WrongCall
    <3>5. /\ Taken(given, accepted, args, opt, Len(accepted)) /\ Kept(given, args, left)
          /\ left \in SUBSET Survivors(given)
      BY <2>5, <3>1, LeftSurvives DEF InPlace
    <3>. HIDE DEF args, opt, left
    <3>6. CASE left # {} /\ ~isVariadic
      <4>1. result = Rejected
        BY <2>2, <3>6
      <4> QED
        BY <3>4, <3>6, <4>1 DEF RightFor
    <3>7. CASE left # {} /\ isVariadic
      <4>1. result = args \o opt \o << <<"rest", left>> >>
        BY <2>2, <2>7, <3>7
      <4>2. isVariadic = TRUE /\ ~WrongCall(given, accepted, TRUE, TRUE)
        BY <2>0, <3>4, <3>7
      <4>3. RightFor(given, accepted, TRUE, TRUE, args \o opt \o << <<"rest", left>> >>)
        BY <1>0, <2>5, <3>5, <4>2, RightRest
      <4> QED
        BY <2>0, <4>1, <4>2, <4>3
    <3>8. CASE left = {}
      <4>1. result = args
        BY <2>2, <2>7, <3>8
      <4>2. ~WrongCall(given, accepted, isVariadic, hasCallable) /\ Kept(given, args, {})
        BY <3>4, <3>5, <3>8
      <4>3. RightFor(given, accepted, isVariadic, hasCallable, args)
        BY <1>0, <2>5, <3>5, <4>2, RightPassed
      <4> QED
        BY <4>1, <4>3
    <3> QED
      BY <3>6, <3>7, <3>8
  <2> QED
    BY <2>6, <2>7
<1> QED
  BY <1>1, <1>2, <1>3, <1>4

(* Whatever a call gives, and whatever is accepted: every parameter gets   *)
(* what was meant for it, in its place; what was given is passed, but for  *)
(* an argument whose normalised name a later one has too; and a call is    *)
(* rejected if, and only if, it is wrong                                   *)
(* (TwingNodeExpressionCall.getArguments).                                 *)
THEOREM CallGetsWhatWasMeant == BindingSpec => []ArgumentsInPlace
<1>1. ASSUME call.of # "bound" PROVE ArgumentsInPlace
  BY <1>1 DEF ArgumentsInPlace
<1>2. ASSUME Binding PROVE ArgumentsInPlace'
  <2>1. PICK given \in Calls, accepted \in Signatures, isVariadic \in BOOLEAN, hasCallable \in BOOLEAN :
          call' = [of |-> "bound", given |-> given, accepted |-> accepted,
                   isVariadic |-> isVariadic, hasCallable |-> hasCallable,
                   result |-> getArguments(given, accepted, isVariadic, hasCallable)]
    BY <1>2 DEF Binding
  <2>2. Fitting(Parameters(given), CallableParameters(accepted))
    BY CallsFit
  <2>. DEFINE result == getArguments(given, accepted, isVariadic, hasCallable)
  <2>3. RightFor(Parameters(given), CallableParameters(accepted), isVariadic, hasCallable, result)
    BY <2>2, RightResult
  <2>. HIDE DEF result
  <2>4. /\ call'.given = given /\ call'.accepted = accepted
        /\ call'.isVariadic = isVariadic /\ call'.hasCallable = hasCallable /\ call'.result = result
    BY <2>1 DEF result
  <2> QED
    BY <2>3, <2>4 DEF ArgumentsInPlace, RightFor
<1>3. ASSUME call'.of # "bound" PROVE ArgumentsInPlace'
  BY <1>3 DEF ArgumentsInPlace
<1>4. ASSUME ArgumentsInPlace, UNCHANGED call PROVE ArgumentsInPlace'
  BY <1>4 DEF ArgumentsInPlace
<1> QED
  BY <1>1, <1>2, <1>3, <1>4, PTL DEF BindingSpec

-----------------------------------------------------------------------------
(* Slices. What a slice has, after so many entries of its map.             *)

(* How many of the first n entries are in the window.                      *)
Count(from, length, n) ==
    IF length <= 0 \/ n <= from THEN 0 ELSE IF n <= from + length THEN n - from ELSE length

IsMapping(m) ==
    /\ Len(m) \in Nat
    /\ DOMAIN m = 1 .. Len(m)
    /\ \A k \in DOMAIN m : m[k] = <<m[k][1], m[k][2]>>
    /\ \A j, k \in DOMAIN m : m[j][1] = m[k][1] => j = k

Pairs(m) == ({m[k][1] : k \in DOMAIN m} \cup {<<"number", x>> : x \in Nat}) \X {m[k][2] : k \in DOMAIN m}

(* The key of an entry is a number counted anew, or its own.               *)
KeyFor(key, preserveKeys, keyIndex) ==
    IF IsNumber(key) /\ ~preserveKeys THEN <<"number", keyIndex>> ELSE key
Fits(key, preserveKeys, new, keyIndex) ==
    IF IsNumber(key) /\ ~preserveKeys THEN \E x \in Nat : x < keyIndex /\ new = <<"number", x>> ELSE new = key

KeptAt(m, from, preserveKeys, result, keyIndex, i) ==
    /\ from + i \in DOMAIN m
    /\ result[i][2] = m[from + i][2]
    /\ Fits(m[from + i][1], preserveKeys, result[i][1], keyIndex)

SlicedTo(m, from, length, preserveKeys, s, n) ==
    /\ s.keyIndex \in Nat
    /\ s.result \in Seq(Pairs(m))
    /\ Len(s.result) = Count(from, length, n)
    /\ \A i \in 1 .. Len(s.result) : KeptAt(m, from, preserveKeys, s.result, s.keyIndex, i)
    /\ \A i, j \in 1 .. Len(s.result) : s.result[i][1] = s.result[j][1] => i = j

LEMMA MapsAreMappings ==
    ASSUME NEW m \in Maps
    PROVE  IsMapping(m)
<1>1. m \in Seq({m[k] : k \in DOMAIN m})
  BY SlicesAssumption
<1>2. Len(m) \in Nat /\ DOMAIN m = 1 .. Len(m)
  BY <1>1
<1> QED
  BY <1>2, SlicesAssumption DEF IsMapping

(* The keys of two entries differ, also where they are counted anew.       *)
LEMMA KeysDiffer ==
    ASSUME NEW first, NEW second, first # second, NEW preserveKeys \in BOOLEAN, NEW new, NEW keyIndex \in Nat,
           Fits(first, preserveKeys, new, keyIndex)
    PROVE  new # KeyFor(second, preserveKeys, keyIndex)
<1>1. CASE preserveKeys
  BY <1>1 DEF Fits, KeyFor
<1>2. CASE ~preserveKeys /\ IsNumber(first) /\ IsNumber(second)
  <2>1. PICK x \in Nat : x < keyIndex /\ new = <<"number", x>>
    BY <1>2 DEF Fits
  <2>2. <<"number", x>> # <<"number", keyIndex>>
    BY <2>1
  <2> QED
    BY <1>2, <2>1, <2>2 DEF KeyFor
<1>3. CASE ~preserveKeys /\ IsNumber(first) /\ ~IsNumber(second)
  <2>1. PICK x \in Nat : new = <<"number", x>>
    BY <1>3 DEF Fits
  <2>2. IsNumber(new)
    BY <2>1 DEF IsNumber
  <2> QED
    BY <1>3, <2>2 DEF KeyFor
<1>4. CASE ~preserveKeys /\ ~IsNumber(first) /\ IsNumber(second)
  <2>1. IsNumber(<<"number", keyIndex>>)
    BY DEF IsNumber
  <2> QED
    BY <1>4, <2>1 DEF KeyFor, Fits
<1>5. CASE ~IsNumber(first) /\ ~IsNumber(second)
  BY <1>5 DEF KeyFor, Fits
<1> QED
  BY <1>1, <1>2, <1>3, <1>4, <1>5

LEMMA FitsOn ==
    ASSUME NEW key, NEW preserveKeys \in BOOLEAN, NEW new, NEW keyIndex \in Nat, NEW later \in Nat, keyIndex <= later,
           Fits(key, preserveKeys, new, keyIndex)
    PROVE  Fits(key, preserveKeys, new, later)
<1>1. CASE IsNumber(key) /\ ~preserveKeys
  <2>1. PICK x \in Nat : x < keyIndex /\ new = <<"number", x>>
    BY <1>1 DEF Fits
  <2>2. x < later
    BY <2>1
  <2> QED
    BY <1>1, <2>1, <2>2 DEF Fits
<1>2. CASE ~(IsNumber(key) /\ ~preserveKeys)
  BY <1>2 DEF Fits
<1> QED
  BY <1>1, <1>2

(* The key of an entry that is taken now is counted before the next one.   *)
LEMMA FitsNow ==
    ASSUME NEW key, NEW preserveKeys \in BOOLEAN, NEW keyIndex \in Nat, NEW later \in Nat,
           later = IF IsNumber(key) THEN keyIndex + 1 ELSE keyIndex
    PROVE  Fits(key, preserveKeys, KeyFor(key, preserveKeys, keyIndex), later)
<1>1. CASE IsNumber(key) /\ ~preserveKeys
  <2>1. keyIndex < later
    BY <1>1
  <2> QED
    BY <1>1, <2>1 DEF Fits, KeyFor
<1>2. CASE ~(IsNumber(key) /\ ~preserveKeys)
  BY <1>2 DEF Fits, KeyFor
<1> QED
  BY <1>1, <1>2

(* A sequence of entries, after another one is appended.                   *)
LEMMA AppendEntry ==
    ASSUME NEW m, NEW result \in Seq(Pairs(m)), NEW key, NEW value, <<key, value>> \in Pairs(m)
    PROVE  LET longer == Append(result, <<key, value>>)
           IN  /\ longer \in Seq(Pairs(m))
               /\ Len(longer) = Len(result) + 1
               /\ \A i \in 1 .. Len(result) : longer[i] = result[i]
               /\ longer[Len(result) + 1][1] = key
               /\ longer[Len(result) + 1][2] = value
<1>. DEFINE S == Pairs(m)
            e == <<key, value>>
            longer == Append(result, e)
<1>1. e \in S /\ result \in Seq(S)
  OBVIOUS
<1>2. e[1] = key /\ e[2] = value
  OBVIOUS
<1>. HIDE DEF e, S
<1>3. /\ longer \in Seq(S)
      /\ Len(longer) = Len(result) + 1
      /\ \A i \in 1 .. Len(result) : longer[i] = result[i]
      /\ longer[Len(result) + 1] = e
  BY <1>1
<1>. USE DEF e, S
<1> QED
  BY <1>2, <1>3

(* An entry that is in the window is appended: no other one has its key.   *)
LEMMA KeepStep ==
    ASSUME NEW m, IsMapping(m), NEW from \in Nat, NEW length \in Int, NEW preserveKeys \in BOOLEAN,
           NEW s, NEW n \in 1 .. Len(m), SlicedTo(m, from, length, preserveKeys, s, n - 1),
           n - 1 >= from, n - 1 < from + length
    PROVE  SlicedTo(m, from, length, preserveKeys, Keep(s, m[n], preserveKeys), n)
<1>. DEFINE result == s.result
            index == s.keyIndex
            own == m[n][1]
            value == m[n][2]
            key == KeyFor(own, preserveKeys, index)
            later == IF IsNumber(own) THEN index + 1 ELSE index
            longer == Append(result, <<key, value>>)
            last == Len(result) + 1
<1>1. /\ index \in Nat /\ result \in Seq(Pairs(m)) /\ Len(result) \in Nat
      /\ Len(result) = Count(from, length, n - 1)
      /\ \A i \in 1 .. Len(result) : KeptAt(m, from, preserveKeys, result, index, i)
      /\ \A i, j \in 1 .. Len(result) : result[i][1] = result[j][1] => i = j
  BY DEF SlicedTo
<1>2. Len(m) \in Nat /\ DOMAIN m = 1 .. Len(m) /\ n \in Nat /\ n \in DOMAIN m
  BY DEF IsMapping
<1>3. from + Len(result) = n - 1
  BY <1>1, <1>2 DEF Count
<1>4. last = Count(from, length, n) /\ from + last = n
  BY <1>2, <1>3 DEF Count
<1>5. later \in Nat /\ index <= later
  BY <1>1
<1>6. ASSUME NEW i \in 1 .. Len(result) PROVE result[i][1] # key
  <2>1. KeptAt(m, from, preserveKeys, result, index, i)
    BY <1>1
  <2>. DEFINE other == m[from + i][1]
              new == result[i][1]
  <2>2. from + i \in DOMAIN m /\ Fits(other, preserveKeys, new, index)
    BY <2>1 DEF KeptAt
  <2>3. from + i # n
    BY <1>1, <1>2, <1>3
  <2>4. other # own
    BY <1>2, <2>2, <2>3 DEF IsMapping
  <2>. HIDE DEF other, own, new, index
  <2>5. new # KeyFor(own, preserveKeys, index)
    BY <1>1, <2>2, <2>4, KeysDiffer DEF index
  <2> QED
    BY <2>5 DEF new, index
<1>7. DOMAIN result = 1 .. Len(result)
  BY <1>1
<1>8. ~HasKey(result, key)
  BY <1>6, <1>7 DEF HasKey
<1>9. Keep(s, m[n], preserveKeys) = [result |-> longer, keyIndex |-> later]
  BY <1>8 DEF Keep, KeyFor, SetEntry
<1>10. <<key, value>> \in Pairs(m)
  <2>1. key \in {m[k][1] : k \in DOMAIN m} \cup {<<"number", x>> : x \in Nat}
    BY <1>1, <1>2 DEF KeyFor
  <2>2. value \in {m[k][2] : k \in DOMAIN m}
    BY <1>2
  <2>. HIDE DEF key, value
  <2> QED
    BY <2>1, <2>2 DEF Pairs
<1>11. /\ longer \in Seq(Pairs(m))
       /\ Len(longer) = last
       /\ \A i \in 1 .. Len(result) : longer[i] = result[i]
       /\ longer[last][1] = key
       /\ longer[last][2] = value
  <2>. HIDE DEF key, value, result
  <2> QED
    BY <1>1, <1>10, AppendEntry
<1>12. ASSUME NEW i \in 1 .. Len(longer) PROVE KeptAt(m, from, preserveKeys, longer, later, i)
  <2>1. CASE i \in 1 .. Len(result)
    <3>1. KeptAt(m, from, preserveKeys, result, index, i) /\ longer[i] = result[i]
      BY <1>1, <1>11, <2>1
    <3>. DEFINE other == m[from + i][1]
                new == result[i][1]
    <3>2. from + i \in DOMAIN m /\ result[i][2] = m[from + i][2] /\ Fits(other, preserveKeys, new, index)
      BY <3>1 DEF KeptAt
    <3>3. Fits(other, preserveKeys, new, later)
      <4>. HIDE DEF other, new, later, index
      <4> QED
        BY <1>1, <1>5, <3>2, FitsOn DEF index
    <3>. HIDE DEF later, longer
    <3> QED
      BY <3>1, <3>2, <3>3 DEF KeptAt
  <2>2. CASE i = last
    <3>1. from + i = n
      BY <1>4, <2>2
    <3>2. Fits(own, preserveKeys, key, later)
      <4>0. later = IF IsNumber(own) THEN index + 1 ELSE index
        OBVIOUS
      <4>. HIDE DEF own, later, index
      <4> QED
        BY <1>1, <1>5, <4>0, FitsNow DEF index
    <3>3. longer[i][1] = key /\ longer[i][2] = value
      BY <1>11, <2>2
    <3>. HIDE DEF later, longer, key
    <3> QED
      BY <1>2, <3>1, <3>2, <3>3 DEF KeptAt
  <2>3. i \in 1 .. Len(result) \/ i = last
    <3>1. Len(longer) = last
      BY <1>11
    <3>. HIDE DEF longer
    <3> QED
      BY <1>1, <3>1
  <2> QED
    BY <2>1, <2>2, <2>3
<1>13. ASSUME NEW i \in 1 .. Len(longer), NEW j \in 1 .. Len(longer), longer[i][1] = longer[j][1] PROVE i = j
  <2>1. Len(longer) = last
    BY <1>11
  <2>. HIDE DEF longer, key
  <2>2. CASE i \in 1 .. Len(result) /\ j \in 1 .. Len(result)
    BY <1>1, <1>11, <1>13, <2>2
  <2>3. CASE i = last /\ j \in 1 .. Len(result)
    BY <1>6, <1>11, <1>13, <2>3
  <2>4. CASE j = last /\ i \in 1 .. Len(result)
    BY <1>6, <1>11, <1>13, <2>4
  <2>5. CASE i = last /\ j = last
    BY <2>5
  <2>6. (i \in 1 .. Len(result) \/ i = last) /\ (j \in 1 .. Len(result) \/ j = last)
    BY <1>1, <2>1
  <2> QED
    BY <2>2, <2>3, <2>4, <2>5, <2>6
<1>. DEFINE t == [result |-> longer, keyIndex |-> later]
<1>14. t.result = longer /\ t.keyIndex = later
  OBVIOUS
<1>15. Len(longer) = Count(from, length, n)
  BY <1>4, <1>11
<1>16. longer \in Seq(Pairs(m))
  BY <1>11
<1>. HIDE DEF longer, later, t
<1>17. SlicedTo(m, from, length, preserveKeys, t, n)
  BY <1>5, <1>12, <1>13, <1>14, <1>15, <1>16 DEF SlicedTo
<1> QED
  BY <1>9, <1>17 DEF t

(* An entry that is not in the window is left out.                         *)
LEMMA SkipStep ==
    ASSUME NEW m, IsMapping(m), NEW from \in Nat, NEW length \in Int, NEW preserveKeys \in BOOLEAN,
           NEW s, NEW n \in 1 .. Len(m), SlicedTo(m, from, length, preserveKeys, s, n - 1),
           ~(n - 1 >= from /\ n - 1 < from + length)
    PROVE  SlicedTo(m, from, length, preserveKeys, s, n)
<1>1. Count(from, length, n) = Count(from, length, n - 1)
  BY DEF Count, IsMapping
<1> QED
  BY <1>1 DEF SlicedTo

-----------------------------------------------------------------------------
(* The loop.                                                               *)

Nothing == [result |-> << >>, keyIndex |-> 0]

SliceStep(m, from, length, preserveKeys, s, n) ==
    IF n - 1 >= from /\ n - 1 < from + length THEN Keep(s, m[n], preserveKeys) ELSE s

SlicedIn(f, m, from, length, preserveKeys, n) ==
    f = [i \in 0 .. n |-> IF i = 0 THEN Nothing ELSE SliceStep(m, from, length, preserveKeys, f[i - 1], i)]

SliceSteps(f, m, from, length, preserveKeys, n) ==
    /\ f[0] = Nothing
    /\ \A i \in 1 .. n : f[i] = SliceStep(m, from, length, preserveKeys, f[i - 1], i)

LEMMA SlicedInAt ==
    ASSUME NEW m, NEW from, NEW length, NEW preserveKeys, NEW n \in Nat, NEW f,
           SlicedIn(f, m, from, length, preserveKeys, n)
    PROVE  SliceSteps(f, m, from, length, preserveKeys, n)
<1>1. f[0] = Nothing
  BY DEF SlicedIn
<1>2. ASSUME NEW i \in 1 .. n PROVE f[i] = SliceStep(m, from, length, preserveKeys, f[i - 1], i)
  <2>1. i \in 0 .. n /\ i # 0
    OBVIOUS
  <2> QED
    BY <2>1 DEF SlicedIn
<1> QED
  BY <1>1, <1>2 DEF SliceSteps

LEMMA SlicedInExists ==
    ASSUME NEW m, NEW from, NEW length, NEW preserveKeys, NEW n \in Nat
    PROVE  \E f : SlicedIn(f, m, from, length, preserveKeys, n)
<1>. DEFINE Lacking == {k \in 0 .. n : ~ \E f : SlicedIn(f, m, from, length, preserveKeys, k)}
<1>1. CASE Lacking # {}
  <2>0. Lacking \in SUBSET Nat
    OBVIOUS
  <2>. HIDE DEF Lacking
  <2>1. PICK k \in Lacking : \A j \in Lacking : ~ (j < k)
    BY <1>1, <2>0, LeastNat
  <2>. USE DEF Lacking
  <2>2. k \in 0 .. n /\ ~ \E f : SlicedIn(f, m, from, length, preserveKeys, k)
    OBVIOUS
  <2>3. k # 0
    <3>. DEFINE f == [i \in 0 .. 0 |-> Nothing]
    <3>1. f = [i \in 0 .. 0 |-> IF i = 0 THEN Nothing ELSE SliceStep(m, from, length, preserveKeys, f[i - 1], i)]
      OBVIOUS
    <3>2. SlicedIn(f, m, from, length, preserveKeys, 0)
      BY <3>1 DEF SlicedIn
    <3> QED
      BY <2>2, <3>2
  <2>4. PICK f : SlicedIn(f, m, from, length, preserveKeys, k - 1)
    <3>1. k - 1 \in 0 .. n /\ k - 1 < k
      BY <2>2, <2>3
    <3> QED
      BY <2>1, <3>1
  <2>. DEFINE g == [i \in 0 .. k |-> IF i = k THEN SliceStep(m, from, length, preserveKeys, f[k - 1], k) ELSE f[i]]
  <2>5. ASSUME NEW i \in 0 .. k
        PROVE  g[i] = IF i = 0 THEN Nothing ELSE SliceStep(m, from, length, preserveKeys, g[i - 1], i)
    <3>1. f[0] = Nothing /\ \A j \in 1 .. k - 1 : f[j] = SliceStep(m, from, length, preserveKeys, f[j - 1], j)
      <4>. DEFINE p == k - 1
      <4>1. p \in Nat /\ SlicedIn(f, m, from, length, preserveKeys, p)
        BY <2>2, <2>3, <2>4
      <4>. HIDE DEF p
      <4>2. f[0] = Nothing /\ \A j \in 1 .. p : f[j] = SliceStep(m, from, length, preserveKeys, f[j - 1], j)
        <5>1. SliceSteps(f, m, from, length, preserveKeys, p)
          BY <4>1, SlicedInAt, Zenon
        <5> QED
          BY <5>1 DEF SliceSteps
      <4> QED
        BY <4>2 DEF p
    <3>2. CASE i = 0
      BY <2>2, <2>3, <3>1, <3>2
    <3>3. CASE i # 0
      <4>1. g[i - 1] = f[i - 1]
        BY <2>2, <3>3
      <4>2. CASE i = k
        BY <3>3, <4>1, <4>2
      <4>3. CASE i # k
        BY <3>1, <3>3, <4>1, <4>3, <2>2
      <4> QED
        BY <4>2, <4>3
    <3> QED
      BY <3>2, <3>3
  <2>6. SlicedIn(g, m, from, length, preserveKeys, k)
    <3>1. g = [i \in 0 .. k |-> g[i]]
      OBVIOUS
    <3>2. [i \in 0 .. k |-> g[i]]
            = [i \in 0 .. k |-> IF i = 0 THEN Nothing ELSE SliceStep(m, from, length, preserveKeys, g[i - 1], i)]
      <4>. HIDE DEF g
      <4> QED
        BY <2>5
    <3>. HIDE DEF g
    <3> QED
      BY <3>1, <3>2 DEF SlicedIn
  <2> QED
    BY <2>2, <2>6
<1>2. CASE Lacking = {}
  <2>1. n \notin Lacking
    <3>. HIDE DEF Lacking
    <3> QED
      BY <1>2
  <2> QED
    BY <2>1
<1> QED
  BY <1>1, <1>2

LEMMA SlicedByLoop ==
    ASSUME NEW m, NEW from, NEW length, NEW preserveKeys, Len(m) \in Nat
    PROVE  \E f : /\ SlicedIn(f, m, from, length, preserveKeys, Len(m))
                  /\ Sliced(m, from, length, preserveKeys) = f[Len(m)].result
<1>. DEFINE f == CHOOSE g : g = [n \in 0 .. Len(m) |->
                                   IF n = 0 THEN [result |-> << >>, keyIndex |-> 0]
                                   ELSE IF n - 1 >= from /\ n - 1 < from + length THEN Keep(g[n - 1], m[n], preserveKeys)
                                   ELSE g[n - 1]]
<1>1. SlicedIn(f, m, from, length, preserveKeys, Len(m))
  <2>1. \E g : SlicedIn(g, m, from, length, preserveKeys, Len(m))
    BY SlicedInExists
  <2> QED
    BY <2>1, Zenon DEF SlicedIn, SliceStep, Nothing
<1>2. Sliced(m, from, length, preserveKeys) = f[Len(m)].result
  BY DEF Sliced
<1> QED
  BY <1>1, <1>2

(* The whole map is gone through.                                          *)
LEMMA SlicedIs ==
    ASSUME NEW m, IsMapping(m), NEW from \in Nat, NEW length \in Int, NEW preserveKeys \in BOOLEAN
    PROVE  \E s : /\ SlicedTo(m, from, length, preserveKeys, s, Len(m))
                  /\ Sliced(m, from, length, preserveKeys) = s.result
<1>1. Len(m) \in Nat
  BY DEF IsMapping
<1>2. PICK f : /\ SlicedIn(f, m, from, length, preserveKeys, Len(m))
               /\ Sliced(m, from, length, preserveKeys) = f[Len(m)].result
  BY <1>1, SlicedByLoop
<1>3. f[0] = Nothing /\ \A n \in 1 .. Len(m) : f[n] = SliceStep(m, from, length, preserveKeys, f[n - 1], n)
  <2>1. SliceSteps(f, m, from, length, preserveKeys, Len(m))
    BY <1>1, <1>2, SlicedInAt, Zenon
  <2> QED
    BY <2>1 DEF SliceSteps
<1>. DEFINE Right(n) == SlicedTo(m, from, length, preserveKeys, f[n], n)
            Wrongs == {n \in 0 .. Len(m) : ~Right(n)}
<1>4. Right(0)
  <2>1. Count(from, length, 0) = 0
    BY DEF Count
  <2>2. << >> \in Seq(Pairs(m)) /\ Len(<< >>) = 0
    OBVIOUS
  <2> QED
    BY <1>3, <2>1, <2>2 DEF SlicedTo, Nothing
<1>5. ASSUME NEW n \in 1 .. Len(m), Right(n - 1) PROVE Right(n)
  <2>1. CASE n - 1 >= from /\ n - 1 < from + length
    <3>1. f[n] = Keep(f[n - 1], m[n], preserveKeys)
      BY <1>3, <2>1 DEF SliceStep
    <3> QED
      BY <1>5, <2>1, <3>1, KeepStep
  <2>2. CASE ~(n - 1 >= from /\ n - 1 < from + length)
    <3>1. f[n] = f[n - 1]
      BY <1>3, <2>2 DEF SliceStep
    <3> QED
      BY <1>5, <2>2, <3>1, SkipStep
  <2> QED
    BY <2>1, <2>2
<1>6. CASE Wrongs # {}
  <2>0. Wrongs \in SUBSET Nat
    OBVIOUS
  <2>. HIDE DEF Wrongs
  <2>1. PICK n \in Wrongs : \A j \in Wrongs : ~ (j < n)
    BY <1>6, <2>0, LeastNat
  <2>. USE DEF Wrongs
  <2>. HIDE DEF Right
  <2>2. n \in 0 .. Len(m) /\ ~Right(n)
    OBVIOUS
  <2>3. n \in 1 .. Len(m) /\ n - 1 \in 0 .. Len(m) /\ n - 1 < n
    BY <1>1, <1>4, <2>2
  <2>4. Right(n - 1)
    BY <2>1, <2>3
  <2> QED
    BY <1>5, <2>2, <2>3, <2>4
<1>7. CASE Wrongs = {}
  <2>1. Len(m) \in 0 .. Len(m)
    BY <1>1
  <2>2. Right(Len(m))
    <3>. HIDE DEF Right
    <3> QED
      BY <1>7, <2>1
  <2> QED
    BY <1>2, <2>2
<1> QED
  BY <1>6, <1>7

-----------------------------------------------------------------------------
(* The window.                                                             *)

(* A part that has each entry of the window at its place.                  *)
Placed(part, whole, from, count) ==
    /\ IsPart(part, whole, from + 1 .. from + count)
    /\ \A k \in from + 1 .. from + count :
         /\ PlaceIn(from + 1 .. from + count, k) = k - from
         /\ k - from \in 1 .. count

LEMMA PartIs ==
    ASSUME NEW part, NEW whole, NEW from \in Nat, NEW count \in Nat, Len(part) = count,
           \A i \in 1 .. count : part[i] = whole[from + i]
    PROVE  Placed(part, whole, from, count)
<1>. DEFINE window == from + 1 .. from + count
<1>1. Cardinality(window) = count
  <2>. DEFINE a == from + 1
              b == from + count
  <2>1. a \in Int /\ b \in Int /\ (IF a > b THEN 0 ELSE b - a + 1) = count
    OBVIOUS
  <2>. HIDE DEF a, b
  <2>2. Cardinality(a .. b) = IF a > b THEN 0 ELSE b - a + 1
    BY <2>1, FS_Interval
  <2> QED
    BY <2>1, <2>2 DEF a, b
<1>2. ASSUME NEW k \in window PROVE PlaceIn(window, k) = k - from /\ k - from \in 1 .. count
  <2>. DEFINE a == from + 1
  <2>1. {j \in window : j <= k} = a .. k
    OBVIOUS
  <2>2. a \in Int /\ k \in Int /\ (IF a > k THEN 0 ELSE k - a + 1) = k - from
    OBVIOUS
  <2>. HIDE DEF a
  <2>3. Cardinality(a .. k) = IF a > k THEN 0 ELSE k - a + 1
    BY <2>2, FS_Interval
  <2>4. PlaceIn(window, k) = k - from
    BY <2>1, <2>2, <2>3 DEF PlaceIn
  <2>5. k - from \in 1 .. count
    OBVIOUS
  <2> QED
    BY <2>4, <2>5
<1>3. ASSUME NEW k \in window PROVE part[PlaceIn(window, k)] = whole[k]
  <2>. DEFINE i == k - from
  <2>1. PlaceIn(window, k) = i /\ i \in 1 .. count /\ from + i = k
    BY <1>2
  <2>. HIDE DEF i, window
  <2> QED
    BY <2>1
<1>4. IsPart(part, whole, window)
  <2>. HIDE DEF window
  <2> QED
    BY <1>1, <1>3 DEF IsPart
<1> QED
  BY <1>2, <1>4 DEF Placed

First(n, start) == IF start < 0 THEN n + start ELSE start

LEMMA WindowIs ==
    ASSUME NEW n \in Nat, NEW start \in Int, start >= -n,
           NEW length, length = << >> \/ \E x \in Nat : length = <<x>>
    PROVE  /\ First(n, start) \in Nat
           /\ LengthOr(length, n - start) \in Int
           /\ Count(First(n, start), LengthOr(length, n - start), n) \in Nat
           /\ Window(n, start, length)
                = First(n, start) + 1 .. First(n, start) + Count(First(n, start), LengthOr(length, n - start), n)
<1>1. CASE length = << >>
  <2>1. LengthOr(length, n - start) = n - start /\ LengthOr(length, n) = n
    BY <1>1 DEF LengthOr
  <2> QED
    BY <2>1 DEF First, Count, Window
<1>2. CASE \E x \in Nat : length = <<x>>
  <2>1. PICK x \in Nat : length = <<x>>
    BY <1>2
  <2>2. LengthOr(length, n - start) = x /\ LengthOr(length, n) = x
    BY <2>1 DEF LengthOr
  <2> QED
    BY <2>2 DEF First, Count, Window
<1> QED
  BY <1>1, <1>2

(* The part of a string.                                                   *)
LEMMA StringIs ==
    ASSUME NEW text, Len(text) \in Nat, DOMAIN text = 1 .. Len(text),
           NEW start \in Int, start >= -Len(text),
           NEW length, length = << >> \/ \E x \in Nat : length = <<x>>
    PROVE  LET from == First(Len(text), start)
               count == Count(from, LengthOr(length, Len(text) - start), Len(text))
               part == sliceString(text, start, length)
           IN  Len(part) = count /\ \A i \in 1 .. count : part[i] = text[from + i]
<1>. DEFINE n == Len(text)
            from == First(n, start)
            size == LengthOr(length, n - start)
            count == Count(from, size, n)
            to == from + size
            a == from + 1
            b == IF to > n THEN n ELSE to
            S == {text[i] : i \in 1 .. n}
<1>1. from \in Nat /\ size \in Int /\ count \in Nat
  BY WindowIs
<1>2. sliceString(text, start, length) = SubSeq(text, a, b)
  <2>1. (IF start < 0 THEN (IF Len(text) + start > 0 THEN Len(text) + start ELSE 0) ELSE start) = from
    BY DEF First
  <2> QED
    BY <2>1 DEF sliceString
<1>3. a \in Int /\ b \in Int /\ count = IF a <= b THEN b - a + 1 ELSE 0
  <2>1. from \in Nat /\ size \in Int /\ n \in Nat
    BY <1>1
  <2>. HIDE DEF from, size, n
  <2> QED
    BY <2>1 DEF Count
<1>4. \A i \in a .. b : text[i] \in S
  <2>1. from \in Nat /\ size \in Int /\ n \in Nat
    BY <1>1
  <2>. HIDE DEF from, size, n
  <2>2. \A i \in a .. b : i \in 1 .. n
    BY <2>1
  <2> QED
    BY <2>2
<1>. HIDE DEF S
<1>5. /\ Len(SubSeq(text, a, b)) = IF a <= b THEN b - a + 1 ELSE 0
      /\ \A i \in 1 .. b - a + 1 : SubSeq(text, a, b)[i] = text[a + i - 1]
  <2>. HIDE DEF a, b
  <2> QED
    BY <1>3, <1>4, SubSeqProperties
<1>6. ASSUME NEW i \in 1 .. count PROVE SubSeq(text, a, b)[i] = text[from + i]
  <2>1. i \in 1 .. b - a + 1
    <3>. HIDE DEF a, b, count
    <3> QED
      BY <1>3
  <2>2. a + i - 1 = from + i
    <3>1. from \in Nat
      BY <1>1
    <3>. HIDE DEF from, count
    <3> QED
      BY <3>1
  <2> QED
    BY <1>5, <2>1, <2>2
<1> QED
  BY <1>2, <1>3, <1>5, <1>6

-----------------------------------------------------------------------------
(* A map that is sliced.                                                   *)

LEMMA SizesAre ==
    ASSUME NEW length \in {<< >>} \cup {<<n>> : n \in Sizes}, LengthOr(length, 0) >= 0
    PROVE  length = << >> \/ \E x \in Nat : length = <<x>>
<1>1. CASE length \in {<<n>> : n \in Sizes}
  <2>1. PICK x \in Sizes : length = <<x>>
    BY <1>1
  <2>2. x \in Int /\ LengthOr(length, 0) = x
    BY <2>1, SlicesAssumption DEF LengthOr
  <2> QED
    BY <2>1, <2>2
<1> QED
  BY <1>1

LEMMA ValuesAre ==
    ASSUME NEW entries, Len(entries) \in Nat, DOMAIN entries = 1 .. Len(entries)
    PROVE  /\ Len(ValuesOf(entries)) = Len(entries)
           /\ DOMAIN ValuesOf(entries) = 1 .. Len(entries)
           /\ \A k \in 1 .. Len(entries) : ValuesOf(entries)[k] = entries[k][2]
<1>1. ValuesOf(entries) \in Seq({entries[k][2] : k \in DOMAIN entries})
  BY DEF ValuesOf
<1> QED
  BY <1>1 DEF ValuesOf

WindowOf(m, start, length, preserveKeys, result, text) ==
    LET window == Window(Len(m), start, length)
    IN  /\ IsPart(ValuesOf(result), ValuesOf(m), window)
        /\ IsPart(text, ValuesOf(m), window)
        /\ \A j, k \in DOMAIN result : result[j][1] = result[k][1] => j = k
        /\ \A k \in window :
             preserveKeys \/ ~IsNumber(m[k][1]) => result[PlaceIn(window, k)][1] = m[k][1]

LEMMA SliceIs ==
    ASSUME NEW m, IsMapping(m), NEW start \in Int, start >= -Len(m),
           NEW length, length = << >> \/ \E x \in Nat : length = <<x>>, NEW preserveKeys \in BOOLEAN
    PROVE  WindowOf(m, start, length, preserveKeys,
                    sliceFilter(m, start, length, preserveKeys), sliceString(ValuesOf(m), start, length))
<1>. DEFINE n == Len(m)
            from == First(n, start)
            size == LengthOr(length, n - start)
            count == Count(from, size, n)
            result == sliceFilter(m, start, length, preserveKeys)
            text == sliceString(ValuesOf(m), start, length)
            window == from + 1 .. from + count
<1>1. n \in Nat /\ DOMAIN m = 1 .. n
  BY DEF IsMapping
<1>2. from \in Nat /\ size \in Int /\ count \in Nat /\ Window(n, start, length) = window
  BY <1>1, WindowIs
<1>3. result = Sliced(m, from, size, preserveKeys)
  BY DEF sliceFilter, slice, First
<1>4. PICK s : SlicedTo(m, from, size, preserveKeys, s, n) /\ Sliced(m, from, size, preserveKeys) = s.result
  <2>. HIDE DEF from, size
  <2> QED
    BY <1>2, SlicedIs
<1>5. /\ result \in Seq(Pairs(m))
      /\ Len(result) = count
      /\ \A i \in 1 .. Len(result) : KeptAt(m, from, preserveKeys, result, s.keyIndex, i)
      /\ \A i, j \in 1 .. Len(result) : result[i][1] = result[j][1] => i = j
  <2>. HIDE DEF from, size, result
  <2> QED
    BY <1>3, <1>4 DEF SlicedTo
<1>6. DOMAIN result = 1 .. count
  BY <1>5
<1>7. ASSUME NEW i \in 1 .. count
      PROVE  /\ from + i \in 1 .. n
             /\ result[i][2] = m[from + i][2]
             /\ preserveKeys \/ ~IsNumber(m[from + i][1]) => result[i][1] = m[from + i][1]
  <2>1. KeptAt(m, from, preserveKeys, result, s.keyIndex, i)
    BY <1>5
  <2>. HIDE DEF from, result, count, n
  <2> QED
    BY <1>1, <2>1 DEF KeptAt, Fits
<1>. HIDE DEF result
<1>8. /\ Len(ValuesOf(result)) = count
      /\ \A i \in 1 .. count : ValuesOf(result)[i] = ValuesOf(m)[from + i]
  <2>1. Len(result) = count /\ DOMAIN result = 1 .. Len(result) /\ count \in Nat
    BY <1>2, <1>5, <1>6
  <2>. HIDE DEF count, from, n
  <2>2. Len(ValuesOf(result)) = count /\ \A i \in 1 .. count : ValuesOf(result)[i] = result[i][2]
    BY <2>1, ValuesAre
  <2>3. \A k \in 1 .. n : ValuesOf(m)[k] = m[k][2]
    BY <1>1, ValuesAre DEF n
  <2> QED
    BY <1>7, <2>2, <2>3
<1>9. Len(text) = count /\ \A i \in 1 .. count : text[i] = ValuesOf(m)[from + i]
  <2>. DEFINE values == ValuesOf(m)
  <2>1. Len(values) = n /\ DOMAIN values = 1 .. n
    BY <1>1, ValuesAre
  <2>. HIDE DEF values
  <2>2. /\ Len(values) \in Nat /\ DOMAIN values = 1 .. Len(values) /\ start >= -Len(values)
    BY <1>1, <2>1
  <2>3. LET f == First(Len(values), start)
            c == Count(f, LengthOr(length, Len(values) - start), Len(values))
            part == sliceString(values, start, length)
        IN  Len(part) = c /\ \A i \in 1 .. c : part[i] = values[f + i]
    BY <2>2, StringIs
  <2> QED
    BY <2>1, <2>3 DEF values
<1>. HIDE DEF text, from, count
<1>10. /\ IsPart(ValuesOf(result), ValuesOf(m), window)
       /\ \A k \in window : PlaceIn(window, k) = k - from /\ k - from \in 1 .. count
  <2>1. Placed(ValuesOf(result), ValuesOf(m), from, count)
    BY <1>2, <1>8, PartIs
  <2> QED
    BY <2>1 DEF Placed
<1>11. IsPart(text, ValuesOf(m), window)
  <2>1. Placed(text, ValuesOf(m), from, count)
    BY <1>2, <1>9, PartIs
  <2> QED
    BY <2>1 DEF Placed
<1>12. ASSUME NEW k \in window, preserveKeys \/ ~IsNumber(m[k][1])
       PROVE  result[PlaceIn(window, k)][1] = m[k][1]
  <2>. DEFINE i == k - from
  <2>1. PlaceIn(window, k) = i /\ i \in 1 .. count
    BY <1>10
  <2>2. from + i = k
    BY <1>2
  <2>. HIDE DEF i, window
  <2> QED
    BY <1>7, <1>12, <2>1, <2>2
<1>13. \A j, k \in DOMAIN result : result[j][1] = result[k][1] => j = k
  BY <1>5, <1>6
<1>. HIDE DEF window
<1> QED
  BY <1>2, <1>10, <1>11, <1>12, <1>13 DEF WindowOf, text, result

(* A slice of any map, and of any string, is the window that was asked for *)
(* from its start or from its end; no entry of it is lost to another with  *)
(* the same key (slice.ts).                                                *)
THEOREM SliceIsItsWindow == SlicingSpec => []SliceIsWindow
<1>1. ASSUME call.of # "sliced" PROVE SliceIsWindow
  BY <1>1 DEF SliceIsWindow
<1>2. ASSUME Slicing PROVE SliceIsWindow'
  <2>1. PICK m \in Maps, start \in Sizes, length \in {<< >>} \cup {<<n>> : n \in Sizes}, preserveKeys \in BOOLEAN :
          call' = [of |-> "sliced", map |-> m, start |-> start, length |-> length, preserveKeys |-> preserveKeys,
                   result |-> sliceFilter(m, start, length, preserveKeys),
                   text |-> sliceString(ValuesOf(m), start, length)]
    BY <1>2 DEF Slicing
  <2>. DEFINE result == sliceFilter(m, start, length, preserveKeys)
              text == sliceString(ValuesOf(m), start, length)
  <2>. HIDE DEF result, text
  <2>2. /\ call'.map = m /\ call'.start = start /\ call'.length = length
        /\ call'.preserveKeys = preserveKeys /\ call'.result = result /\ call'.text = text
    BY <2>1 DEF result, text
  <2>3. ASSUME start >= -Len(m), LengthOr(length, 0) >= 0
        PROVE  WindowOf(m, start, length, preserveKeys, result, text)
    <3>1. length = << >> \/ \E x \in Nat : length = <<x>>
      BY <2>3, SizesAre
    <3>2. IsMapping(m) /\ start \in Int
      BY MapsAreMappings, SlicesAssumption
    <3> QED
      BY <2>3, <3>1, <3>2, SliceIs DEF result, text
  <2> QED
    BY <2>2, <2>3 DEF SliceIsWindow, WindowOf
<1>3. ASSUME call'.of # "sliced" PROVE SliceIsWindow'
  BY <1>3 DEF SliceIsWindow
<1>4. ASSUME SliceIsWindow, UNCHANGED call PROVE SliceIsWindow'
  BY <1>4 DEF SliceIsWindow
<1> QED
  BY <1>1, <1>2, <1>3, <1>4, PTL DEF SlicingSpec

-----------------------------------------------------------------------------
(* Arrangements. Entries that are set one by one.                          *)

AllSet(f, entries, more, n) ==
    f = [i \in 0 .. n |-> IF i = 0 THEN entries ELSE SetEntry(f[i - 1], more[i][1], more[i][2])]

AllSetSteps(f, entries, more, n) ==
    /\ f[0] = entries
    /\ \A i \in 1 .. n : f[i] = SetEntry(f[i - 1], more[i][1], more[i][2])

LEMMA AllSetAt ==
    ASSUME NEW entries, NEW more, NEW n \in Nat, NEW f, AllSet(f, entries, more, n)
    PROVE  AllSetSteps(f, entries, more, n)
<1>1. f[0] = entries
  BY DEF AllSet
<1>2. ASSUME NEW i \in 1 .. n PROVE f[i] = SetEntry(f[i - 1], more[i][1], more[i][2])
  <2>1. i \in 0 .. n /\ i # 0
    OBVIOUS
  <2> QED
    BY <2>1 DEF AllSet
<1> QED
  BY <1>1, <1>2 DEF AllSetSteps

LEMMA AllSetExists ==
    ASSUME NEW entries, NEW more, NEW n \in Nat
    PROVE  \E f : AllSet(f, entries, more, n)
<1>. DEFINE Lacking == {k \in 0 .. n : ~ \E f : AllSet(f, entries, more, k)}
<1>1. CASE Lacking # {}
  <2>0. Lacking \in SUBSET Nat
    OBVIOUS
  <2>. HIDE DEF Lacking
  <2>1. PICK k \in Lacking : \A j \in Lacking : ~ (j < k)
    BY <1>1, <2>0, LeastNat
  <2>. USE DEF Lacking
  <2>2. k \in 0 .. n /\ ~ \E f : AllSet(f, entries, more, k)
    OBVIOUS
  <2>3. k # 0
    <3>. DEFINE f == [i \in 0 .. 0 |-> entries]
    <3>1. f = [i \in 0 .. 0 |-> IF i = 0 THEN entries ELSE SetEntry(f[i - 1], more[i][1], more[i][2])]
      OBVIOUS
    <3>2. AllSet(f, entries, more, 0)
      BY <3>1 DEF AllSet
    <3> QED
      BY <2>2, <3>2
  <2>4. PICK f : AllSet(f, entries, more, k - 1)
    <3>1. k - 1 \in 0 .. n /\ k - 1 < k
      BY <2>2, <2>3
    <3> QED
      BY <2>1, <3>1
  <2>. DEFINE g == [i \in 0 .. k |-> IF i = k THEN SetEntry(f[k - 1], more[k][1], more[k][2]) ELSE f[i]]
  <2>5. ASSUME NEW i \in 0 .. k
        PROVE  g[i] = IF i = 0 THEN entries ELSE SetEntry(g[i - 1], more[i][1], more[i][2])
    <3>1. f[0] = entries /\ \A j \in 1 .. k - 1 : f[j] = SetEntry(f[j - 1], more[j][1], more[j][2])
      <4>. DEFINE p == k - 1
      <4>1. p \in Nat /\ AllSet(f, entries, more, p)
        BY <2>2, <2>3, <2>4
      <4>. HIDE DEF p
      <4>2. f[0] = entries /\ \A j \in 1 .. p : f[j] = SetEntry(f[j - 1], more[j][1], more[j][2])
        <5>1. AllSetSteps(f, entries, more, p)
          BY <4>1, AllSetAt, Zenon
        <5> QED
          BY <5>1 DEF AllSetSteps
      <4> QED
        BY <4>2 DEF p
    <3>2. CASE i = 0
      BY <2>2, <2>3, <3>1, <3>2
    <3>3. CASE i # 0
      <4>1. g[i - 1] = f[i - 1]
        BY <2>2, <3>3
      <4>2. CASE i = k
        BY <3>3, <4>1, <4>2
      <4>3. CASE i # k
        BY <3>1, <3>3, <4>1, <4>3, <2>2
      <4> QED
        BY <4>2, <4>3
    <3> QED
      BY <3>2, <3>3
  <2>6. AllSet(g, entries, more, k)
    <3>1. g = [i \in 0 .. k |-> g[i]]
      OBVIOUS
    <3>2. [i \in 0 .. k |-> g[i]]
            = [i \in 0 .. k |-> IF i = 0 THEN entries ELSE SetEntry(g[i - 1], more[i][1], more[i][2])]
      <4>. HIDE DEF g
      <4> QED
        BY <2>5
    <3>. HIDE DEF g
    <3> QED
      BY <3>1, <3>2 DEF AllSet
  <2> QED
    BY <2>2, <2>6
<1>2. CASE Lacking = {}
  <2>1. n \notin Lacking
    <3>. HIDE DEF Lacking
    <3> QED
      BY <1>2
  <2> QED
    BY <2>1
<1> QED
  BY <1>1, <1>2

LEMMA SetAllByLoop ==
    ASSUME NEW entries, NEW more, Len(more) \in Nat
    PROVE  \E f : AllSetSteps(f, entries, more, Len(more)) /\ SetAll(entries, more) = f[Len(more)]
<1>. DEFINE f == CHOOSE g : g = [n \in 0 .. Len(more) |->
                                   IF n = 0 THEN entries ELSE SetEntry(g[n - 1], more[n][1], more[n][2])]
<1>1. AllSet(f, entries, more, Len(more))
  <2>1. \E g : AllSet(g, entries, more, Len(more))
    BY AllSetExists
  <2> QED
    BY <2>1, Zenon DEF AllSet
<1>2. SetAll(entries, more) = f[Len(more)]
  BY DEF SetAll
<1>. HIDE DEF f
<1>3. AllSetSteps(f, entries, more, Len(more))
  BY <1>1, AllSetAt, Zenon
<1> QED
  BY <1>2, <1>3

(* No two keys of the entries that are set are the same, and none is there. *)
AreNew(entries, more) ==
    /\ Len(more) \in Nat
    /\ \A k \in 1 .. Len(more) :
         /\ more[k] = <<more[k][1], more[k][2]>>
         /\ \A i \in 1 .. Len(entries) : entries[i][1] # more[k][1]
         /\ \A j \in 1 .. Len(more) : more[j][1] = more[k][1] => j = k

(* The first n of them have been appended.                                 *)
Appended(entries, more, result, n) ==
    /\ Len(result) = Len(entries) + n
    /\ DOMAIN result = 1 .. Len(result)
    /\ \A i \in 1 .. Len(entries) : result[i] = entries[i]
    /\ \A k \in 1 .. n : result[Len(entries) + k] = more[k]

InSeq(S, result) == result \in Seq(S)

LEMMA AppendNew ==
    ASSUME NEW S, NEW entries \in Seq(S), NEW more, AreNew(entries, more),
           \A k \in 1 .. Len(more) : more[k] \in S,
           NEW n \in 1 .. Len(more), NEW result \in Seq(S), Appended(entries, more, result, n - 1)
    PROVE  LET longer == SetEntry(result, more[n][1], more[n][2])
           IN  longer \in Seq(S) /\ Appended(entries, more, longer, n)
<1>. DEFINE e == more[n]
            key == e[1]
            longer == Append(result, e)
<1>1. e = <<e[1], e[2]>> /\ e \in S
  BY DEF AreNew
<1>2. Len(entries) \in Nat /\ Len(more) \in Nat /\ n \in Nat
  BY DEF AreNew
<1>3. Len(result) = Len(entries) + (n - 1) /\ DOMAIN result = 1 .. Len(result)
  BY DEF Appended
<1>4. ASSUME NEW i \in DOMAIN result PROVE result[i][1] # key
  <2>1. CASE i \in 1 .. Len(entries)
    BY <2>1 DEF AreNew, Appended
  <2>2. CASE i \notin 1 .. Len(entries)
    <3>. DEFINE k == i - Len(entries)
    <3>1. k \in 1 .. n - 1 /\ Len(entries) + k = i
      BY <1>2, <1>3, <2>2
    <3>2. k \in 1 .. Len(more) /\ k # n
      BY <1>2, <3>1
    <3>. HIDE DEF k
    <3>3. result[i] = more[k]
      BY <3>1 DEF Appended
    <3> QED
      BY <3>2, <3>3 DEF AreNew
  <2> QED
    BY <2>1, <2>2
<1>5. ~HasKey(result, key)
  BY <1>4 DEF HasKey
<1>6. SetEntry(result, e[1], e[2]) = longer
  BY <1>1, <1>5 DEF SetEntry
<1>. HIDE DEF e
<1>7. /\ longer \in Seq(S) /\ Len(longer) = Len(result) + 1 /\ DOMAIN longer = 1 .. Len(longer)
      /\ \A i \in 1 .. Len(result) : longer[i] = result[i]
      /\ longer[Len(result) + 1] = e
  BY <1>1
<1>. HIDE DEF longer
<1>8. Len(longer) = Len(entries) + n
  BY <1>2, <1>3, <1>7
<1>9. ASSUME NEW i \in 1 .. Len(entries) PROVE longer[i] = entries[i]
  <2>1. i \in 1 .. Len(result)
    BY <1>2, <1>3
  <2> QED
    BY <1>7, <2>1 DEF Appended
<1>10. ASSUME NEW k \in 1 .. n PROVE longer[Len(entries) + k] = more[k]
  <2>1. CASE k = n
    BY <1>2, <1>3, <1>7, <2>1 DEF e
  <2>2. CASE k # n
    <3>1. k \in 1 .. n - 1 /\ Len(entries) + k \in 1 .. Len(result)
      BY <1>2, <1>3, <2>2
    <3> QED
      BY <1>7, <3>1 DEF Appended
  <2> QED
    BY <2>1, <2>2
<1>11. Appended(entries, more, longer, n)
  BY <1>7, <1>8, <1>9, <1>10 DEF Appended
<1> QED
  BY <1>6, <1>7, <1>11 DEF e

LEMMA SetAllAppends ==
    ASSUME NEW S, NEW entries \in Seq(S), NEW more, AreNew(entries, more),
           \A k \in 1 .. Len(more) : more[k] \in S
    PROVE  SetAll(entries, more) \in Seq(S) /\ Appended(entries, more, SetAll(entries, more), Len(more))
<1>1. Len(more) \in Nat
  BY DEF AreNew
<1>2. PICK f : AllSetSteps(f, entries, more, Len(more)) /\ SetAll(entries, more) = f[Len(more)]
  BY <1>1, SetAllByLoop
<1>3. f[0] = entries /\ \A i \in 1 .. Len(more) : f[i] = SetEntry(f[i - 1], more[i][1], more[i][2])
  BY <1>2 DEF AllSetSteps
<1>. DEFINE Right(n) == InSeq(S, f[n]) /\ Appended(entries, more, f[n], n)
            Wrongs == {n \in 0 .. Len(more) : ~Right(n)}
<1>4. Right(0)
  <2>1. Len(entries) = Len(entries) + 0 /\ DOMAIN entries = 1 .. Len(entries)
    OBVIOUS
  <2> QED
    BY <1>3, <2>1 DEF Appended, InSeq
<1>5. ASSUME NEW n \in 1 .. Len(more), Right(n - 1) PROVE Right(n)
  <2>. DEFINE result == f[n - 1]
              longer == SetEntry(result, more[n][1], more[n][2])
  <2>1. result \in Seq(S) /\ Appended(entries, more, result, n - 1)
    BY <1>5 DEF InSeq
  <2>2. f[n] = longer
    BY <1>3
  <2>. HIDE DEF result
  <2>3. longer \in Seq(S) /\ Appended(entries, more, longer, n)
    BY <2>1, AppendNew
  <2> QED
    BY <2>2, <2>3 DEF InSeq
<1>6. CASE Wrongs # {}
  <2>0. Wrongs \in SUBSET Nat
    OBVIOUS
  <2>. HIDE DEF Wrongs
  <2>1. PICK n \in Wrongs : \A j \in Wrongs : ~ (j < n)
    BY <1>6, <2>0, LeastNat
  <2>. USE DEF Wrongs
  <2>. HIDE DEF Right
  <2>2. n \in 0 .. Len(more) /\ ~Right(n)
    OBVIOUS
  <2>3. n \in 1 .. Len(more) /\ n - 1 \in 0 .. Len(more) /\ n - 1 < n
    BY <1>1, <1>4, <2>2
  <2>4. Right(n - 1)
    BY <2>1, <2>3
  <2> QED
    BY <1>5, <2>2, <2>3, <2>4
<1>7. CASE Wrongs = {}
  <2>1. Len(more) \in 0 .. Len(more)
    BY <1>1
  <2>2. Right(Len(more))
    <3>. HIDE DEF Right
    <3> QED
      BY <1>7, <2>1
  <2> QED
    BY <1>2, <2>2 DEF InSeq
<1> QED
  BY <1>6, <1>7

-----------------------------------------------------------------------------
(* reverse and sort                                                        *)

LEMMA ReverseIs ==
    ASSUME NEW m, IsMapping(m), NEW preserveKeys \in BOOLEAN
    PROVE  /\ Len(reverse(m, preserveKeys)) = Len(m)
           /\ \A k \in 1 .. Len(m) : reverse(m, preserveKeys)[k][2] = m[Len(m) + 1 - k][2]
<1>. DEFINE n == Len(m)
            key(k) == IF preserveKeys THEN m[n + 1 - k][1] ELSE <<"number", k - 1>>
            more == [k \in 1 .. n |-> <<key(k), m[n + 1 - k][2]>>]
<1>1. n \in Nat /\ DOMAIN m = 1 .. n /\ \A j, k \in 1 .. n : m[j][1] = m[k][1] => j = k
  BY DEF IsMapping
<1>2. ASSUME NEW k \in 1 .. n PROVE more[k] = <<key(k), m[n + 1 - k][2]>> /\ more[k] \in Pairs(m)
  <2>1. n + 1 - k \in DOMAIN m /\ k - 1 \in Nat
    BY <1>1
  <2>2. key(k) \in {m[j][1] : j \in DOMAIN m} \cup {<<"number", x>> : x \in Nat}
    BY <2>1
  <2>3. m[n + 1 - k][2] \in {m[j][2] : j \in DOMAIN m}
    BY <2>1
  <2>. HIDE DEF key
  <2> QED
    BY <2>2, <2>3 DEF Pairs
<1>3. ASSUME NEW j \in 1 .. n, NEW k \in 1 .. n, key(j) = key(k) PROVE j = k
  <2>1. CASE preserveKeys
    <3>. DEFINE a == n + 1 - j
                b == n + 1 - k
    <3>1. a \in 1 .. n /\ b \in 1 .. n /\ m[a][1] = m[b][1]
      BY <1>1, <1>3, <2>1
    <3>. HIDE DEF a, b
    <3>2. a = b
      BY <1>1, <3>1
    <3> QED
      BY <1>1, <3>2 DEF a, b
  <2>2. CASE ~preserveKeys
    BY <1>3, <2>2
  <2> QED
    BY <2>1, <2>2
<1>4. more \in Seq(Pairs(m)) /\ Len(more) = n
  <2>. HIDE DEF key
  <2> QED
    BY <1>1, <1>2
<1>5. << >> \in Seq(Pairs(m)) /\ Len(<< >>) = 0
  OBVIOUS
<1>6. AreNew(<< >>, more)
  <2>1. ASSUME NEW j \in 1 .. n, NEW k \in 1 .. n, more[j][1] = more[k][1] PROVE j = k
    <3>1. more[j][1] = key(j) /\ more[k][1] = key(k)
      OBVIOUS
    <3> QED
      BY <1>3, <2>1, <3>1
  <2>2. \A k \in 1 .. n : more[k] = <<more[k][1], more[k][2]>>
    OBVIOUS
  <2>. HIDE DEF more, n
  <2> QED
    BY <1>1, <1>4, <1>5, <2>1, <2>2 DEF AreNew
<1>. DEFINE result == SetAll(<< >>, more)
<1>7. reverse(m, preserveKeys) = result
  BY DEF reverse
<1>8. Appended(<< >>, more, result, Len(more))
  <2>. HIDE DEF more
  <2>1. \A k \in 1 .. Len(more) : more[k] \in Pairs(m)
    BY <1>2, <1>4
  <2> QED
    BY <1>5, <1>6, <2>1, SetAllAppends
<1>9. Len(result) = n /\ \A k \in 1 .. n : result[k] = more[k]
  <2>. HIDE DEF more, result
  <2> QED
    BY <1>1, <1>4, <1>5, <1>8 DEF Appended
<1>. HIDE DEF result
<1>10. \A k \in 1 .. n : more[k][2] = m[n + 1 - k][2]
  OBVIOUS
<1>. HIDE DEF more
<1> QED
  BY <1>7, <1>9, <1>10

(* A map whose values have an order.                                       *)
Ordered(m) == \A k \in DOMAIN m : StringOrder[m[k][2]] \in Int

Order(m, k) == StringOrder[m[k][2]]
Below(m, k) == {j \in DOMAIN m : Precedes(m, j, k)}

(* Where no two values are equal, that makes a strict order of the entries. *)
LEMMA PrecedesIs ==
    ASSUME NEW m, Distinct(m), NEW j \in DOMAIN m, NEW k \in DOMAIN m
    PROVE  Precedes(m, j, k) <=> (Order(m, j) < Order(m, k) \/ (Order(m, j) = Order(m, k) /\ j < k))
<1>1. \A i \in DOMAIN m : m[i][2] = m[k][2] <=> i = k
  BY DEF Distinct
<1>2. (\A i \in DOMAIN m : m[i][2] = m[k][2] => j < i) <=> j < k
  BY <1>1
<1> QED
  BY <1>2 DEF Precedes, Order

LEMMA PrecedesOrders ==
    ASSUME NEW m, IsMapping(m), Ordered(m), Distinct(m)
    PROVE  /\ \A k \in DOMAIN m : ~Precedes(m, k, k)
           /\ \A j, k \in DOMAIN m : Precedes(m, j, k) \/ Precedes(m, k, j) \/ j = k
           /\ \A i, j, k \in DOMAIN m : Precedes(m, i, j) /\ Precedes(m, j, k) => Precedes(m, i, k)
<1>1. DOMAIN m = 1 .. Len(m) /\ Len(m) \in Nat
  BY DEF IsMapping
<1>2. \A k \in DOMAIN m : Order(m, k) \in Int /\ k \in Int
  BY <1>1 DEF Ordered, Order
<1>3. \A j, k \in DOMAIN m :
        Precedes(m, j, k) <=> (Order(m, j) < Order(m, k) \/ (Order(m, j) = Order(m, k) /\ j < k))
  BY PrecedesIs
<1>4. ASSUME NEW k \in DOMAIN m PROVE ~Precedes(m, k, k)
  BY <1>2, <1>3
<1>5. ASSUME NEW j \in DOMAIN m, NEW k \in DOMAIN m PROVE Precedes(m, j, k) \/ Precedes(m, k, j) \/ j = k
  BY <1>2, <1>3
<1>6. ASSUME NEW i \in DOMAIN m, NEW j \in DOMAIN m, NEW k \in DOMAIN m, Precedes(m, i, j), Precedes(m, j, k)
      PROVE  Precedes(m, i, k)
  BY <1>2, <1>3, <1>6
<1> QED
  BY <1>4, <1>5, <1>6

LEMMA BelowIs ==
    ASSUME NEW m, IsMapping(m), Ordered(m), Distinct(m), NEW k \in DOMAIN m
    PROVE  /\ IsFiniteSet(Below(m, k)) /\ Cardinality(Below(m, k)) \in Nat
           /\ Cardinality(Below(m, k)) < Len(m)
<1>. DEFINE D == DOMAIN m
            T == D \ {k}
<1>1. D = 1 .. Len(m) /\ Len(m) \in Nat
  BY DEF IsMapping
<1>2. IsFiniteSet(D) /\ Cardinality(D) = Len(m)
  <2>. DEFINE n == Len(m)
  <2>1. n \in Nat /\ 1 \in Int /\ n \in Int
    BY <1>1
  <2>. HIDE DEF n
  <2>2. IsFiniteSet(1 .. n) /\ Cardinality(1 .. n) = IF 1 > n THEN 0 ELSE n - 1 + 1
    BY <2>1, FS_Interval
  <2>3. Cardinality(1 .. n) = n
    BY <2>1, <2>2
  <2> QED
    BY <1>1, <2>2, <2>3 DEF n
<1>3. k \in D
  OBVIOUS
<1>. HIDE DEF D
<1>4. IsFiniteSet(T) /\ Cardinality(T) = Len(m) - 1
  BY <1>2, <1>3, FS_RemoveElement
<1>5. Below(m, k) \in SUBSET T
  BY PrecedesOrders DEF Below, D
<1>. HIDE DEF T
<1>6. IsFiniteSet(Below(m, k)) /\ Cardinality(Below(m, k)) <= Cardinality(T)
  BY <1>4, <1>5, FS_Subset
<1>7. Cardinality(Below(m, k)) \in Nat
  BY <1>6, FS_CardinalityType
<1> QED
  BY <1>1, <1>4, <1>6, <1>7

(* Of two values the one that comes first has the smaller index.           *)
LEMMA BelowGrows ==
    ASSUME NEW m, IsMapping(m), Ordered(m), Distinct(m),
           NEW j \in DOMAIN m, NEW k \in DOMAIN m, Precedes(m, j, k)
    PROVE  Cardinality(Below(m, j)) < Cardinality(Below(m, k))
<1>. DEFINE B == Below(m, j)
            C == Below(m, k)
<1>1. B \in SUBSET C
  BY PrecedesOrders DEF Below
<1>2. j \in C /\ j \notin B
  BY PrecedesOrders DEF Below
<1>3. IsFiniteSet(C) /\ Cardinality(B) \in Nat /\ Cardinality(C) \in Nat
  BY BelowIs
<1>. HIDE DEF B, C
<1>4. Cardinality(B) <= Cardinality(C) /\ (Cardinality(C) = Cardinality(B) => C = B)
  BY <1>1, <1>3, FS_Subset
<1>5. Cardinality(C) # Cardinality(B)
  BY <1>2, <1>4
<1>6. Cardinality(B) < Cardinality(C)
  BY <1>3, <1>4, <1>5
<1> QED
  BY <1>6 DEF B, C

(* Where no two values are equal, the indices are the places of a map.     *)
LEMMA IndicesAre ==
    ASSUME NEW m, IsMapping(m), Ordered(m), Distinct(m)
    PROVE  /\ \A k \in DOMAIN m : IndexOf(m, k) \in DOMAIN m
           /\ \A j, k \in DOMAIN m : Precedes(m, j, k) => IndexOf(m, j) < IndexOf(m, k)
           /\ \A j, k \in DOMAIN m : IndexOf(m, j) = IndexOf(m, k) => j = k
           /\ \A p \in DOMAIN m : \E k \in DOMAIN m : FoundAt(m, p) = {k}
           /\ LastFound(m) = Len(m)
<1>. DEFINE D == DOMAIN m
            f == [k \in D |-> IndexOf(m, k)]
<1>1. D = 1 .. Len(m) /\ Len(m) \in Nat
  BY DEF IsMapping
<1>2. \A k \in D : IndexOf(m, k) = 1 + Cardinality(Below(m, k))
  BY DEF IndexOf, Below
<1>3. ASSUME NEW k \in D PROVE IndexOf(m, k) \in D
  <2>1. Cardinality(Below(m, k)) \in Nat /\ Cardinality(Below(m, k)) < Len(m)
    BY BelowIs
  <2> QED
    BY <1>1, <1>2, <2>1
<1>4. ASSUME NEW j \in D, NEW k \in D, Precedes(m, j, k) PROVE IndexOf(m, j) < IndexOf(m, k)
  <2>1. Cardinality(Below(m, j)) \in Nat /\ Cardinality(Below(m, k)) \in Nat
    BY BelowIs
  <2>2. Cardinality(Below(m, j)) < Cardinality(Below(m, k))
    BY <1>4, BelowGrows
  <2> QED
    BY <1>2, <2>1, <2>2
<1>5. ASSUME NEW j \in D, NEW k \in D, IndexOf(m, j) = IndexOf(m, k) PROVE j = k
  <2>1. IndexOf(m, j) \in Int /\ IndexOf(m, k) \in Int
    BY <1>1, <1>3
  <2>2. ~Precedes(m, j, k) /\ ~Precedes(m, k, j)
    BY <1>4, <1>5, <2>1
  <2> QED
    BY <2>2, PrecedesOrders
<1>6. IsFiniteSet(D)
  <2>. DEFINE n == Len(m)
  <2>1. 1 \in Int /\ n \in Int
    BY <1>1
  <2>. HIDE DEF n
  <2>2. IsFiniteSet(1 .. n)
    BY <2>1, FS_Interval
  <2> QED
    BY <1>1, <2>2 DEF n
<1>7. f \in Injection(D, D)
  <2>1. f \in [D -> D]
    BY <1>3
  <2>2. \A j, k \in D : f[j] = f[k] => j = k
    BY <1>5
  <2>. HIDE DEF f, D
  <2> QED
    BY <2>1, <2>2, Fun_IsInj
<1>8. f \in Surjection(D, D)
  <2>. HIDE DEF f, D
  <2> QED
    BY <1>6, <1>7, FS_Injection
<1>9. ASSUME NEW p \in D PROVE \E k \in D : FoundAt(m, p) = {k}
  <2>1. PICK k \in D : f[k] = p
    BY <1>8 DEF Surjection
  <2>2. IndexOf(m, k) = p
    BY <2>1
  <2>3. \A j \in D : IndexOf(m, j) = p => j = k
    BY <1>5, <2>2
  <2> QED
    BY <2>2, <2>3 DEF FoundAt
<1>10. LastFound(m) = Len(m)
  <2>. DEFINE places == {IndexOf(m, k) : k \in D}
  <2>1. places = D
    <3>1. ASSUME NEW p \in D PROVE \E k \in D : IndexOf(m, k) = p
      BY <1>9 DEF FoundAt
    <3> QED
      BY <1>3, <3>1
  <2>. HIDE DEF places
  <2>2. GreatestOr(places, 0) = Len(m)
    <3>1. CASE places = {}
      <4>1. Len(m) = 0
        BY <1>1, <2>1, <3>1
      <4> QED
        BY <3>1, <4>1 DEF GreatestOr
    <3>2. CASE places # {}
      <4>1. Len(m) \in places /\ \A p \in places : p \in Int /\ p <= Len(m)
        BY <1>1, <2>1, <3>2
      <4>2. \A x \in places : (\A y \in places : x >= y) <=> x = Len(m)
        BY <4>1
      <4> QED
        BY <3>2, <4>1, <4>2 DEF GreatestOr
    <3> QED
      BY <3>1, <3>2
  <2> QED
    BY <2>2 DEF LastFound, places
<1> QED
  BY <1>3, <1>4, <1>5, <1>9, <1>10

SortedBy(m, result) ==
    /\ {result[k] : k \in DOMAIN result} = {m[k] : k \in DOMAIN m}
    /\ \A j, k \in DOMAIN result : j < k => StringOrder[result[j][2]] <= StringOrder[result[k][2]]

LEMMA SortIs ==
    ASSUME NEW m, IsMapping(m), Ordered(m), Distinct(m)
    PROVE  SortedBy(m, asort(m))
<1>. DEFINE D == DOMAIN m
            S == {m[k] : k \in D}
            at == [p \in D |-> CHOOSE k \in D : FoundAt(m, p) = {k}]
            keys == [p \in D |-> IF FoundAt(m, p) = {} THEN Undefined ELSE m[GreatestOr(FoundAt(m, p), 0)][1]]
            more == [p \in D |-> <<keys[p], ValueAt(m, keys[p])>>]
            result == SetAll(<< >>, more)
<1>1. D = 1 .. Len(m) /\ Len(m) \in Nat
  BY DEF IsMapping
<1>2. /\ \A k \in D : m[k] = <<m[k][1], m[k][2]>>
      /\ \A j, k \in D : m[j][1] = m[k][1] => j = k
  BY DEF IsMapping
<1>3. ASSUME NEW p \in D
      PROVE  at[p] \in D /\ FoundAt(m, p) = {at[p]} /\ IndexOf(m, at[p]) = p
  <2>1. \E k \in D : FoundAt(m, p) = {k}
    BY IndicesAre
  <2>2. at[p] \in D /\ FoundAt(m, p) = {at[p]}
    BY <2>1
  <2>3. at[p] \in FoundAt(m, p)
    BY <2>2
  <2> QED
    BY <2>2, <2>3 DEF FoundAt
<1>4. ASSUME NEW p \in D PROVE more[p] = m[at[p]]
  <2>. DEFINE k == at[p]
  <2>1. k \in D /\ FoundAt(m, p) = {k} /\ k \in Int
    BY <1>1, <1>3
  <2>. HIDE DEF k, at
  <2>2. GreatestOr(FoundAt(m, p), 0) = k
    BY <2>1 DEF GreatestOr
  <2>3. keys[p] = m[k][1]
    BY <2>1, <2>2
  <2>. DEFINE key == keys[p]
  <2>4. HasKey(m, key)
    BY <2>1, <2>3 DEF HasKey
  <2>5. \A j \in D : m[j][1] = key <=> j = k
    BY <1>2, <2>1, <2>3
  <2>. HIDE DEF key
  <2>6. (CHOOSE j \in DOMAIN m : m[j][1] = key) = k
    BY <2>1, <2>5
  <2>7. ValueAt(m, key) = m[k][2]
    BY <2>4, <2>6 DEF ValueAt
  <2>. HIDE DEF keys
  <2>8. more[p] = <<m[k][1], m[k][2]>>
    BY <2>3, <2>7 DEF key
  <2> QED
    BY <1>2, <2>1, <2>8 DEF k
<1>5. \A j, k \in D : at[j] = at[k] => j = k
  BY <1>3
<1>6. ASSUME NEW k \in D PROVE \E p \in D : at[p] = k
  <2>. DEFINE p == IndexOf(m, k)
  <2>1. p \in D
    BY IndicesAre
  <2>2. k \in FoundAt(m, p)
    BY DEF FoundAt
  <2>. HIDE DEF p
  <2>3. FoundAt(m, p) = {at[p]}
    BY <1>3, <2>1
  <2> QED
    BY <2>1, <2>2, <2>3
<1>. HIDE DEF at
<1>7. DOMAIN more = D
  OBVIOUS
<1>. HIDE DEF more
<1>8. Len(more) = Len(m) /\ more \in Seq(S)
  <2>1. \A p \in D : more[p] \in S
    BY <1>3, <1>4
  <2>2. more = [p \in D |-> more[p]]
    BY DEF more
  <2>3. more \in [D -> S]
    BY <2>1, <2>2
  <2> QED
    BY <1>1, <2>3
<1>9. << >> \in Seq(S) /\ Len(<< >>) = 0
  OBVIOUS
<1>10. AreNew(<< >>, more)
  <2>1. ASSUME NEW k \in 1 .. Len(more) PROVE more[k] = <<more[k][1], more[k][2]>>
    <3>1. k \in D /\ at[k] \in D
      BY <1>1, <1>3, <1>8
    <3> QED
      BY <1>2, <1>4, <3>1
  <2>2. ASSUME NEW j \in 1 .. Len(more), NEW k \in 1 .. Len(more), more[j][1] = more[k][1] PROVE j = k
    <3>1. j \in D /\ k \in D /\ at[j] \in D /\ at[k] \in D
      BY <1>1, <1>3, <1>8
    <3>2. m[at[j]][1] = m[at[k]][1]
      BY <1>4, <2>2, <3>1
    <3>3. at[j] = at[k]
      BY <1>2, <3>1, <3>2
    <3> QED
      BY <1>5, <3>1, <3>3
  <2> QED
    BY <1>1, <1>8, <1>9, <2>1, <2>2 DEF AreNew
<1>11. Appended(<< >>, more, result, Len(more))
  <2>1. \A k \in 1 .. Len(more) : more[k] \in S
    BY <1>8
  <2>. HIDE DEF S
  <2> QED
    BY <1>9, <1>10, <2>1, SetAllAppends
<1>. HIDE DEF result
<1>12. DOMAIN result = D /\ \A p \in D : result[p] = m[at[p]]
  <2>1. DOMAIN result = 1 .. Len(m)
    BY <1>1, <1>8, <1>9, <1>11 DEF Appended
  <2>2. \A p \in 1 .. Len(m) : result[p] = more[p]
    BY <1>1, <1>8, <1>9, <1>11 DEF Appended
  <2> QED
    BY <1>1, <1>4, <2>1, <2>2
<1>13. asort(m) = result
  <2>1. 1 .. LastFound(m) = D
    BY <1>1, IndicesAre
  <2> QED
    BY <2>1 DEF asort, result, more
<1>14. {result[k] : k \in DOMAIN result} = {m[k] : k \in DOMAIN m}
  BY <1>3, <1>6, <1>12
<1>15. ASSUME NEW j \in DOMAIN result, NEW k \in DOMAIN result, j < k
       PROVE  StringOrder[result[j][2]] <= StringOrder[result[k][2]]
  <2>1. j \in D /\ k \in D /\ at[j] \in D /\ at[k] \in D /\ j \in Int /\ k \in Int
    BY <1>1, <1>3, <1>12
  <2>2. IndexOf(m, at[j]) = j /\ IndexOf(m, at[k]) = k
    BY <1>3, <2>1
  <2>3. ~Precedes(m, at[k], at[j])
    <3>1. Precedes(m, at[k], at[j]) => IndexOf(m, at[k]) < IndexOf(m, at[j])
      BY <2>1, IndicesAre
    <3> QED
      BY <1>15, <2>1, <2>2, <3>1
  <2>4. Order(m, at[j]) \in Int /\ Order(m, at[k]) \in Int
    BY <2>1 DEF Ordered, Order
  <2>5. ~(Order(m, at[k]) < Order(m, at[j]))
    BY <2>1, <2>3, PrecedesIs
  <2>6. Order(m, at[j]) <= Order(m, at[k])
    BY <2>4, <2>5
  <2> QED
    BY <1>12, <2>1, <2>6 DEF Order
<1> QED
  BY <1>13, <1>14, <1>15 DEF SortedBy

-----------------------------------------------------------------------------
(* batch. The place in a map of what is before a chunk.                    *)
Base(w, c) == (c - 1) * w

LEMMA BaseIs ==
    ASSUME NEW w \in Nat, NEW c \in Nat \ {0}
    PROVE  Base(w, c) \in Nat /\ Base(w, 1) = 0 /\ Base(w, c + 1) = Base(w, c) + w
<1>. DEFINE p == c - 1
<1>1. p \in Nat
  OBVIOUS
<1>2. p * w \in Nat /\ (p + 1) * w = p * w + w /\ 0 * w = 0
  <2>. HIDE DEF p
  <2> QED
    BY <1>1
<1>3. Base(w, c) = p * w
  BY DEF Base
<1>4. Base(w, c + 1) = (p + 1) * w
  <2>1. c + 1 - 1 = p + 1
    OBVIOUS
  <2>. HIDE DEF p
  <2> QED
    BY <2>1 DEF Base
<1>5. Base(w, 1) = 0 * w
  BY DEF Base
<1> QED
  BY <1>2, <1>3, <1>4, <1>5

(* An entry that is set under a key that is not there.                     *)
HasGrown(S, result, longer, e) ==
    /\ longer \in Seq(S) /\ Len(longer) = Len(result) + 1
    /\ \A i \in 1 .. Len(result) : longer[i] = result[i]
    /\ longer[Len(result) + 1] = e

LEMMA SetNew ==
    ASSUME NEW S, NEW result \in Seq(S), NEW key, NEW value, <<key, value>> \in S,
           \A i \in 1 .. Len(result) : result[i][1] # key
    PROVE  HasGrown(S, result, SetEntry(result, key, value), <<key, value>>)
<1>. DEFINE e == <<key, value>>
            longer == Append(result, e)
<1>1. DOMAIN result = 1 .. Len(result)
  OBVIOUS
<1>2. ~HasKey(result, key)
  BY <1>1 DEF HasKey
<1>3. SetEntry(result, key, value) = longer
  BY <1>2 DEF SetEntry
<1>4. e \in S
  OBVIOUS
<1>. HIDE DEF e
<1>5. /\ longer \in Seq(S) /\ Len(longer) = Len(result) + 1
      /\ \A i \in 1 .. Len(result) : longer[i] = result[i]
      /\ longer[Len(result) + 1] = e
  BY <1>4
<1> QED
  BY <1>3, <1>5 DEF e, HasGrown

(* What is at a place of a chunk.                                          *)
ItemOf(m, w, preserveKeys, c, i) ==
    <<IF preserveKeys THEN m[Base(w, c) + i][1] ELSE <<"number", i - 1>>, m[Base(w, c) + i][2]>>

ItemsOf(m, w, preserveKeys, chunk_, c, n) ==
    \A i \in 1 .. Len(chunk_) : Base(w, c) + i \in 1 .. n /\ chunk_[i] = ItemOf(m, w, preserveKeys, c, i)

IsIn(w, chunks, k) == \E c \in 1 .. Len(chunks) : \E i \in 1 .. Len(chunks[c]) : Base(w, c) + i = k

ChunksOf(m, w, preserveKeys, chunks, n) ==
    /\ chunks \in Seq(Seq(Pairs(m)))
    /\ \A c \in 1 .. Len(chunks) : ItemsOf(m, w, preserveKeys, chunks[c], c, n)
    /\ \A k \in 1 .. n : IsIn(w, chunks, k)

(* The last chunk has count items, the ones before it are full.            *)
FilledTo(w, chunks, count, n) ==
    /\ Len(chunks) >= 1
    /\ Len(chunks[Len(chunks)]) = count
    /\ n = Base(w, Len(chunks)) + count
    /\ \A c \in 1 .. Len(chunks) : c # Len(chunks) => Len(chunks[c]) = w

ChunkedTo(m, w, preserveKeys, s, n) ==
    /\ ChunksOf(m, w, preserveKeys, s.chunks, n)
    /\ s.open \in BOOLEAN
    /\ s.open => s.count \in 1 .. w - 1 /\ FilledTo(w, s.chunks, s.count, n)
    /\ ~s.open => s.count = 0 /\ ((n = 0 /\ s.chunks = << >>) \/ FilledTo(w, s.chunks, w, n))

(* The chunks with one that is open.                                       *)
LEMMA NewChunk ==
    ASSUME NEW m, NEW w \in Nat \ {0}, NEW preserveKeys \in BOOLEAN, NEW n \in Nat,
           NEW chunks, ChunksOf(m, w, preserveKeys, chunks, n),
           (n = 0 /\ chunks = << >>) \/ FilledTo(w, chunks, w, n)
    PROVE  ChunksOf(m, w, preserveKeys, Append(chunks, << >>), n) /\ FilledTo(w, Append(chunks, << >>), 0, n)
<1>. DEFINE Q == Seq(Pairs(m))
            none == << >>
            longer == Append(chunks, none)
            l == Len(chunks)
<1>1. chunks \in Seq(Q) /\ none \in Q /\ Len(none) = 0
  BY DEF ChunksOf
<1>. HIDE DEF Q, none
<1>2. /\ longer \in Seq(Q) /\ Len(longer) = l + 1 /\ l \in Nat
      /\ \A c \in 1 .. l : longer[c] = chunks[c]
      /\ longer[l + 1] = none
  BY <1>1
<1>. HIDE DEF longer
<1>3. ASSUME NEW c \in 1 .. Len(longer) PROVE ItemsOf(m, w, preserveKeys, longer[c], c, n)
  <2>1. CASE c \in 1 .. l
    BY <1>2, <2>1 DEF ChunksOf
  <2>2. CASE c = l + 1
    <3>1. Len(longer[c]) = 0
      BY <1>1, <1>2, <2>2
    <3> QED
      BY <3>1 DEF ItemsOf
  <2> QED
    BY <1>2, <2>1, <2>2
<1>4. ASSUME NEW k \in 1 .. n PROVE IsIn(w, longer, k)
  <2>1. PICK c \in 1 .. l : \E i \in 1 .. Len(chunks[c]) : Base(w, c) + i = k
    BY DEF ChunksOf, IsIn
  <2>2. c \in 1 .. Len(longer) /\ longer[c] = chunks[c]
    BY <1>2
  <2> QED
    BY <2>1, <2>2 DEF IsIn
<1>5. ChunksOf(m, w, preserveKeys, longer, n)
  BY <1>2, <1>3, <1>4 DEF ChunksOf, Q
<1>6. n = Base(w, l + 1)
  <2>1. CASE n = 0 /\ chunks = << >>
    <3>1. l = 0
      BY <2>1
    <3>2. l + 1 = 1 /\ 1 \in Nat \ {0}
      BY <3>1
    <3>3. Base(w, 1) = 0
      BY <3>2, BaseIs
    <3>. HIDE DEF l
    <3> QED
      BY <2>1, <3>2, <3>3
  <2>2. CASE FilledTo(w, chunks, w, n)
    <3>1. l \in Nat \ {0} /\ n = Base(w, l) + w
      BY <1>2, <2>2 DEF FilledTo
    <3>. HIDE DEF l
    <3>2. Base(w, l + 1) = Base(w, l) + w
      BY <3>1, BaseIs
    <3> QED
      BY <3>1, <3>2
  <2> QED
    BY <2>1, <2>2
<1>7. \A c \in 1 .. l : Len(longer[c]) = w
  <2>1. CASE n = 0 /\ chunks = << >>
    BY <2>1
  <2>2. CASE FilledTo(w, chunks, w, n)
    BY <1>2, <2>2 DEF FilledTo
  <2> QED
    BY <2>1, <2>2
<1>8. FilledTo(w, longer, 0, n)
  <2>1. Len(longer) >= 1 /\ Len(longer[Len(longer)]) = 0
    BY <1>1, <1>2
  <2>2. n = Base(w, Len(longer)) + 0
    <3>1. Base(w, Len(longer)) = n
      BY <1>2, <1>6
    <3> QED
      BY <3>1
  <2>3. \A c \in 1 .. Len(longer) : c # Len(longer) => Len(longer[c]) = w
    BY <1>2, <1>7
  <2> QED
    BY <2>1, <2>2, <2>3 DEF FilledTo
<1> QED
  BY <1>5, <1>8 DEF longer, none

(* An item is put in the chunk that is open.                               *)
LEMMA PutItem ==
    ASSUME NEW m, IsMapping(m), NEW w \in Nat \ {0}, NEW preserveKeys \in BOOLEAN, NEW n \in 1 .. Len(m),
           NEW chunks, NEW count \in 0 .. w - 1, ChunksOf(m, w, preserveKeys, chunks, n - 1),
           FilledTo(w, chunks, count, n - 1),
           NEW key, key = IF preserveKeys THEN m[n][1] ELSE <<"number", count>>
    PROVE  LET fuller == [chunks EXCEPT ![Len(chunks)] = SetEntry(@, key, m[n][2])]
           IN  ChunksOf(m, w, preserveKeys, fuller, n) /\ FilledTo(w, fuller, count + 1, n)
<1>. DEFINE P == Pairs(m)
            Q == Seq(P)
            l == Len(chunks)
            b == Base(w, l)
            last == chunks[l]
            value == m[n][2]
            longer == SetEntry(last, key, value)
            fuller == [chunks EXCEPT ![l] = longer]
<1>1. chunks \in Seq(Q) /\ l \in 1 .. l /\ l \in Nat \ {0}
  BY DEF ChunksOf, FilledTo
<1>2. b \in Nat
  <2>. HIDE DEF l
  <2> QED
    BY <1>1, BaseIs
<1>3. last \in Q /\ Len(last) = count
  BY <1>1 DEF FilledTo
<1>4. b + count = n - 1 /\ b + (count + 1) = n
  <2>1. n - 1 = b + count
    BY DEF FilledTo
  <2>. HIDE DEF b
  <2> QED
    BY <1>2, <2>1
<1>5. n \in DOMAIN m /\ DOMAIN m = 1 .. Len(m) /\ Len(m) \in Nat
  BY DEF IsMapping
<1>6. <<key, value>> \in P
  <2>1. key \in {m[k][1] : k \in DOMAIN m} \cup {<<"number", x>> : x \in Nat}
    <3>1. count \in Nat
      OBVIOUS
    <3> QED
      BY <1>5, <3>1
  <2>2. value \in {m[k][2] : k \in DOMAIN m}
    BY <1>5
  <2>. HIDE DEF value
  <2> QED
    BY <2>1, <2>2 DEF Pairs
<1>7. ItemsOf(m, w, preserveKeys, last, l, n - 1)
  BY <1>1 DEF ChunksOf
<1>8. ASSUME NEW i \in 1 .. Len(last) PROVE last[i][1] # key
  <2>1. b + i \in 1 .. n - 1 /\ last[i] = ItemOf(m, w, preserveKeys, l, i)
    BY <1>7 DEF ItemsOf
  <2>. HIDE DEF b
  <2>2. last[i][1] = IF preserveKeys THEN m[b + i][1] ELSE <<"number", i - 1>>
    BY <2>1 DEF ItemOf, b
  <2>3. CASE preserveKeys
    <3>. DEFINE j == b + i
    <3>1. j \in DOMAIN m /\ j # n
      BY <1>5, <2>1
    <3>. HIDE DEF j
    <3>2. m[j][1] # m[n][1]
      BY <1>5, <3>1 DEF IsMapping
    <3> QED
      BY <2>2, <2>3, <3>2 DEF j
  <2>4. CASE ~preserveKeys
    <3>1. i - 1 # count
      BY <1>3
    <3>2. <<"number", i - 1>> # <<"number", count>>
      BY <3>1
    <3> QED
      BY <2>2, <2>4, <3>2
  <2> QED
    BY <2>3, <2>4
<1>. HIDE DEF P
<1>9. /\ longer \in Q /\ Len(longer) = count + 1
      /\ \A i \in 1 .. count : longer[i] = last[i]
      /\ longer[count + 1] = <<key, value>>
  <2>1. HasGrown(P, last, longer, <<key, value>>)
    <3>. HIDE DEF last, value
    <3> QED
      BY <1>3, <1>6, <1>8, SetNew
  <2>. HIDE DEF longer
  <2> QED
    BY <1>3, <2>1 DEF HasGrown
<1>. HIDE DEF longer, Q
<1>10. /\ fuller \in Seq(Q) /\ Len(fuller) = l /\ fuller[l] = longer
       /\ \A c \in 1 .. l : c # l => fuller[c] = chunks[c]
  <2>1. DOMAIN chunks = 1 .. l /\ DOMAIN fuller = 1 .. l
    BY <1>1
  <2>2. \A c \in 1 .. l : fuller[c] \in Q
    BY <1>1, <1>9
  <2>3. fuller = [c \in 1 .. l |-> fuller[c]]
    BY <2>1
  <2>. HIDE DEF fuller
  <2>4. fuller \in Seq(Q) /\ Len(fuller) = l
    BY <1>1, <2>2, <2>3
  <2>. USE DEF fuller
  <2> QED
    BY <1>1, <2>4
<1>. HIDE DEF fuller
<1>11. \A c \in 1 .. l : \A i \in 1 .. Len(chunks[c]) : i \in 1 .. Len(fuller[c]) /\ fuller[c][i] = chunks[c][i]
  <2>. SUFFICES ASSUME NEW c \in 1 .. l, NEW i \in 1 .. Len(chunks[c])
                PROVE  i \in 1 .. Len(fuller[c]) /\ fuller[c][i] = chunks[c][i]
    OBVIOUS
  <2>1. CASE c = l
    BY <1>3, <1>9, <1>10, <2>1
  <2>2. CASE c # l
    BY <1>10, <2>2
  <2> QED
    BY <2>1, <2>2
<1>12. ASSUME NEW c \in 1 .. Len(fuller) PROVE ItemsOf(m, w, preserveKeys, fuller[c], c, n)
  <2>0. c \in 1 .. l
    BY <1>10
  <2>1. ItemsOf(m, w, preserveKeys, chunks[c], c, n - 1)
    BY <2>0 DEF ChunksOf
  <2>2. CASE c # l
    <3>1. fuller[c] = chunks[c]
      BY <1>10, <2>0, <2>2
    <3>2. \A k \in 1 .. n - 1 : k \in 1 .. n
      OBVIOUS
    <3> QED
      BY <2>1, <3>1, <3>2 DEF ItemsOf
  <2>3. CASE c = l
    <3>1. ASSUME NEW i \in 1 .. Len(longer)
          PROVE  Base(w, c) + i \in 1 .. n /\ longer[i] = ItemOf(m, w, preserveKeys, c, i)
      <4>1. CASE i \in 1 .. count
        <5>1. Base(w, c) + i \in 1 .. n - 1 /\ last[i] = ItemOf(m, w, preserveKeys, c, i)
          BY <1>3, <1>7, <2>3, <4>1 DEF ItemsOf
        <5> QED
          BY SMTT(30), <1>9, <4>1, <5>1
      <4>2. CASE i = count + 1
        <5>1. Base(w, c) + i = n
          BY <1>4, <2>3, <4>2
        <5>2. ItemOf(m, w, preserveKeys, c, i) = <<key, value>>
          <6>1. i - 1 = count
            BY <4>2
          <6> QED
            BY <5>1, <6>1 DEF ItemOf
        <5>3. longer[i] = <<key, value>>
          BY <1>9, <4>2
        <5>4. n \in 1 .. n
          OBVIOUS
        <5> QED
          BY <5>1, <5>2, <5>3, <5>4
      <4> QED
        BY <1>9, <4>1, <4>2
    <3> QED
      BY <1>10, <2>3, <3>1 DEF ItemsOf
  <2> QED
    BY <2>2, <2>3
<1>13. ASSUME NEW k \in 1 .. n PROVE IsIn(w, fuller, k)
  <2>1. CASE k = n
    <3>1. l \in 1 .. Len(fuller) /\ count + 1 \in 1 .. Len(fuller[l]) /\ Base(w, l) + (count + 1) = n
      BY <1>1, <1>4, <1>9, <1>10
    <3> QED
      BY <2>1, <3>1 DEF IsIn
  <2>2. CASE k # n
    <3>1. k \in 1 .. n - 1
      BY <2>2
    <3>2. PICK c \in 1 .. l : \E i \in 1 .. Len(chunks[c]) : Base(w, c) + i = k
      BY <3>1 DEF ChunksOf, IsIn
    <3> QED
      BY <1>10, <1>11, <3>2 DEF IsIn
  <2> QED
    BY <2>1, <2>2
<1>14. ChunksOf(m, w, preserveKeys, fuller, n)
  BY <1>10, <1>12, <1>13 DEF ChunksOf, Q, P
<1>15. FilledTo(w, fuller, count + 1, n)
  <2>1. \A c \in 1 .. l : c # l => Len(fuller[c]) = w
    BY <1>10 DEF FilledTo
  <2>2. n = Base(w, Len(fuller)) + (count + 1)
    BY <1>4, <1>10
  <2>. HIDE DEF b
  <2> QED
    BY <1>1, <1>9, <1>10, <2>1, <2>2 DEF FilledTo
<1> QED
  BY <1>14, <1>15 DEF fuller, longer

WidthOf(size) == IF size < 1 THEN 1 ELSE size

StateOf(chunks, count, open) == [chunks |-> chunks, count |-> count, open |-> open]

LEMMA StateIs ==
    ASSUME NEW chunks, NEW count, NEW open
    PROVE  /\ StateOf(chunks, count, open).chunks = chunks
           /\ StateOf(chunks, count, open).count = count
           /\ StateOf(chunks, count, open).open = open
BY DEF StateOf

(* One turn of the loop.                                                   *)
LEMMA ChunkStep ==
    ASSUME NEW m, IsMapping(m), NEW size \in Int, NEW preserveKeys \in BOOLEAN, NEW n \in 1 .. Len(m),
           NEW s, ChunkedTo(m, WidthOf(size), preserveKeys, s, n - 1)
    PROVE  ChunkedTo(m, WidthOf(size), preserveKeys, PutInChunk(s, m[n], size, preserveKeys), n)
<1>. DEFINE w == WidthOf(size)
            before == n - 1
            chunks == IF s.open THEN s.chunks ELSE Append(s.chunks, << >>)
            count == s.count
            key == IF preserveKeys THEN m[n][1] ELSE <<"number", count>>
            fuller == [chunks EXCEPT ![Len(chunks)] = SetEntry(@, key, m[n][2])]
            full == count + 1 >= size
            t == StateOf(fuller, IF full THEN 0 ELSE count + 1, ~full)
<1>1. w \in Nat \ {0} /\ before \in Nat
  BY DEF WidthOf, IsMapping
<1>2. count \in 0 .. w - 1 /\ ChunksOf(m, w, preserveKeys, chunks, before) /\ FilledTo(w, chunks, count, before)
  <2>1. CASE s.open
    <3>1. count \in 1 .. w - 1 /\ FilledTo(w, s.chunks, count, before) /\ ChunksOf(m, w, preserveKeys, s.chunks, before)
      BY <2>1 DEF ChunkedTo
    <3>2. chunks = s.chunks /\ count \in 0 .. w - 1
      BY <2>1, <3>1
    <3>. HIDE DEF chunks
    <3> QED
      BY <3>1, <3>2
  <2>2. CASE ~s.open
    <3>1. /\ count = 0 /\ ((before = 0 /\ s.chunks = << >>) \/ FilledTo(w, s.chunks, w, before))
          /\ ChunksOf(m, w, preserveKeys, s.chunks, before)
      BY <2>2 DEF ChunkedTo
    <3>. DEFINE old == s.chunks
    <3>. HIDE DEF w, before, old
    <3>2. ChunksOf(m, w, preserveKeys, Append(old, << >>), before) /\ FilledTo(w, Append(old, << >>), 0, before)
      BY <1>1, <3>1, NewChunk DEF old
    <3>3. chunks = Append(old, << >>)
      BY <2>2 DEF old
    <3>4. 0 \in 0 .. w - 1
      BY <1>1
    <3>. HIDE DEF chunks
    <3> QED
      BY <3>1, <3>2, <3>3, <3>4
  <2> QED
    BY <2>1, <2>2
<1>3. PutInChunk(s, m[n], size, preserveKeys) = t
  BY DEF PutInChunk, StateOf
<1>4. ChunksOf(m, w, preserveKeys, fuller, n) /\ FilledTo(w, fuller, count + 1, n)
  <2>. DEFINE k == key
  <2>1. k = IF preserveKeys THEN m[n][1] ELSE <<"number", count>>
    OBVIOUS
  <2>. HIDE DEF w, chunks, count, k
  <2>2. LET f == [chunks EXCEPT ![Len(chunks)] = SetEntry(@, k, m[n][2])]
        IN  ChunksOf(m, w, preserveKeys, f, n) /\ FilledTo(w, f, count + 1, n)
    BY <1>1, <1>2, <2>1, PutItem
  <2> QED
    BY <2>2 DEF k
<1>5. t.chunks = fuller /\ t.count = (IF full THEN 0 ELSE count + 1) /\ t.open = ~full
  <2>. HIDE DEF fuller, full
  <2> QED
    BY StateIs
<1>6. full => count + 1 = w
  BY <1>2 DEF WidthOf
<1>7. ~full => count + 1 \in 1 .. w - 1
  BY <1>2 DEF WidthOf
<1>8. full \in BOOLEAN
  OBVIOUS
<1>. HIDE DEF w, count, fuller, full, t
<1>9. full => FilledTo(w, fuller, w, n)
  BY <1>4, <1>6
<1>10. ChunkedTo(m, w, preserveKeys, t, n)
  BY <1>4, <1>5, <1>7, <1>8, <1>9 DEF ChunkedTo
<1> QED
  BY <1>3, <1>10 DEF w

NoChunks == [chunks |-> << >>, count |-> 0, open |-> FALSE]

Chunked(f, m, size, preserveKeys, n) ==
    f = [i \in 0 .. n |-> IF i = 0 THEN NoChunks ELSE PutInChunk(f[i - 1], m[i], size, preserveKeys)]

ChunkSteps(f, m, size, preserveKeys, n) ==
    /\ f[0] = NoChunks
    /\ \A i \in 1 .. n : f[i] = PutInChunk(f[i - 1], m[i], size, preserveKeys)

LEMMA ChunkedAt ==
    ASSUME NEW m, NEW size, NEW preserveKeys, NEW n \in Nat, NEW f, Chunked(f, m, size, preserveKeys, n)
    PROVE  ChunkSteps(f, m, size, preserveKeys, n)
<1>1. f[0] = NoChunks
  BY DEF Chunked
<1>2. ASSUME NEW i \in 1 .. n PROVE f[i] = PutInChunk(f[i - 1], m[i], size, preserveKeys)
  <2>1. i \in 0 .. n /\ i # 0
    OBVIOUS
  <2> QED
    BY <2>1 DEF Chunked
<1> QED
  BY <1>1, <1>2 DEF ChunkSteps

LEMMA ChunkedExists ==
    ASSUME NEW m, NEW size, NEW preserveKeys, NEW n \in Nat
    PROVE  \E f : Chunked(f, m, size, preserveKeys, n)
<1>. DEFINE Lacking == {k \in 0 .. n : ~ \E f : Chunked(f, m, size, preserveKeys, k)}
<1>1. CASE Lacking # {}
  <2>0. Lacking \in SUBSET Nat
    OBVIOUS
  <2>. HIDE DEF Lacking
  <2>1. PICK k \in Lacking : \A j \in Lacking : ~ (j < k)
    BY <1>1, <2>0, LeastNat
  <2>. USE DEF Lacking
  <2>2. k \in 0 .. n /\ ~ \E f : Chunked(f, m, size, preserveKeys, k)
    OBVIOUS
  <2>3. k # 0
    <3>. DEFINE f == [i \in 0 .. 0 |-> NoChunks]
    <3>1. f = [i \in 0 .. 0 |-> IF i = 0 THEN NoChunks ELSE PutInChunk(f[i - 1], m[i], size, preserveKeys)]
      OBVIOUS
    <3>2. Chunked(f, m, size, preserveKeys, 0)
      BY <3>1 DEF Chunked
    <3> QED
      BY <2>2, <3>2
  <2>4. PICK f : Chunked(f, m, size, preserveKeys, k - 1)
    <3>1. k - 1 \in 0 .. n /\ k - 1 < k
      BY <2>2, <2>3
    <3> QED
      BY <2>1, <3>1
  <2>. DEFINE g == [i \in 0 .. k |-> IF i = k THEN PutInChunk(f[k - 1], m[k], size, preserveKeys) ELSE f[i]]
  <2>5. ASSUME NEW i \in 0 .. k
        PROVE  g[i] = IF i = 0 THEN NoChunks ELSE PutInChunk(g[i - 1], m[i], size, preserveKeys)
    <3>1. f[0] = NoChunks /\ \A j \in 1 .. k - 1 : f[j] = PutInChunk(f[j - 1], m[j], size, preserveKeys)
      <4>. DEFINE p == k - 1
      <4>1. p \in Nat /\ Chunked(f, m, size, preserveKeys, p)
        BY <2>2, <2>3, <2>4
      <4>. HIDE DEF p
      <4>2. f[0] = NoChunks /\ \A j \in 1 .. p : f[j] = PutInChunk(f[j - 1], m[j], size, preserveKeys)
        <5>1. ChunkSteps(f, m, size, preserveKeys, p)
          BY <4>1, ChunkedAt, Zenon
        <5> QED
          BY <5>1 DEF ChunkSteps
      <4> QED
        BY <4>2 DEF p
    <3>2. CASE i = 0
      BY <2>2, <2>3, <3>1, <3>2
    <3>3. CASE i # 0
      <4>1. g[i - 1] = f[i - 1]
        BY <2>2, <3>3
      <4>2. CASE i = k
        BY <3>3, <4>1, <4>2
      <4>3. CASE i # k
        BY <3>1, <3>3, <4>1, <4>3, <2>2
      <4> QED
        BY <4>2, <4>3
    <3> QED
      BY <3>2, <3>3
  <2>6. Chunked(g, m, size, preserveKeys, k)
    <3>1. g = [i \in 0 .. k |-> g[i]]
      OBVIOUS
    <3>2. [i \in 0 .. k |-> g[i]]
            = [i \in 0 .. k |-> IF i = 0 THEN NoChunks ELSE PutInChunk(g[i - 1], m[i], size, preserveKeys)]
      <4>. HIDE DEF g
      <4> QED
        BY <2>5
    <3>. HIDE DEF g
    <3> QED
      BY <3>1, <3>2 DEF Chunked
  <2> QED
    BY <2>2, <2>6
<1>2. CASE Lacking = {}
  <2>1. n \notin Lacking
    <3>. HIDE DEF Lacking
    <3> QED
      BY <1>2
  <2> QED
    BY <2>1
<1> QED
  BY <1>1, <1>2

LEMMA ChunkByLoop ==
    ASSUME NEW m, NEW size, NEW preserveKeys, Len(m) \in Nat
    PROVE  \E f : ChunkSteps(f, m, size, preserveKeys, Len(m)) /\ chunk(m, size, preserveKeys) = f[Len(m)].chunks
<1>. DEFINE f == CHOOSE g : g = [n \in 0 .. Len(m) |->
                                   IF n = 0 THEN [chunks |-> << >>, count |-> 0, open |-> FALSE]
                                   ELSE PutInChunk(g[n - 1], m[n], size, preserveKeys)]
<1>1. Chunked(f, m, size, preserveKeys, Len(m))
  <2>1. \E g : Chunked(g, m, size, preserveKeys, Len(m))
    BY ChunkedExists
  <2> QED
    BY <2>1, Zenon DEF Chunked, NoChunks
<1>2. chunk(m, size, preserveKeys) = f[Len(m)].chunks
  BY DEF chunk
<1>. HIDE DEF f
<1>3. ChunkSteps(f, m, size, preserveKeys, Len(m))
  BY <1>1, ChunkedAt, Zenon
<1> QED
  BY <1>2, <1>3

(* All chunks but the last one are full, and that one has some item.       *)
ChunksAre(m, w, preserveKeys, chunks) ==
    /\ ChunksOf(m, w, preserveKeys, chunks, Len(m))
    /\ \/ chunks = << >>
       \/ \E count \in 1 .. w : FilledTo(w, chunks, count, Len(m))

LEMMA ChunkIs ==
    ASSUME NEW m, IsMapping(m), NEW size \in Int, NEW preserveKeys \in BOOLEAN
    PROVE  ChunksAre(m, WidthOf(size), preserveKeys, chunk(m, size, preserveKeys))
<1>. DEFINE w == WidthOf(size)
<1>1. Len(m) \in Nat /\ w \in Nat \ {0}
  BY DEF IsMapping, WidthOf
<1>2. PICK f : ChunkSteps(f, m, size, preserveKeys, Len(m)) /\ chunk(m, size, preserveKeys) = f[Len(m)].chunks
  BY <1>1, ChunkByLoop
<1>3. f[0] = NoChunks /\ \A i \in 1 .. Len(m) : f[i] = PutInChunk(f[i - 1], m[i], size, preserveKeys)
  BY <1>2 DEF ChunkSteps
<1>. DEFINE Right(n) == ChunkedTo(m, w, preserveKeys, f[n], n)
            Wrongs == {n \in 0 .. Len(m) : ~Right(n)}
<1>4. Right(0)
  <2>. DEFINE none == << >>
  <2>1. none \in Seq(Seq(Pairs(m))) /\ Len(none) = 0
    OBVIOUS
  <2>2. ChunksOf(m, w, preserveKeys, none, 0)
    <3>. HIDE DEF none, w
    <3> QED
      BY <2>1 DEF ChunksOf
  <2>3. f[0].chunks = none /\ f[0].count = 0 /\ f[0].open = FALSE
    BY <1>3 DEF NoChunks
  <2> QED
    BY <2>2, <2>3 DEF ChunkedTo
<1>5. ASSUME NEW n \in 1 .. Len(m), Right(n - 1) PROVE Right(n)
  <2>. DEFINE s == f[n - 1]
  <2>1. ChunkedTo(m, w, preserveKeys, s, n - 1) /\ f[n] = PutInChunk(s, m[n], size, preserveKeys)
    BY <1>3, <1>5
  <2>. HIDE DEF s
  <2>2. ChunkedTo(m, w, preserveKeys, PutInChunk(s, m[n], size, preserveKeys), n)
    BY <2>1, ChunkStep
  <2> QED
    BY <2>1, <2>2
<1>6. CASE Wrongs # {}
  <2>0. Wrongs \in SUBSET Nat
    OBVIOUS
  <2>. HIDE DEF Wrongs
  <2>1. PICK n \in Wrongs : \A j \in Wrongs : ~ (j < n)
    BY <1>6, <2>0, LeastNat
  <2>. USE DEF Wrongs
  <2>. HIDE DEF Right
  <2>2. n \in 0 .. Len(m) /\ ~Right(n)
    OBVIOUS
  <2>3. n \in 1 .. Len(m) /\ n - 1 \in 0 .. Len(m) /\ n - 1 < n
    BY <1>1, <1>4, <2>2
  <2>4. Right(n - 1)
    BY <2>1, <2>3
  <2> QED
    BY <1>5, <2>2, <2>3, <2>4
<1>7. CASE Wrongs = {}
  <2>1. Len(m) \in 0 .. Len(m)
    BY <1>1
  <2>2. Right(Len(m))
    <3>. HIDE DEF Right
    <3> QED
      BY <1>7, <2>1
  <2>. DEFINE s == f[Len(m)]
  <2>3. ChunkedTo(m, w, preserveKeys, s, Len(m))
    BY <2>2
  <2>. HIDE DEF s, w
  <2>4. w \in 1 .. w /\ 1 .. w - 1 \subseteq 1 .. w
    BY <1>1
  <2>5. ChunksAre(m, w, preserveKeys, s.chunks)
    BY <2>3, <2>4 DEF ChunkedTo, ChunksAre
  <2> QED
    BY <1>2, <2>5 DEF s, w
<1> QED
  BY <1>6, <1>7

(* Of the numbers at some places there is a greatest one.                  *)
HasGreatest(J, g, n) ==
    J \cap (1 .. n) = {} \/ \E k \in J \cap (1 .. n) : \A j \in J \cap (1 .. n) : g[k] >= g[j]

LEMMA GreatestExists ==
    ASSUME NEW n \in Nat, NEW J \in SUBSET (1 .. n), NEW g, \A j \in J : g[j] \in Int
    PROVE  J = {} \/ \E k \in J : \A j \in J : g[k] >= g[j]
<1>. DEFINE Lacking == {p \in 0 .. n : ~HasGreatest(J, g, p)}
<1>1. CASE Lacking # {}
  <2>0. Lacking \in SUBSET Nat
    OBVIOUS
  <2>. HIDE DEF Lacking
  <2>1. PICK p \in Lacking : \A q \in Lacking : ~ (q < p)
    BY <1>1, <2>0, LeastNat
  <2>. USE DEF Lacking
  <2>2. p \in 0 .. n /\ ~HasGreatest(J, g, p)
    OBVIOUS
  <2>3. p # 0
    BY <2>2 DEF HasGreatest
  <2>4. HasGreatest(J, g, p - 1)
    <3>1. p - 1 \in 0 .. n /\ p - 1 < p
      BY <2>2, <2>3
    <3> QED
      BY <2>1, <3>1
  <2>5. J \cap (1 .. p) = (J \cap (1 .. p - 1)) \cup (J \cap {p})
    BY <2>2, <2>3
  <2>6. CASE p \notin J
    BY <2>2, <2>4, <2>5, <2>6 DEF HasGreatest
  <2>7. CASE p \in J /\ J \cap (1 .. p - 1) = {}
    <3>1. J \cap (1 .. p) = {p} /\ g[p] >= g[p]
      BY <2>5, <2>7
    <3> QED
      BY <2>2, <3>1 DEF HasGreatest
  <2>8. CASE p \in J /\ J \cap (1 .. p - 1) # {}
    <3>1. PICK k \in J \cap (1 .. p - 1) : \A j \in J \cap (1 .. p - 1) : g[k] >= g[j]
      BY <2>4, <2>8 DEF HasGreatest
    <3>2. g[k] \in Int /\ g[p] \in Int /\ k \in J \cap (1 .. p) /\ p \in J \cap (1 .. p)
      BY <2>2, <2>5, <2>8
    <3>3. \A j \in J \cap (1 .. p) : g[j] \in Int /\ (j \in J \cap (1 .. p - 1) \/ j = p)
      BY <2>5
    <3>4. CASE g[k] >= g[p]
      <4>1. \A j \in J \cap (1 .. p) : g[k] >= g[j]
        BY <3>1, <3>3, <3>4
      <4> QED
        BY <2>2, <3>2, <4>1 DEF HasGreatest
    <3>5. CASE ~(g[k] >= g[p])
      <4>1. \A j \in J \cap (1 .. p) : g[p] >= g[j]
        BY <3>1, <3>2, <3>3, <3>5
      <4> QED
        BY <2>2, <3>2, <4>1 DEF HasGreatest
    <3> QED
      BY <3>4, <3>5
  <2> QED
    BY <2>6, <2>7, <2>8
<1>2. CASE Lacking = {}
  <2>1. n \notin Lacking
    <3>. HIDE DEF Lacking
    <3> QED
      BY <1>2
  <2>2. HasGreatest(J, g, n)
    BY <2>1
  <2>3. J \cap (1 .. n) = J
    OBVIOUS
  <2> QED
    BY <2>2, <2>3 DEF HasGreatest
<1> QED
  BY <1>1, <1>2

(* Keys that are numbers have one.                                         *)
NumbersIn(entries) == \A k \in DOMAIN entries : IsNumber(entries[k][1]) => entries[k][1][2] \in Int

(* The keys that fill counts are greater than any number that is a key.    *)
LEMMA StartIs ==
    ASSUME NEW entries, Len(entries) \in Nat, DOMAIN entries = 1 .. Len(entries), NumbersIn(entries)
    PROVE  /\ GreatestOr(Numeric(entries), -1) \in Int
           /\ \A k \in DOMAIN entries :
                IsNumber(entries[k][1]) => entries[k][1][2] <= GreatestOr(Numeric(entries), -1)
<1>. DEFINE n == Len(entries)
            J == {j \in DOMAIN entries : IsInteger(entries[j][1])}
            g == [j \in J |-> NumberOf(entries[j][1])]
            N == Numeric(entries)
<1>1. ASSUME NEW j \in J PROVE g[j] \in Int
  <2>. DEFINE key == entries[j][1]
  <2>1. CASE IsNumber(key)
    BY <2>1 DEF NumbersIn, NumberOf
  <2>2. CASE ~IsNumber(key)
    <3>1. key[2] \in DOMAIN Floats
      BY <2>2 DEF IsInteger
    <3>2. Floats[key[2]] \in Int
      BY <3>1 DEF Floats
    <3> QED
      BY <2>2, <3>2 DEF NumberOf
  <2> QED
    BY <2>1, <2>2
<1>2. N = {g[j] : j \in J}
  BY DEF Numeric
<1>3. J = {} \/ \E k \in J : \A j \in J : g[k] >= g[j]
  <2>1. n \in Nat /\ J \in SUBSET (1 .. n)
    OBVIOUS
  <2>. HIDE DEF J, g, n
  <2> QED
    BY <1>1, <2>1, GreatestExists
<1>4. ASSUME NEW k \in DOMAIN entries, IsNumber(entries[k][1])
      PROVE  k \in J /\ g[k] = entries[k][1][2]
  BY <1>4 DEF IsInteger, NumberOf
<1>. HIDE DEF J, g, N
<1>5. CASE J = {}
  <2>1. GreatestOr(N, -1) = -1
    BY <1>2, <1>5 DEF GreatestOr
  <2> QED
    BY <1>4, <1>5, <2>1 DEF N
<1>6. CASE J # {}
  <2>1. N # {} /\ \E x \in N : \A y \in N : x >= y
    BY <1>2, <1>3, <1>6
  <2>2. GreatestOr(N, -1) \in N /\ \A y \in N : GreatestOr(N, -1) >= y
    BY <2>1 DEF GreatestOr
  <2>3. GreatestOr(N, -1) \in Int
    BY <1>1, <1>2, <2>2
  <2>4. ASSUME NEW k \in DOMAIN entries, IsNumber(entries[k][1])
        PROVE  entries[k][1][2] <= GreatestOr(N, -1)
    <3>1. k \in J /\ g[k] = entries[k][1][2] /\ g[k] \in N /\ g[k] \in Int
      BY <1>1, <1>2, <1>4, <2>4
    <3> QED
      BY <2>2, <2>3, <3>1
  <2> QED
    BY <2>3, <2>4 DEF N
<1> QED
  BY <1>5, <1>6

FilledUp(entries, size, value, result) ==
    /\ DOMAIN result = 1 .. Len(result)
    /\ Len(result) = IF size <= Len(entries) THEN Len(entries) ELSE size
    /\ \A i \in 1 .. Len(entries) : result[i] = entries[i]
    /\ \A i \in Len(entries) + 1 .. Len(result) : result[i][2] = value

LEMMA FillIs ==
    ASSUME NEW P, NEW entries \in Seq(P), NumbersIn(entries), NEW size \in Int, NEW value
    PROVE  FilledUp(entries, size, value, fill(entries, size, value))
<1>. DEFINE l == Len(entries)
            start == GreatestOr(Numeric(entries), -1) + 1
            d == size - l
            more == [i \in 1 .. d |-> << <<"number", start + i - 1>>, value>>]
            S == P \cup {more[i] : i \in 1 .. d}
            result == fill(entries, size, value)
<1>1. l \in Nat /\ DOMAIN entries = 1 .. l
  OBVIOUS
<1>2. CASE size <= l
  <2>1. result = entries
    BY <1>2 DEF fill, FillFrom
  <2>2. l + 1 .. l = {}
    BY <1>1
  <2> QED
    BY <1>1, <1>2, <2>1, <2>2 DEF FilledUp
<1>3. CASE ~(size <= l)
  <2>1. start \in Int /\ \A k \in DOMAIN entries : IsNumber(entries[k][1]) => entries[k][1][2] < start
    <3>. DEFINE greatest == GreatestOr(Numeric(entries), -1)
    <3>1. greatest \in Int /\ \A k \in DOMAIN entries : IsNumber(entries[k][1]) => entries[k][1][2] <= greatest
      BY <1>1, StartIs
    <3>. HIDE DEF greatest
    <3>2. start = greatest + 1
      BY DEF greatest
    <3>. HIDE DEF start
    <3>3. ASSUME NEW k \in DOMAIN entries, IsNumber(entries[k][1]) PROVE entries[k][1][2] < start
      <4>1. entries[k][1][2] \in Int /\ entries[k][1][2] <= greatest
        BY <3>1, <3>3 DEF NumbersIn
      <4> QED
        BY <3>1, <3>2, <4>1
    <3> QED
      BY <3>1, <3>2, <3>3
  <2>. HIDE DEF start
  <2>2. d \in Nat /\ l + d = size
    BY <1>1, <1>3
  <2>3. Len(more) = d /\ DOMAIN more = 1 .. d
    BY <2>2
  <2>4. \A i \in 1 .. d : more[i] = << <<"number", start + i - 1>>, value>>
    OBVIOUS
  <2>. HIDE DEF more
  <2>5. AreNew(entries, more)
    <3>1. ASSUME NEW k \in 1 .. d, NEW i \in 1 .. l PROVE entries[i][1] # more[k][1]
      <4>1. SUFFICES ASSUME entries[i][1] = more[k][1] PROVE FALSE
        OBVIOUS
      <4>. DEFINE x == start + k - 1
      <4>2. entries[i][1] = <<"number", x>>
        BY <2>4, <4>1
      <4>3. x >= start /\ x \in Int
        BY <2>1
      <4>. HIDE DEF x
      <4>4. IsNumber(entries[i][1]) /\ entries[i][1][2] = x
        BY <4>2 DEF IsNumber
      <4>5. x < start
        BY <1>1, <2>1, <4>4
      <4> QED
        BY <2>1, <4>3, <4>5
    <3>2. ASSUME NEW j \in 1 .. d, NEW k \in 1 .. d, more[j][1] = more[k][1] PROVE j = k
      <4>1. <<"number", start + j - 1>> = <<"number", start + k - 1>>
        BY <2>4, <3>2
      <4>2. start + j - 1 = start + k - 1
        BY <4>1
      <4> QED
        BY <2>1, <4>2
    <3>3. \A k \in 1 .. d : more[k] = <<more[k][1], more[k][2]>>
      BY <2>4
    <3>. HIDE DEF d, l
    <3> QED
      BY <2>2, <2>3, <3>1, <3>2, <3>3 DEF AreNew, l
  <2>6. result = SetAll(entries, more)
    BY <1>3 DEF fill, FillFrom, more, start
  <2>7. Appended(entries, more, result, Len(more))
    <3>1. entries \in Seq(S) /\ \A k \in 1 .. Len(more) : more[k] \in S
      BY <2>3
    <3>. HIDE DEF S, result
    <3> QED
      BY <2>5, <2>6, <3>1, SetAllAppends
  <2>. HIDE DEF result
  <2>8. /\ Len(result) = size /\ DOMAIN result = 1 .. Len(result)
        /\ \A i \in 1 .. l : result[i] = entries[i]
        /\ \A k \in 1 .. d : result[l + k] = more[k]
    BY <2>2, <2>3, <2>7 DEF Appended
  <2>9. ASSUME NEW i \in l + 1 .. Len(result) PROVE result[i][2] = value
    <3>. DEFINE k == i - l
    <3>1. k \in 1 .. d /\ l + k = i
      BY <1>1, <2>2, <2>8
    <3>. HIDE DEF k
    <3>2. result[i] = more[k]
      BY <2>8, <3>1
    <3> QED
      BY <2>4, <3>1, <3>2
  <2> QED
    BY <1>3, <2>8, <2>9 DEF FilledUp, result
<1> QED
  BY <1>2, <1>3

(* The property of a result whose chunks may have been filled.             *)
LEMMA BatchIs ==
    ASSUME NEW m, IsMapping(m), NumbersIn(m), NEW size \in Int, NEW preserveKeys \in BOOLEAN, NEW filling
    PROVE  BatchesAreFull(m, size, filling, preserveKeys, batch(m, size, filling, preserveKeys))
<1>. DEFINE w == WidthOf(size)
            chunks == chunk(m, size, preserveKeys)
            l == Len(chunks)
            none == <<"null">>
            filled == filling # none
            last == chunks[l]
            longer == fill(last, size, filling)
            fuller == [chunks EXCEPT ![l] = longer]
            result == batch(m, size, filling, preserveKeys)
            n == Len(m)
            P == Pairs(m)
<1>1. w \in Nat \ {0} /\ n \in Nat /\ DOMAIN m = 1 .. n /\ \A k \in 1 .. n : m[k] = <<m[k][1], m[k][2]>>
  BY DEF WidthOf, IsMapping
<1>2. ChunksOf(m, w, preserveKeys, chunks, n) /\ (chunks = << >> \/ \E count \in 1 .. w : FilledTo(w, chunks, count, n))
  BY ChunkIs DEF ChunksAre
<1>. HIDE DEF chunks
<1>3. chunks \in Seq(Seq(P)) /\ l \in Nat /\ DOMAIN chunks = 1 .. l
  BY <1>2 DEF ChunksOf
<1>4. \A c \in 1 .. l : chunks[c] \in Seq(P) /\ Len(chunks[c]) \in Nat /\ DOMAIN chunks[c] = 1 .. Len(chunks[c])
  <2>1. \A c \in 1 .. l : chunks[c] \in Seq(P)
    BY <1>3
  <2>. HIDE DEF P
  <2> QED
    BY <2>1
<1>5. ASSUME NEW c \in 1 .. l
      PROVE  Len(chunks[c]) \in 1 .. w /\ (c < l => Len(chunks[c]) = w)
  <2>1. chunks # << >>
    BY <1>3
  <2>2. PICK count \in 1 .. w : FilledTo(w, chunks, count, n)
    BY <1>2, <2>1
  <2>3. Len(chunks[l]) = count /\ \A d \in 1 .. l : d # l => Len(chunks[d]) = w
    BY <2>2 DEF FilledTo
  <2>4. w \in 1 .. w
    BY <1>1
  <2> QED
    BY <2>3, <2>4
<1>6. ASSUME NEW c \in 1 .. l, NEW i \in 1 .. Len(chunks[c])
      PROVE  /\ Base(w, c) + i \in 1 .. n
             /\ chunks[c][i][2] = m[Base(w, c) + i][2]
             /\ preserveKeys => chunks[c][i] = m[Base(w, c) + i]
  <2>. DEFINE k == Base(w, c) + i
  <2>1. k \in 1 .. n /\ chunks[c][i] = ItemOf(m, w, preserveKeys, c, i)
    BY <1>2 DEF ChunksOf, ItemsOf
  <2>2. m[k] = <<m[k][1], m[k][2]>>
    BY <1>1, <2>1
  <2>. HIDE DEF w, n, l
  <2>3. ItemOf(m, w, preserveKeys, c, i) = <<IF preserveKeys THEN m[k][1] ELSE <<"number", i - 1>>, m[k][2]>>
    BY DEF ItemOf
  <2>. HIDE DEF k
  <2>4. chunks[c][i][2] = m[k][2] /\ (preserveKeys => chunks[c][i] = m[k])
    BY <2>1, <2>2, <2>3
  <2> QED
    BY <2>1, <2>4 DEF k
<1>7. \A k \in 1 .. n : \E c \in 1 .. l : \E i \in 1 .. Len(chunks[c]) : Base(w, c) + i = k
  BY <1>2 DEF ChunksOf, IsIn
<1>8. \A c \in 1 .. l, i \in Nat : Base(w, c) + i = (c - 1) * (IF size < 1 THEN 1 ELSE size) + i
  BY DEF Base, WidthOf
<1>9. w = IF size < 1 THEN 1 ELSE size
  BY DEF WidthOf
<1>. HIDE DEF w, P, n
<1>10. CASE ~filled \/ chunks = << >>
  <2>1. result = chunks
    BY <1>10 DEF batch, chunks
  <2>2. filled => l = 0
    BY <1>10
  <2>3. ASSUME NEW c \in 1 .. l
        PROVE  /\ Len(chunks[c]) \in 1 .. w
               /\ (c < l \/ filled) => Len(chunks[c]) = w
               /\ \A i \in DOMAIN chunks[c] :
                    IF Base(w, c) + i <= n
                    THEN chunks[c][i][2] = m[Base(w, c) + i][2] /\ (preserveKeys => chunks[c][i] = m[Base(w, c) + i])
                    ELSE c = l /\ filled /\ chunks[c][i][2] = filling
    <3>1. \A i \in DOMAIN chunks[c] : i \in 1 .. Len(chunks[c]) /\ Base(w, c) + i <= n
      BY <1>4, <1>6
    <3>2. l # 0
      BY <1>3
    <3> QED
      BY <1>5, <1>6, <2>2, <3>1, <3>2
  <2>4. \A k \in 1 .. n : \E c \in 1 .. l : \E i \in DOMAIN chunks[c] : Base(w, c) + i = k
    BY SMTT(30), <1>4, <1>7
  <2>. HIDE DEF result, filled
  <2>5. BatchesAreFull(m, size, filling, preserveKeys, chunks)
    BY <1>1, <1>3, <1>9, <2>3, <2>4 DEF BatchesAreFull, Base, filled, n
  <2> QED
    BY <2>1, <2>5 DEF result
<1>11. CASE filled /\ chunks # << >>
  <2>1. result = fuller
    BY <1>11 DEF batch, chunks
  <2>2. l \in 1 .. l /\ l >= 1
    BY <1>3, <1>11
  <2>3. Len(last) \in 1 .. w /\ n = Base(w, l) + Len(last)
    <3>1. PICK count \in 1 .. w : FilledTo(w, chunks, count, n)
      BY <1>2, <1>11
    <3> QED
      BY <3>1 DEF FilledTo
  <2>4. last \in Seq(P) /\ NumbersIn(last)
    <3>1. last \in Seq(P) /\ DOMAIN last = 1 .. Len(last)
      BY <1>4, <2>2
    <3>. HIDE DEF last
    <3>2. ASSUME NEW k \in DOMAIN last, IsNumber(last[k][1]) PROVE last[k][1][2] \in Int
      <4>1. last[k] \in Pairs(m)
        BY <3>1 DEF P
      <4>2. last[k][1] \in {m[j][1] : j \in DOMAIN m} \cup {<<"number", x>> : x \in Nat}
        BY <4>1 DEF Pairs
      <4>3. CASE last[k][1] \in {m[j][1] : j \in DOMAIN m}
        BY <3>2, <4>3 DEF NumbersIn
      <4>4. CASE last[k][1] \in {<<"number", x>> : x \in Nat}
        BY <4>4
      <4> QED
        BY <4>2, <4>3, <4>4
    <3> QED
      BY <3>1, <3>2 DEF NumbersIn
  <2>5. FilledUp(last, size, filling, longer)
    <3>. HIDE DEF last
    <3> QED
      BY <2>4, FillIs
  <2>. HIDE DEF longer
  <2>6. /\ DOMAIN longer = 1 .. w /\ Len(longer) = w
        /\ \A i \in 1 .. Len(last) : longer[i] = last[i]
        /\ \A i \in Len(last) + 1 .. w : longer[i][2] = filling
    <3>1. (IF size <= Len(last) THEN Len(last) ELSE size) = w
      BY SMTT(30), <1>9, <2>3
    <3> QED
      BY <2>5, <3>1 DEF FilledUp
  <2>7. /\ DOMAIN fuller = 1 .. l /\ fuller[l] = longer /\ \A c \in 1 .. l : c # l => fuller[c] = chunks[c]
        /\ Len(fuller) = l
    <3>1. DOMAIN fuller = 1 .. l /\ fuller[l] = longer /\ \A c \in 1 .. l : c # l => fuller[c] = chunks[c]
      BY <1>3, <2>2
    <3>2. fuller = [c \in 1 .. l |-> fuller[c]]
      BY <1>3
    <3>. HIDE DEF fuller
    <3>3. fuller \in Seq({fuller[c] : c \in 1 .. l}) /\ Len(fuller) = l
      BY <1>3, <3>2
    <3> QED
      BY ZenonT(60), <3>1, <3>3
  <2>. HIDE DEF fuller
  <2>11. last = chunks[l]
    OBVIOUS
  <2>. HIDE DEF l, last
  <2>8. ASSUME NEW c \in 1 .. l
        PROVE  /\ Len(fuller[c]) \in 1 .. w
               /\ (c < l \/ filled) => Len(fuller[c]) = w
               /\ \A i \in DOMAIN fuller[c] :
                    IF Base(w, c) + i <= n
                    THEN fuller[c][i][2] = m[Base(w, c) + i][2] /\ (preserveKeys => fuller[c][i] = m[Base(w, c) + i])
                    ELSE c = l /\ filled /\ fuller[c][i][2] = filling
    <3>1. CASE c # l
      <4>1. fuller[c] = chunks[c] /\ c < l
        BY <1>3, <2>7, <3>1
      <4>2. \A i \in DOMAIN chunks[c] : i \in 1 .. Len(chunks[c]) /\ Base(w, c) + i <= n
        BY <1>4, <1>6
      <4> QED
        BY <1>5, <1>6, <4>1, <4>2
    <3>2. CASE c = l
      <4>1. fuller[c] = longer /\ w \in 1 .. w
        BY <1>1, <2>7, <3>2
      <4>2. ASSUME NEW i \in 1 .. w
            PROVE  IF Base(w, c) + i <= n
                   THEN longer[i][2] = m[Base(w, c) + i][2] /\ (preserveKeys => longer[i] = m[Base(w, c) + i])
                   ELSE c = l /\ filled /\ longer[i][2] = filling
        <5>1. CASE i \in 1 .. Len(last)
          <6>1. i \in 1 .. Len(chunks[c]) /\ longer[i] = chunks[c][i]
            BY <2>6, <2>11, <3>2, <5>1
          <6>2. Base(w, c) + i <= n
            BY <1>6, <6>1
          <6> QED
            BY <1>6, <6>1, <6>2
        <5>2. CASE i \in Len(last) + 1 .. w
          <6>1. longer[i][2] = filling
            BY <2>6, <5>2
          <6>2. Base(w, c) \in Nat
            <7>1. l \in Nat \ {0}
              BY <2>2, <1>3
            <7> QED
              BY <1>1, <3>2, <7>1, BaseIs
          <6>3. ~(Base(w, c) + i <= n)
            <7>. DEFINE b == Base(w, c)
            <7>1. b \in Nat /\ n = b + Len(last) /\ Len(last) \in Nat
              BY <2>3, <3>2, <6>2
            <7>. HIDE DEF b
            <7>2. ~(b + i <= n)
              BY <5>2, <7>1
            <7> QED
              BY <7>2 DEF b
          <6> QED
            BY <1>11, <3>2, <6>1, <6>3
        <5> QED
          BY <2>3, <5>1, <5>2
      <4> QED
        BY <2>6, <4>1, <4>2
    <3> QED
      BY <3>1, <3>2
  <2>9. ASSUME NEW k \in 1 .. n PROVE \E c \in 1 .. l : \E i \in DOMAIN fuller[c] : Base(w, c) + i = k
    <3>1. PICK c \in 1 .. l : \E i \in 1 .. Len(chunks[c]) : Base(w, c) + i = k
      BY <1>7
    <3>2. PICK i \in 1 .. Len(chunks[c]) : Base(w, c) + i = k
      BY <3>1
    <3>3. i \in DOMAIN fuller[c]
      <4>1. CASE c # l
        BY <1>4, <2>7, <4>1
      <4>2. CASE c = l
        BY <2>3, <2>6, <2>7, <2>11, <4>2
      <4> QED
        BY <4>1, <4>2
    <3> QED
      BY <3>2, <3>3
  <2>. HIDE DEF filled
  <2>10. BatchesAreFull(m, size, filling, preserveKeys, fuller)
    <3>1. \A c \in DOMAIN fuller :
            /\ Len(fuller[c]) \in 1 .. w
            /\ c < Len(fuller) \/ filled => Len(fuller[c]) = w
            /\ \A i \in DOMAIN fuller[c] :
                 IF Base(w, c) + i <= n
                 THEN fuller[c][i][2] = m[Base(w, c) + i][2] /\ (preserveKeys => fuller[c][i] = m[Base(w, c) + i])
                 ELSE c = Len(fuller) /\ filled /\ fuller[c][i][2] = filling
      BY <2>7, <2>8
    <3>2. \A k \in DOMAIN m : \E c \in DOMAIN fuller : \E i \in DOMAIN fuller[c] : Base(w, c) + i = k
      BY <1>1, <2>7, <2>9 DEF n
    <3> QED
      BY <3>1, <3>2, Zenon DEF BatchesAreFull, Base, WidthOf, w, filled, n
  <2> QED
    BY <2>1, <2>10
<1> QED
  BY <1>10, <1>11

-----------------------------------------------------------------------------
(* merge                                                                   *)

(* The numbers among the keys before an entry.                             *)
NumbersBefore(both, k) == {j \in 1 .. k - 1 : IsNumber(both[j][1])}
Rank(both, k) == Cardinality(NumbersBefore(both, k))

LEMMA RankType ==
    ASSUME NEW both, NEW k \in Nat \ {0}
    PROVE  IsFiniteSet(NumbersBefore(both, k)) /\ Rank(both, k) \in Nat
<1>. DEFINE B == NumbersBefore(both, k)
            I == 1 .. k - 1
<1>1. IsFiniteSet(I)
  <2>. DEFINE top == k - 1
  <2>1. 1 \in Int /\ top \in Int
    OBVIOUS
  <2>. HIDE DEF top
  <2>2. IsFiniteSet(1 .. top)
    BY <2>1, FS_Interval
  <2> QED
    BY <2>2 DEF top
<1>2. B \in SUBSET I
  BY DEF NumbersBefore
<1>. HIDE DEF B, I
<1>3. IsFiniteSet(B)
  BY <1>1, <1>2, FS_Subset
<1>4. Cardinality(B) \in Nat
  BY <1>3, FS_CardinalityType
<1> QED
  BY <1>3, <1>4 DEF B, Rank

LEMMA RankNext ==
    ASSUME NEW both, NEW k \in Nat \ {0}
    PROVE  Rank(both, k + 1) = IF IsNumber(both[k][1]) THEN Rank(both, k) + 1 ELSE Rank(both, k)
<1>. DEFINE B == NumbersBefore(both, k)
            C == NumbersBefore(both, k + 1)
<1>1. IsFiniteSet(B)
  BY RankType
<1>2. CASE IsNumber(both[k][1])
  <2>1. C = B \cup {k} /\ k \notin B
    BY <1>2 DEF NumbersBefore
  <2>. HIDE DEF B, C
  <2>2. Cardinality(B \cup {k}) = Cardinality(B) + 1
    BY <1>1, <2>1, FS_AddElement
  <2>3. Cardinality(C) = Cardinality(B) + 1
    BY <2>1, <2>2
  <2> QED
    BY <1>2, <2>3 DEF B, C, Rank
<1>3. CASE ~IsNumber(both[k][1])
  <2>1. C = B
    BY <1>3 DEF NumbersBefore
  <2> QED
    BY <1>3, <2>1 DEF Rank
<1> QED
  BY <1>2, <1>3

LEMMA RankGrows ==
    ASSUME NEW both, NEW j \in Nat \ {0}, NEW k \in Nat \ {0}, j < k, IsNumber(both[j][1])
    PROVE  Rank(both, j) < Rank(both, k)
<1>. DEFINE B == NumbersBefore(both, j + 1)
            C == NumbersBefore(both, k)
<1>1. B \in SUBSET C
  BY DEF NumbersBefore
<1>2. IsFiniteSet(C) /\ Rank(both, k) \in Nat /\ Rank(both, j) \in Nat
  BY RankType
<1>3. Rank(both, j + 1) = Rank(both, j) + 1
  BY RankNext
<1>. HIDE DEF B, C
<1>4. Cardinality(B) <= Cardinality(C)
  BY <1>1, <1>2, FS_Subset
<1>5. Rank(both, j + 1) <= Rank(both, k)
  BY <1>4 DEF B, C, Rank
<1> QED
  BY <1>2, <1>3, <1>5

(* An entry that is counted is a number if it was one.                     *)
IsCounted(both, k) ==
    LET e == Counted(both, k)
    IN  /\ e = <<e[1], e[2]>> /\ e[2] = both[k][2]
        /\ IsNumber(e[1]) <=> IsNumber(both[k][1])
        /\ IsNumber(both[k][1]) => e[1] = <<"number", Rank(both, k)>> /\ e[1][2] = Rank(both, k)
        /\ ~IsNumber(both[k][1]) => e[1] = both[k][1]

LEMMA CountedIs ==
    ASSUME NEW both, NEW k, both[k] = <<both[k][1], both[k][2]>>
    PROVE  IsCounted(both, k)
<1>1. CASE IsNumber(both[k][1])
  <2>. DEFINE x == Rank(both, k)
  <2>1. Counted(both, k) = << <<"number", x>>, both[k][2]>>
    BY <1>1 DEF Counted, Rank, NumbersBefore
  <2>. HIDE DEF x
  <2>2. IsNumber(<<"number", x>>)
    BY DEF IsNumber
  <2> QED
    BY <1>1, <2>1, <2>2 DEF IsCounted, x
<1>2. CASE ~IsNumber(both[k][1])
  <2>1. Counted(both, k) = both[k]
    BY <1>2 DEF Counted
  <2> QED
    BY <1>2, <2>1 DEF IsCounted
<1> QED
  BY <1>1, <1>2

(* The entries whose values are not overwritten by one of the first n.     *)
Lasts(both, n) ==
    {k \in 1 .. n : \A j \in 1 .. n : j > k /\ ~IsNumber(both[k][1]) => both[j][1] # both[k][1]}

LEMMA LastsAre ==
    ASSUME NEW both, NEW n \in Nat \ {0}, \A k \in 1 .. n : both[k] = <<both[k][1], both[k][2]>>
    PROVE  /\ n \in Lasts(both, n)
           /\ \A k \in Lasts(both, n - 1) : Counted(both, k)[1] # Counted(both, n)[1] => k \in Lasts(both, n)
           /\ \A k \in Lasts(both, n) :
                k # n => k \in Lasts(both, n - 1) /\ Counted(both, k)[1] # Counted(both, n)[1]
<1>0. \A k \in 1 .. n : IsCounted(both, k)
  BY CountedIs
<1>1. n \in 1 .. n /\ \A k \in 1 .. n - 1 : k \in 1 .. n /\ k < n /\ k \in Nat \ {0}
  OBVIOUS
<1>2. n \in Lasts(both, n)
  BY DEF Lasts
<1>3. ASSUME NEW k \in Lasts(both, n - 1), Counted(both, k)[1] # Counted(both, n)[1]
      PROVE  k \in Lasts(both, n)
  <2>1. k \in 1 .. n - 1 /\ \A j \in 1 .. n - 1 : j > k /\ ~IsNumber(both[k][1]) => both[j][1] # both[k][1]
    BY DEF Lasts
  <2>2. ~IsNumber(both[k][1]) => both[n][1] # both[k][1]
    BY <1>0, <1>1, <1>3, <2>1 DEF IsCounted
  <2>3. \A j \in 1 .. n : j \in 1 .. n - 1 \/ j = n
    OBVIOUS
  <2> QED
    BY <2>1, <2>2, <2>3 DEF Lasts
<1>4. ASSUME NEW k \in Lasts(both, n), k # n
      PROVE  k \in Lasts(both, n - 1) /\ Counted(both, k)[1] # Counted(both, n)[1]
  <2>1. k \in 1 .. n /\ \A j \in 1 .. n : j > k /\ ~IsNumber(both[k][1]) => both[j][1] # both[k][1]
    BY DEF Lasts
  <2>2. k \in 1 .. n - 1 /\ k < n
    BY <1>4, <2>1
  <2>3. k \in Lasts(both, n - 1)
    BY <2>1, <2>2 DEF Lasts
  <2>4. CASE IsNumber(both[k][1])
    <3>1. Rank(both, k) < Rank(both, n) /\ Rank(both, k) \in Nat /\ Rank(both, n) \in Nat
      BY <2>2, <2>4, RankGrows, RankType
    <3>2. Rank(both, k) # Rank(both, n)
      BY <3>1
    <3> QED
      BY <1>0, <1>1, <2>2, <2>3, <2>4, <3>2 DEF IsCounted
  <2>5. CASE ~IsNumber(both[k][1])
    <3>1. both[n][1] # both[k][1]
      BY <2>1, <2>2, <2>5
    <3> QED
      BY <1>0, <1>1, <2>2, <2>3, <2>5, <3>1 DEF IsCounted
  <2> QED
    BY <2>4, <2>5
<1> QED
  BY <1>2, <1>3, <1>4

KeysDistinct(entries) == \A j, k \in DOMAIN entries : entries[j][1] = entries[k][1] => j = k

(* An entry is set: it is there, and those of other keys are.              *)
HasSet(S, entries, new, e) ==
    /\ new \in Seq(S)
    /\ KeysDistinct(new)
    /\ \E i \in DOMAIN new : new[i] = e
    /\ \A i \in DOMAIN new : new[i] = e \/ (i \in DOMAIN entries /\ new[i] = entries[i] /\ entries[i][1] # e[1])
    /\ \A i \in DOMAIN entries : entries[i][1] # e[1] => i \in DOMAIN new /\ new[i] = entries[i]
    /\ \A j, k \in DOMAIN new :
         j < k => /\ j \in DOMAIN entries /\ new[j][1] = entries[j][1]
                  /\ \/ k \in DOMAIN entries /\ new[k][1] = entries[k][1]
                     \/ new[k] = e /\ entries[j][1] # e[1]

LEMMA SetIs ==
    ASSUME NEW S, NEW entries \in Seq(S), KeysDistinct(entries), NEW key, NEW value, <<key, value>> \in S
    PROVE  HasSet(S, entries, SetEntry(entries, key, value), <<key, value>>)
<1>. DEFINE e == <<key, value>>
            new == SetEntry(entries, key, value)
<1>0. DOMAIN entries = 1 .. Len(entries) /\ Len(entries) \in Nat /\ e[1] = key /\ e \in S
  OBVIOUS
<1>1. CASE HasKey(entries, key)
  <2>1. new = [k \in DOMAIN entries |-> IF entries[k][1] = key THEN e ELSE entries[k]]
    BY <1>1 DEF SetEntry
  <2>2. PICK i \in DOMAIN entries : entries[i][1] = key
    BY <1>1 DEF HasKey
  <2>. HIDE DEF e
  <2>3. DOMAIN new = DOMAIN entries /\ \A k \in DOMAIN entries : new[k] = IF entries[k][1] = key THEN e ELSE entries[k]
    BY <2>1
  <2>4. new \in Seq(S)
    <3>1. \A k \in 1 .. Len(entries) : (IF entries[k][1] = key THEN e ELSE entries[k]) \in S
      BY <1>0
    <3>. HIDE DEF new
    <3> QED
      BY <1>0, <2>1, <3>1
  <2>. HIDE DEF new
  <2>5. \A k \in DOMAIN entries : new[k][1] = entries[k][1]
    BY <1>0, <2>3
  <2>6. KeysDistinct(new)
    BY <2>3, <2>5 DEF KeysDistinct
  <2>7. \A k \in DOMAIN new : new[k] = e \/ (k \in DOMAIN entries /\ new[k] = entries[k] /\ entries[k][1] # e[1])
    BY <1>0, <2>3
  <2>8. \A k \in DOMAIN entries : entries[k][1] # e[1] => k \in DOMAIN new /\ new[k] = entries[k]
    BY <1>0, <2>3
  <2>9. HasSet(S, entries, new, e)
    BY <2>2, <2>3, <2>4, <2>5, <2>6, <2>7, <2>8 DEF HasSet
  <2> QED
    BY <2>9 DEF new, e
<1>2. CASE ~HasKey(entries, key)
  <2>. DEFINE l == Len(entries)
  <2>1. \A i \in 1 .. l : entries[i][1] # key
    BY <1>0, <1>2 DEF HasKey
  <2>2. HasGrown(S, entries, new, e)
    BY <2>1, SetNew
  <2>. HIDE DEF new, e
  <2>3. /\ new \in Seq(S) /\ DOMAIN new = 1 .. l + 1 /\ \A i \in 1 .. l : new[i] = entries[i]
        /\ new[l + 1] = e
    <3>1. new \in Seq(S) /\ Len(new) = l + 1 /\ \A i \in 1 .. l : new[i] = entries[i]
      BY <2>2 DEF HasGrown
    <3> QED
      BY <2>2, <3>1 DEF HasGrown
  <2>. HIDE DEF l
  <2>4. l \in Nat /\ DOMAIN entries = 1 .. l
    BY <1>0 DEF l
  <2>5. \A k \in DOMAIN new : k \in 1 .. l \/ k = l + 1
    BY <2>3, <2>4
  <2>6. KeysDistinct(new)
    <3>1. \A j \in 1 .. l : new[j][1] # new[l + 1][1]
      BY <1>0, <2>1, <2>3
    <3>2. \A j, k \in 1 .. l : new[j][1] = new[k][1] => j = k
      BY <2>3, <2>4 DEF KeysDistinct
    <3> QED
      BY <2>5, <3>1, <3>2 DEF KeysDistinct
  <2>7. \A k \in DOMAIN new : new[k] = e \/ (k \in DOMAIN entries /\ new[k] = entries[k] /\ entries[k][1] # e[1])
    BY <1>0, <2>1, <2>3, <2>4, <2>5
  <2>8. l + 1 \in DOMAIN new /\ \A k \in DOMAIN entries : k \in DOMAIN new /\ new[k] = entries[k]
    BY <2>3, <2>4
  <2>9. ASSUME NEW j \in DOMAIN new, NEW k \in DOMAIN new, j < k
        PROVE  /\ j \in DOMAIN entries /\ new[j][1] = entries[j][1]
               /\ \/ k \in DOMAIN entries /\ new[k][1] = entries[k][1]
                  \/ new[k] = e /\ entries[j][1] # e[1]
    <3>1. j \in 1 .. l
      BY <2>3, <2>4, <2>9
    <3>2. new[j] = entries[j] /\ entries[j][1] # e[1]
      BY <1>0, <2>1, <2>3, <3>1
    <3>3. k \in 1 .. l => new[k] = entries[k]
      BY <2>3
    <3> QED
      BY <2>3, <2>4, <2>5, <3>1, <3>2, <3>3
  <2>10. HasSet(S, entries, new, e)
    BY <2>3, <2>6, <2>7, <2>8, <2>9 DEF HasSet
  <2> QED
    BY <2>10 DEF new, e
<1> QED
  BY <1>1, <1>2

(* The keys that are numbers, in the order of their places.                *)
NumbersGrow(entries) ==
    \A j, k \in DOMAIN entries :
      (j < k /\ IsNumber(entries[j][1]) /\ IsNumber(entries[k][1])) => entries[j][1][2] < entries[k][1][2]

(* The result after n entries.                                             *)
Holds(both, result, n) ==
    /\ result \in Seq({Counted(both, k) : k \in DOMAIN both})
    /\ \A i \in DOMAIN result : \E k \in Lasts(both, n) : result[i] = Counted(both, k)
    /\ \A k \in Lasts(both, n) : \E i \in DOMAIN result : result[i] = Counted(both, k)
    /\ KeysDistinct(result)
    /\ NumbersGrow(result)

MergedTo(both, s, n) == s.keyIndex = Rank(both, n + 1) /\ Holds(both, s.result, n)

ArePairs(both) ==
    /\ Len(both) \in Nat
    /\ DOMAIN both = 1 .. Len(both)
    /\ \A k \in 1 .. Len(both) : both[k] = <<both[k][1], both[k][2]>>

LEMMA HoldsNext ==
    ASSUME NEW both, ArePairs(both), NEW n \in 1 .. Len(both), NEW result, Holds(both, result, n - 1),
           NEW new, HasSet({Counted(both, k) : k \in DOMAIN both}, result, new, Counted(both, n))
    PROVE  Holds(both, new, n)
<1>. DEFINE e == Counted(both, n)
            S == {Counted(both, k) : k \in DOMAIN both}
<1>1. n \in Nat \ {0} /\ \A k \in 1 .. n : k \in Nat \ {0} /\ both[k] = <<both[k][1], both[k][2]>>
  BY DEF ArePairs
<1>2. /\ n \in Lasts(both, n)
      /\ \A k \in Lasts(both, n - 1) : Counted(both, k)[1] # e[1] => k \in Lasts(both, n)
      /\ \A k \in Lasts(both, n) : k # n => k \in Lasts(both, n - 1) /\ Counted(both, k)[1] # e[1]
  BY <1>1, LastsAre
<1>3. /\ \A i \in DOMAIN result : \E k \in Lasts(both, n - 1) : result[i] = Counted(both, k)
      /\ \A k \in Lasts(both, n - 1) : \E i \in DOMAIN result : result[i] = Counted(both, k)
      /\ NumbersGrow(result)
  BY DEF Holds
<1>4. IsCounted(both, n) /\ \A k \in Lasts(both, n - 1) : k \in Nat \ {0} /\ k < n /\ IsCounted(both, k)
  <2>1. \A k \in Lasts(both, n - 1) : k \in 1 .. n /\ k < n /\ k \in Nat \ {0}
    BY <1>1 DEF Lasts
  <2> QED
    BY <1>1, <2>1, CountedIs
<1>. HIDE DEF e, S
<1>5. HasSet(S, result, new, e)
  BY DEF S, e
<1>6. ASSUME NEW i \in DOMAIN new PROVE \E k \in Lasts(both, n) : new[i] = Counted(both, k)
  <2>1. CASE new[i] = e
    BY <1>2, <2>1 DEF e
  <2>2. CASE new[i] # e
    <3>1. i \in DOMAIN result /\ new[i] = result[i] /\ result[i][1] # e[1]
      BY <1>5, <2>2 DEF HasSet
    <3> QED
      BY <1>2, <1>3, <3>1
  <2> QED
    BY <2>1, <2>2
<1>7. ASSUME NEW k \in Lasts(both, n) PROVE \E i \in DOMAIN new : new[i] = Counted(both, k)
  <2>1. CASE k = n
    BY <1>5, <2>1 DEF HasSet, e
  <2>2. CASE k # n
    <3>1. k \in Lasts(both, n - 1) /\ Counted(both, k)[1] # e[1]
      BY <1>2, <2>2
    <3>2. PICK i \in DOMAIN result : result[i] = Counted(both, k)
      BY <1>3, <3>1
    <3>3. i \in DOMAIN new /\ new[i] = result[i]
      BY <1>5, <3>1, <3>2 DEF HasSet
    <3> QED
      BY <3>2, <3>3
  <2> QED
    BY <2>1, <2>2
<1>8. ASSUME NEW j \in DOMAIN new, NEW k \in DOMAIN new, j < k, IsNumber(new[j][1]), IsNumber(new[k][1])
      PROVE  new[j][1][2] < new[k][1][2]
  <2>1. /\ j \in DOMAIN result /\ new[j][1] = result[j][1]
        /\ \/ k \in DOMAIN result /\ new[k][1] = result[k][1]
           \/ new[k] = e /\ result[j][1] # e[1]
    BY <1>5, <1>8 DEF HasSet
  <2>2. CASE k \in DOMAIN result /\ new[k][1] = result[k][1]
    BY <1>3, <1>8, <2>1, <2>2 DEF NumbersGrow
  <2>3. CASE new[k] = e
    <3>1. PICK p \in Lasts(both, n - 1) : result[j] = Counted(both, p)
      BY <1>3, <2>1
    <3>2. IsNumber(both[p][1]) /\ new[j][1][2] = Rank(both, p)
      BY <1>4, <1>8, <2>1, <3>1 DEF IsCounted
    <3>3. IsNumber(both[n][1]) /\ new[k][1][2] = Rank(both, n)
      BY <1>4, <1>8, <2>3 DEF IsCounted, e
    <3>4. Rank(both, p) < Rank(both, n)
      BY <1>1, <1>4, <3>2, RankGrows
    <3> QED
      BY <3>2, <3>3, <3>4
  <2> QED
    BY <2>1, <2>2, <2>3
<1>9. new \in Seq(S) /\ KeysDistinct(new)
  BY <1>5 DEF HasSet
<1> QED
  BY <1>6, <1>7, <1>8, <1>9 DEF Holds, NumbersGrow, S

LEMMA MergeStep ==
    ASSUME NEW both, ArePairs(both), NEW n \in 1 .. Len(both), NEW s, MergedTo(both, s, n - 1)
    PROVE  MergedTo(both, Keep(s, both[n], FALSE), n)
<1>. DEFINE e == Counted(both, n)
            key == e[1]
            value == e[2]
            result == s.result
            new == SetEntry(result, key, value)
            index == IF IsNumber(both[n][1]) THEN s.keyIndex + 1 ELSE s.keyIndex
            S == {Counted(both, k) : k \in DOMAIN both}
<1>1. n \in Nat \ {0} /\ n \in DOMAIN both /\ both[n] = <<both[n][1], both[n][2]>> /\ n - 1 + 1 = n
  BY DEF ArePairs
<1>2. s.keyIndex = Rank(both, n) /\ Holds(both, result, n - 1)
  BY <1>1 DEF MergedTo
<1>3. IsCounted(both, n)
  BY <1>1, CountedIs
<1>4. e = <<key, value>> /\ value = both[n][2]
  BY <1>3 DEF IsCounted
<1>5. key = IF IsNumber(both[n][1]) /\ ~FALSE THEN <<"number", s.keyIndex>> ELSE both[n][1]
  BY <1>2, <1>3 DEF IsCounted
<1>. HIDE DEF key, value, result
<1>. DEFINE t == Keep(s, both[n], FALSE)
<1>6. t = [result |-> new, keyIndex |-> index]
  BY <1>4, <1>5 DEF Keep, result
<1>. HIDE DEF t
<1>7. index = Rank(both, n + 1)
  BY <1>1, <1>2, RankNext
<1>8. HasSet(S, result, new, e)
  <2>1. result \in Seq(S) /\ KeysDistinct(result)
    BY <1>2 DEF Holds
  <2>2. <<key, value>> \in S
    BY <1>1, <1>4
  <2>. HIDE DEF S, e
  <2>3. HasSet(S, result, SetEntry(result, key, value), <<key, value>>)
    BY <2>1, <2>2, SetIs
  <2> QED
    BY <1>4, <2>3
<1>. HIDE DEF new, index
<1>9. Holds(both, new, n)
  BY <1>2, <1>8, HoldsNext
<1>10. t.result = new /\ t.keyIndex = index
  BY <1>6
<1>11. MergedTo(both, t, n)
  BY <1>7, <1>9, <1>10 DEF MergedTo
<1> QED
  BY <1>11 DEF t

LEMMA AllMerged ==
    ASSUME NEW both, ArePairs(both)
    PROVE  Holds(both, Sliced(both, 0, Len(both), FALSE), Len(both))
<1>. DEFINE N == Len(both)
<1>1. N \in Nat /\ 0 \in Nat
  BY DEF ArePairs
<1>2. PICK f : SlicedIn(f, both, 0, N, FALSE, N) /\ Sliced(both, 0, N, FALSE) = f[N].result
  BY <1>1, SlicedByLoop
<1>3. f[0] = Nothing /\ \A n \in 1 .. N : f[n] = SliceStep(both, 0, N, FALSE, f[n - 1], n)
  <2>1. SliceSteps(f, both, 0, N, FALSE, N)
    BY <1>1, <1>2, SlicedInAt, Zenon
  <2> QED
    BY <2>1 DEF SliceSteps
<1>. DEFINE Right(n) == MergedTo(both, f[n], n)
            Wrongs == {n \in 0 .. N : ~Right(n)}
<1>4. Right(0)
  <2>1. f[0].keyIndex = 0 /\ f[0].result = << >>
    BY <1>3 DEF Nothing
  <2>2. Rank(both, 0 + 1) = 0
    <3>1. NumbersBefore(both, 0 + 1) = {}
      BY DEF NumbersBefore
    <3> QED
      BY <3>1, FS_EmptySet DEF Rank
  <2>3. Holds(both, << >>, 0)
    <3>1. Lasts(both, 0) = {}
      BY DEF Lasts
    <3>. DEFINE none == << >>
    <3>2. none \in Seq({Counted(both, k) : k \in DOMAIN both}) /\ DOMAIN none = {}
      OBVIOUS
    <3>. HIDE DEF none
    <3>3. Holds(both, none, 0)
      BY <3>1, <3>2 DEF Holds, KeysDistinct, NumbersGrow
    <3> QED
      BY <3>3 DEF none
  <2> QED
    BY <2>1, <2>2, <2>3 DEF MergedTo
<1>5. ASSUME NEW n \in 1 .. N, Right(n - 1) PROVE Right(n)
  <2>. DEFINE s == f[n - 1]
  <2>1. n - 1 >= 0 /\ n - 1 < 0 + N
    BY <1>1
  <2>2. MergedTo(both, s, n - 1) /\ f[n] = Keep(s, both[n], FALSE)
    BY <1>3, <1>5, <2>1 DEF SliceStep
  <2>. HIDE DEF s
  <2>3. MergedTo(both, Keep(s, both[n], FALSE), n)
    BY <2>2, MergeStep
  <2> QED
    BY <2>2, <2>3
<1>6. CASE Wrongs # {}
  <2>0. Wrongs \in SUBSET Nat
    OBVIOUS
  <2>. HIDE DEF Wrongs
  <2>1. PICK n \in Wrongs : \A j \in Wrongs : ~ (j < n)
    BY <1>6, <2>0, LeastNat
  <2>. USE DEF Wrongs
  <2>. HIDE DEF Right
  <2>2. n \in 0 .. N /\ ~Right(n)
    OBVIOUS
  <2>3. n \in 1 .. N /\ n - 1 \in 0 .. N /\ n - 1 < n
    BY <1>1, <1>4, <2>2
  <2>4. Right(n - 1)
    BY <2>1, <2>3
  <2> QED
    BY <1>5, <2>2, <2>3, <2>4
<1>7. CASE Wrongs = {}
  <2>1. N \in 0 .. N
    BY <1>1
  <2>2. Right(N)
    <3>. HIDE DEF Right
    <3> QED
      BY <1>7, <2>1
  <2> QED
    BY <1>2, <2>2 DEF MergedTo
<1> QED
  BY <1>6, <1>7

LEMMA MergeIs ==
    ASSUME NEW m, m \in Seq({m[k] : k \in DOMAIN m}), \A k \in DOMAIN m : m[k] = <<m[k][1], m[k][2]>>,
           NEW n, n \in Seq({n[k] : k \in DOMAIN n}), \A k \in DOMAIN n : n[k] = <<n[k][1], n[k][2]>>
    PROVE  MergeKeepsAll(m, n, merge(m, n))
<1>. DEFINE both == m \o n
            N == Len(both)
            result == merge(m, n)
            A == {m[k] : k \in DOMAIN m}
            B == {n[k] : k \in DOMAIN n}
<1>1. ArePairs(both)
  <2>1. \A x \in A \cup B : x = <<x[1], x[2]>>
    OBVIOUS
  <2>2. m \in Seq(A \cup B) /\ n \in Seq(A \cup B)
    <3>1. m \in Seq(A) /\ n \in Seq(B)
      OBVIOUS
    <3>. HIDE DEF A, B
    <3> QED
      BY <3>1
  <2>. HIDE DEF A, B
  <2>3. both \in Seq(A \cup B)
    BY <2>2
  <2>. HIDE DEF both
  <2>4. N \in Nat /\ DOMAIN both = 1 .. N /\ \A k \in 1 .. N : both[k] \in A \cup B
    BY <2>3
  <2> QED
    BY <2>1, <2>4 DEF ArePairs
<1>2. result = Sliced(both, 0, N, FALSE)
  BY DEF merge
<1>. HIDE DEF both, result
<1>3. Holds(both, result, N)
  BY <1>1, <1>2, AllMerged
<1>4. DOMAIN both = 1 .. N
  BY <1>1 DEF ArePairs
<1>. DEFINE last == {k \in DOMAIN both :
                       \A j \in DOMAIN both : j > k /\ ~IsNumber(both[k][1]) => both[j][1] # both[k][1]}
<1>5. Lasts(both, N) = last
  BY <1>4 DEF Lasts
<1>. HIDE DEF last
<1>6. {result[k] : k \in DOMAIN result} = {Counted(both, k) : k \in last}
  <2>1. /\ \A i \in DOMAIN result : \E k \in last : result[i] = Counted(both, k)
        /\ \A k \in last : \E i \in DOMAIN result : result[i] = Counted(both, k)
    BY <1>3, <1>5 DEF Holds
  <2> QED
    BY <2>1
<1>7. KeysDistinct(result) /\ NumbersGrow(result)
  BY <1>3 DEF Holds
<1> QED
  BY <1>6, <1>7 DEF MergeKeepsAll, KeysDistinct, NumbersGrow, last, both, result

-----------------------------------------------------------------------------
(* Maps that are arranged.                                                 *)

LEMMA MapsAreOrdered ==
    ASSUME NEW m \in Maps
    PROVE  Ordered(m) /\ NumbersIn(m)
BY ArrangementsAssumption DEF Ordered, NumbersIn

(* What ItemsKept says of a call of merge, reverse and sort.               *)
ArrangedWell(m, n, preserveKeys) ==
    /\ MergeKeepsAll(m, n, merge(m, n))
    /\ Len(reverse(m, preserveKeys)) = Len(m)
    /\ \A k \in DOMAIN m : reverse(m, preserveKeys)[k][2] = m[Len(m) + 1 - k][2]
    /\ Distinct(m) => SortedBy(m, asort(m))

LEMMA AllArranged ==
    ASSUME NEW m \in Maps, NEW n \in Maps, NEW preserveKeys \in BOOLEAN
    PROVE  ArrangedWell(m, n, preserveKeys)
<1>1. IsMapping(m) /\ DOMAIN m = 1 .. Len(m)
  BY MapsAreMappings DEF IsMapping
<1>2. MergeKeepsAll(m, n, merge(m, n))
  BY SlicesAssumption, MergeIs
<1>3. /\ Len(reverse(m, preserveKeys)) = Len(m)
      /\ \A k \in 1 .. Len(m) : reverse(m, preserveKeys)[k][2] = m[Len(m) + 1 - k][2]
  BY <1>1, ReverseIs
<1>4. Distinct(m) => SortedBy(m, asort(m))
  BY <1>1, MapsAreOrdered, SortIs
<1> QED
  BY <1>1, <1>2, <1>3, <1>4 DEF ArrangedWell

(* No item is lost, repeated or moved by batch, merge and reverse, and     *)
(* sort has every item, in the order of the values as strings, when no two *)
(* values are equal, for any maps, values and sizes; a filled batch is     *)
(* full and its filling overwrites nothing (batch.ts, fill.ts, chunk.ts,   *)
(* merge.ts, reverse.ts, asort.ts).                                        *)
THEOREM ItemsAreKept == ArrangingSpec => []ItemsKept
<1>1. ASSUME call.of \notin {"batched", "arranged"} PROVE ItemsKept
  BY <1>1 DEF ItemsKept
<1>2. ASSUME Batching PROVE ItemsKept'
  <2>1. PICK m \in Maps, size \in Sizes, filling \in {<<"null">>, <<"string", "filling">>}, preserveKeys \in BOOLEAN :
          call' = Batched(m, size, filling, preserveKeys)
    BY <1>2 DEF Batching
  <2>2. /\ call'.of = "batched" /\ call'.map = m /\ call'.size = size /\ call'.filling = filling
        /\ call'.preserveKeys = preserveKeys /\ call'.result = batch(m, size, filling, preserveKeys)
    BY <2>1 DEF Batched
  <2>3. BatchesAreFull(m, size, filling, preserveKeys, batch(m, size, filling, preserveKeys))
    BY SlicesAssumption, MapsAreMappings, MapsAreOrdered, BatchIs
  <2> QED
    BY <2>2, <2>3 DEF ItemsKept
<1>3. ASSUME Arranging PROVE ItemsKept'
  <2>1. PICK m \in Maps, n \in Maps, preserveKeys \in BOOLEAN : call' = Arranged(m, n, preserveKeys)
    BY <1>3 DEF Arranging
  <2>. DEFINE merged == merge(m, n)
              reversed == reverse(m, preserveKeys)
              sorted == asort(m)
  <2>2. ArrangedWell(m, n, preserveKeys)
    BY AllArranged
  <2>3. /\ MergeKeepsAll(m, n, merged)
        /\ Len(reversed) = Len(m)
        /\ \A k \in DOMAIN m : reversed[k][2] = m[Len(m) + 1 - k][2]
        /\ Distinct(m) => SortedBy(m, sorted)
    BY <2>2 DEF ArrangedWell
  <2>4. call' = [of |-> "arranged", map |-> m, other |-> n, merged |-> merged, reversed |-> reversed, sorted |-> sorted]
    BY <2>1 DEF Arranged
  <2>. HIDE DEF merged, reversed, sorted
  <2>5. /\ call'.of = "arranged" /\ call'.map = m /\ call'.other = n /\ call'.merged = merged
        /\ call'.reversed = reversed /\ call'.sorted = sorted
    BY <2>4
  <2>6. call'.of # "batched"
    BY <2>5
  <2> QED
    BY ZenonT(60), <2>3, <2>5, <2>6 DEF ItemsKept, SortedBy
<1>4. ASSUME call'.of \notin {"batched", "arranged"} PROVE ItemsKept'
  BY <1>4 DEF ItemsKept
<1>5. ASSUME ItemsKept, UNCHANGED call PROVE ItemsKept'
  BY ZenonT(60), <1>5 DEF ItemsKept
<1> QED
  BY <1>1, <1>2, <1>3, <1>4, <1>5, PTL DEF ArrangingSpec

-----------------------------------------------------------------------------
(* What a call passes for its name. The numbers of stars.                  *)

LEMMA StarsAre ==
    ASSUME NEW pattern, NEW n \in Nat
    PROVE  Stars(pattern, n) \in Nat /\ Stars(pattern, 0) = 0
<1>1. IsFiniteSet({j \in 1 .. n : pattern[j] = Star})
  <2>1. IsFiniteSet(1 .. n)
    BY FS_Interval
  <2> QED
    BY <2>1, FS_Subset
<1>2. {j \in 1 .. 0 : pattern[j] = Star} = {}
  OBVIOUS
<1> QED
  BY <1>1, <1>2, FS_CardinalityType, FS_EmptySet DEF Stars

LEMMA StarsNext ==
    ASSUME NEW pattern, NEW k \in Nat \ {0}
    PROVE  Stars(pattern, k) = IF pattern[k] = Star THEN Stars(pattern, k - 1) + 1 ELSE Stars(pattern, k - 1)
<1>. DEFINE B == {j \in 1 .. k - 1 : pattern[j] = Star}
            C == {j \in 1 .. k : pattern[j] = Star}
<1>1. IsFiniteSet(B)
  <2>1. IsFiniteSet(1 .. k - 1)
    BY FS_Interval
  <2> QED
    BY <2>1, FS_Subset
<1>2. CASE pattern[k] = Star
  <2>1. C = B \cup {k} /\ k \notin B
    BY <1>2
  <2>. HIDE DEF B, C
  <2>2. Cardinality(B \cup {k}) = Cardinality(B) + 1
    BY <1>1, <2>1, FS_AddElement
  <2>3. Cardinality(C) = Cardinality(B) + 1
    BY <2>1, <2>2
  <2> QED
    BY <1>2, <2>3 DEF B, C, Stars
<1>3. CASE pattern[k] # Star
  <2>1. C = B
    BY <1>3
  <2> QED
    BY <1>3, <2>1 DEF Stars
<1> QED
  BY <1>2, <1>3

(* The rows of a match, and what is filled in, from the end of a pattern.  *)
Matched(pattern, name, row, n) == MatchLetter(pattern[Len(pattern) + 1 - n], name, row)

MatchedIn(f, pattern, name, n) ==
    f = [i \in 0 .. n |-> IF i = 0 THEN AtEnd(name) ELSE Matched(pattern, name, f[i - 1], i)]

LEMMA MatchedAt ==
    ASSUME NEW pattern, NEW name, NEW n \in Nat, NEW f, MatchedIn(f, pattern, name, n)
    PROVE  /\ f[0] = AtEnd(name)
           /\ \A i \in 1 .. n : f[i] = Matched(pattern, name, f[i - 1], i)
<1>1. f[0] = AtEnd(name)
  BY DEF MatchedIn
<1>2. ASSUME NEW i \in 1 .. n PROVE f[i] = Matched(pattern, name, f[i - 1], i)
  <2>1. i \in 0 .. n /\ i # 0
    OBVIOUS
  <2> QED
    BY <2>1 DEF MatchedIn
<1> QED
  BY <1>1, <1>2

LEMMA MatchedExists ==
    ASSUME NEW pattern, NEW name, NEW n \in Nat
    PROVE  \E f : MatchedIn(f, pattern, name, n)
<1>. DEFINE Without == {m \in 0 .. n : ~ \E f : MatchedIn(f, pattern, name, m)}
<1>1. CASE Without # {}
  <2>0. Without \in SUBSET Nat
    OBVIOUS
  <2>. HIDE DEF Without
  <2>1. PICK m \in Without : \A k \in Without : ~ (k < m)
    BY <1>1, <2>0, LeastNat
  <2>. USE DEF Without
  <2>2. m \in 0 .. n /\ ~ \E f : MatchedIn(f, pattern, name, m)
    OBVIOUS
  <2>3. m # 0
    <3>. DEFINE f == [i \in 0 .. 0 |-> AtEnd(name)]
    <3>1. f = [i \in 0 .. 0 |-> IF i = 0 THEN AtEnd(name) ELSE Matched(pattern, name, f[i - 1], i)]
      OBVIOUS
    <3>2. MatchedIn(f, pattern, name, 0)
      BY <3>1 DEF MatchedIn
    <3> QED
      BY <2>2, <3>2
  <2>4. PICK f : MatchedIn(f, pattern, name, m - 1)
    <3>1. m - 1 \in 0 .. n /\ m - 1 < m
      BY <2>2, <2>3
    <3> QED
      BY <2>1, <3>1
  <2>. DEFINE g == [i \in 0 .. m |-> IF i = m THEN Matched(pattern, name, f[m - 1], m) ELSE f[i]]
  <2>5. ASSUME NEW i \in 0 .. m
        PROVE  g[i] = IF i = 0 THEN AtEnd(name) ELSE Matched(pattern, name, g[i - 1], i)
    <3>1. f[0] = AtEnd(name) /\ \A j \in 1 .. m - 1 : f[j] = Matched(pattern, name, f[j - 1], j)
      <4>1. m - 1 \in Nat
        BY <2>2, <2>3
      <4> QED
        BY <2>4, <4>1, MatchedAt
    <3>2. CASE i = 0
      BY <2>2, <2>3, <3>1, <3>2
    <3>3. CASE i # 0
      <4>1. g[i - 1] = f[i - 1]
        BY <2>2, <3>3
      <4>2. CASE i = m
        BY <3>3, <4>1, <4>2
      <4>3. CASE i # m
        BY <3>1, <3>3, <4>1, <4>3, <2>2
      <4> QED
        BY <4>2, <4>3
    <3> QED
      BY <3>2, <3>3
  <2>6. MatchedIn(g, pattern, name, m)
    <3>1. g = [i \in 0 .. m |-> g[i]]
      OBVIOUS
    <3>2. [i \in 0 .. m |-> g[i]] = [i \in 0 .. m |-> IF i = 0 THEN AtEnd(name) ELSE Matched(pattern, name, g[i - 1], i)]
      <4>. HIDE DEF g
      <4> QED
        BY <2>5
    <3>. HIDE DEF g
    <3> QED
      BY <3>1, <3>2 DEF MatchedIn
  <2> QED
    BY <2>2, <2>6
<1>2. CASE Without = {}
  <2>1. n \notin Without
    <3>. HIDE DEF Without
    <3> QED
      BY <1>2
  <2> QED
    BY <2>1
<1> QED
  BY <1>1, <1>2

LEMMA MatchByLoop ==
    ASSUME NEW pattern, NEW name, Len(pattern) \in Nat
    PROVE  \E f : MatchedIn(f, pattern, name, Len(pattern)) /\ Match(pattern, name) = f[Len(pattern)][1]
<1>. DEFINE f == CHOOSE g : g = [n \in 0 .. Len(pattern) |->
                                   IF n = 0 THEN AtEnd(name)
                                   ELSE MatchLetter(pattern[Len(pattern) + 1 - n], name, g[n - 1])]
<1>1. MatchedIn(f, pattern, name, Len(pattern))
  <2>1. \E g : MatchedIn(g, pattern, name, Len(pattern))
    BY MatchedExists
  <2> QED
    BY <2>1, Zenon DEF MatchedIn, Matched
<1>2. Match(pattern, name) = f[Len(pattern)][1]
  BY DEF Match
<1> QED
  BY <1>1, <1>2

Longer(pattern, arguments, rest, n) == Put(pattern, arguments, Len(pattern) + 1 - n) \o rest

FilledIn(f, pattern, arguments, n) ==
    f = [i \in 0 .. n |-> IF i = 0 THEN << >> ELSE Longer(pattern, arguments, f[i - 1], i)]

LEMMA FilledAt ==
    ASSUME NEW pattern, NEW arguments, NEW n \in Nat, NEW f, FilledIn(f, pattern, arguments, n)
    PROVE  /\ f[0] = << >>
           /\ \A i \in 1 .. n : f[i] = Longer(pattern, arguments, f[i - 1], i)
<1>1. f[0] = << >>
  BY DEF FilledIn
<1>2. ASSUME NEW i \in 1 .. n PROVE f[i] = Longer(pattern, arguments, f[i - 1], i)
  <2>1. i \in 0 .. n /\ i # 0
    OBVIOUS
  <2> QED
    BY <2>1 DEF FilledIn
<1> QED
  BY <1>1, <1>2

LEMMA FilledExists ==
    ASSUME NEW pattern, NEW arguments, NEW n \in Nat
    PROVE  \E f : FilledIn(f, pattern, arguments, n)
<1>. DEFINE Without == {m \in 0 .. n : ~ \E f : FilledIn(f, pattern, arguments, m)}
<1>1. CASE Without # {}
  <2>0. Without \in SUBSET Nat
    OBVIOUS
  <2>. HIDE DEF Without
  <2>1. PICK m \in Without : \A k \in Without : ~ (k < m)
    BY <1>1, <2>0, LeastNat
  <2>. USE DEF Without
  <2>2. m \in 0 .. n /\ ~ \E f : FilledIn(f, pattern, arguments, m)
    OBVIOUS
  <2>3. m # 0
    <3>. DEFINE f == [i \in 0 .. 0 |-> << >>]
    <3>1. f = [i \in 0 .. 0 |-> IF i = 0 THEN << >> ELSE Longer(pattern, arguments, f[i - 1], i)]
      OBVIOUS
    <3>2. FilledIn(f, pattern, arguments, 0)
      BY <3>1 DEF FilledIn
    <3> QED
      BY <2>2, <3>2
  <2>4. PICK f : FilledIn(f, pattern, arguments, m - 1)
    <3>1. m - 1 \in 0 .. n /\ m - 1 < m
      BY <2>2, <2>3
    <3> QED
      BY <2>1, <3>1
  <2>. DEFINE g == [i \in 0 .. m |-> IF i = m THEN Longer(pattern, arguments, f[m - 1], m) ELSE f[i]]
  <2>5. ASSUME NEW i \in 0 .. m
        PROVE  g[i] = IF i = 0 THEN << >> ELSE Longer(pattern, arguments, g[i - 1], i)
    <3>1. f[0] = << >> /\ \A j \in 1 .. m - 1 : f[j] = Longer(pattern, arguments, f[j - 1], j)
      <4>1. m - 1 \in Nat
        BY <2>2, <2>3
      <4>2. f[0] = << >>
        BY <2>4, <4>1 DEF FilledIn
      <4>3. ASSUME NEW j \in 1 .. m - 1
            PROVE  f[j] = Longer(pattern, arguments, f[j - 1], j)
        <5>1. j \in 0 .. m - 1 /\ j # 0
          BY <4>1
        <5> QED
          BY <2>4, <5>1 DEF FilledIn
      <4> QED
        BY <4>2, <4>3
    <3>2. CASE i = 0
      BY <2>2, <2>3, <3>1, <3>2
    <3>3. CASE i # 0
      <4>1. g[i - 1] = f[i - 1]
        BY <2>2, <3>3
      <4>2. CASE i = m
        BY <3>3, <4>1, <4>2
      <4>3. CASE i # m
        BY <3>1, <3>3, <4>1, <4>3, <2>2
      <4> QED
        BY <4>2, <4>3
    <3> QED
      BY <3>2, <3>3
  <2>6. FilledIn(g, pattern, arguments, m)
    <3>1. g = [i \in 0 .. m |-> g[i]]
      OBVIOUS
    <3>2. [i \in 0 .. m |-> g[i]] = [i \in 0 .. m |-> IF i = 0 THEN << >> ELSE Longer(pattern, arguments, g[i - 1], i)]
      <4>. HIDE DEF g
      <4> QED
        BY <2>5
    <3>. HIDE DEF g
    <3> QED
      BY <3>1, <3>2 DEF FilledIn
  <2> QED
    BY <2>2, <2>6
<1>2. CASE Without = {}
  <2>1. n \notin Without
    <3>. HIDE DEF Without
    <3> QED
      BY <1>2
  <2> QED
    BY <2>1
<1> QED
  BY <1>1, <1>2

LEMMA FilledByLoop ==
    ASSUME NEW pattern, NEW arguments, Len(pattern) \in Nat
    PROVE  \E f : FilledIn(f, pattern, arguments, Len(pattern)) /\ Filled(pattern, arguments) = f[Len(pattern)]
<1>. DEFINE f == CHOOSE g : g = [n \in 0 .. Len(pattern) |->
                                   IF n = 0 THEN << >>
                                   ELSE Put(pattern, arguments, Len(pattern) + 1 - n) \o g[n - 1]]
<1>1. FilledIn(f, pattern, arguments, Len(pattern))
  <2>1. \E g : FilledIn(g, pattern, arguments, Len(pattern))
    BY FilledExists
  <2> QED
    BY <2>1, Zenon DEF FilledIn, Longer
<1>2. Filled(pattern, arguments) = f[Len(pattern)]
  BY DEF Filled
<1> QED
  BY <1>1, <1>2

(* What the last n letters of a pattern take of a name from its letter j   *)
(* on: one argument for each star, which fill these letters to that rest   *)
(* of the name, if they are the last of the arguments.                     *)
Ends(pattern, args, m, n) ==
    /\ Len(args) = Stars(pattern, Len(pattern))
    /\ \A i \in 1 .. Len(m) : args[Stars(pattern, Len(pattern) - n) + i] = m[i]

RestIs(pattern, name, args, S, n, j, m, filled) ==
    /\ m \in Seq(Seq(S))
    /\ Len(m) = Stars(pattern, Len(pattern)) - Stars(pattern, Len(pattern) - n)
    /\ Ends(pattern, args, m, n) => filled = SubSeq(name, j, Len(name))

RowIs(pattern, name, args, S, n, row, filled) ==
    \A j \in 1 .. Len(name) + 1 : \A m \in row[j] : RestIs(pattern, name, args, S, n, j, m, filled)

LEMMA JoinSubSeq ==
    ASSUME NEW S, NEW name \in Seq(S), NEW j \in 1 .. Len(name) + 1, NEW l \in j .. Len(name) + 1
    PROVE  /\ SubSeq(name, j, l - 1) \in Seq(S)
           /\ SubSeq(name, j, l - 1) \o SubSeq(name, l, Len(name)) = SubSeq(name, j, Len(name))
           /\ j <= Len(name) => <<name[j]>> \o SubSeq(name, j + 1, Len(name)) = SubSeq(name, j, Len(name))
<1>1. Len(name) \in Nat /\ j \in Int /\ l - 1 \in j - 1 .. Len(name) /\ l - 1 + 1 = l
  OBVIOUS
<1>2. SubSeq(name, j, l - 1) \in Seq(S)
  <2>1. \A i \in j .. l - 1 : name[i] \in S
    BY <1>1
  <2> QED
    BY <1>1, <2>1, SubSeqProperties
<1>3. SubSeq(name, j, l - 1) \o SubSeq(name, l - 1 + 1, Len(name)) = SubSeq(name, j, Len(name))
  <2>1. Len(name) \in l - 1 .. Len(name)
    BY <1>1
  <2> QED
    BY <1>1, <2>1, ConcatAdjacentSubSeq
<1>4. ASSUME j <= Len(name)
      PROVE  SubSeq(name, j, Len(name)) = <<name[j]>> \o SubSeq(name, j + 1, Len(name))
  <2>1. j \in 1 .. Len(name) /\ Len(name) \in j .. Len(name)
    BY <1>1, <1>4
  <2> QED
    BY <2>1, SubSeqRecursiveFirst
<1> QED
  BY <1>1, <1>2, <1>3, <1>4

LEMMA PrecededIs ==
    ASSUME NEW T, NEW x \in T, NEW rest \in Seq(T)
    PROVE  /\ <<x>> \o rest \in Seq(T) /\ Len(rest) \in Nat
           /\ Len(<<x>> \o rest) = Len(rest) + 1
           /\ (<<x>> \o rest)[1] = x
           /\ \A i \in 1 .. Len(rest) : (<<x>> \o rest)[i + 1] = rest[i]
<1>. DEFINE a == <<x>>
            m == a \o rest
<1>1. a \in Seq(T) /\ Len(a) = 1 /\ a[1] = x /\ Len(rest) \in Nat
  OBVIOUS
<1>. HIDE DEF a
<1>2. /\ m \in Seq(T) /\ Len(m) = Len(a) + Len(rest)
      /\ \A i \in 1 .. Len(a) + Len(rest) : m[i] = IF i <= Len(a) THEN a[i] ELSE rest[i - Len(a)]
  BY <1>1, ConcatProperties
<1>. HIDE DEF m
<1>3. m \in Seq(T) /\ Len(m) = Len(rest) + 1 /\ m[1] = x
  BY <1>1, <1>2
<1>4. ASSUME NEW i \in 1 .. Len(rest) PROVE m[i + 1] = rest[i]
  <2>1. i + 1 \in 1 .. Len(a) + Len(rest) /\ ~ (i + 1 <= Len(a)) /\ i + 1 - Len(a) = i
    BY <1>1
  <2> QED
    BY <1>2, <2>1
<1> QED
  BY <1>1, <1>3, <1>4 DEF m, a

LEMMA EndRest ==
    ASSUME NEW S, NEW pattern \in Seq(S), NEW name \in Seq(S), NEW args
    PROVE  RestIs(pattern, name, args, S, 0, Len(name) + 1, << >>, << >>)
<1>1. << >> \in Seq(Seq(S)) /\ Len(<< >>) = 0
  OBVIOUS
<1>2. SubSeq(name, Len(name) + 1, Len(name)) = << >>
  OBVIOUS
<1>3. Stars(pattern, Len(pattern)) \in Nat /\ Len(pattern) - 0 = Len(pattern)
  BY StarsAre
<1>4. Len(<< >>) = Stars(pattern, Len(pattern)) - Stars(pattern, Len(pattern) - 0)
  BY <1>1, <1>3
<1> QED
  BY <1>1, <1>2, <1>4 DEF RestIs

LEMMA StarRest ==
    ASSUME NEW S, NEW pattern \in Seq(S), NEW name \in Seq(S), NEW args, NEW n \in 1 .. Len(pattern),
           pattern[Len(pattern) + 1 - n] = Star,
           NEW j \in 1 .. Len(name) + 1, NEW l \in j .. Len(name) + 1, NEW rest, NEW filled,
           RestIs(pattern, name, args, S, n - 1, l, rest, filled)
    PROVE  RestIs(pattern, name, args, S, n, j, <<SubSeq(name, j, l - 1)>> \o rest,
                  Put(pattern, args, Len(pattern) + 1 - n) \o filled)
<1>. DEFINE P == Len(pattern)
            k == P + 1 - n
            c == Stars(pattern, P - n)
            u == SubSeq(name, j, l - 1)
            m == <<u>> \o rest
            fuller == Put(pattern, args, k) \o filled
<1>1. /\ P \in Nat /\ n \in Nat /\ k \in Nat \ {0} /\ k - 1 = P - n /\ P - (n - 1) = k
  OBVIOUS
<1>2. c \in Nat /\ Stars(pattern, k) = c + 1 /\ Stars(pattern, P) \in Nat
  BY <1>1, StarsAre, StarsNext
<1>3. /\ u \in Seq(S)
      /\ u \o SubSeq(name, l, Len(name)) = SubSeq(name, j, Len(name))
  BY JoinSubSeq
<1>4. /\ rest \in Seq(Seq(S))
      /\ Len(rest) = Stars(pattern, P) - Stars(pattern, k)
      /\ Ends(pattern, args, rest, n - 1) => filled = SubSeq(name, l, Len(name))
  BY <1>1 DEF RestIs
<1>. HIDE DEF u
<1>5. /\ m \in Seq(Seq(S)) /\ Len(m) = Len(rest) + 1 /\ m[1] = u /\ Len(rest) \in Nat
      /\ \A i \in 1 .. Len(rest) : m[i + 1] = rest[i]
  BY SMTT(30), <1>3, <1>4, PrecededIs
<1>. HIDE DEF m, c
<1>6. ASSUME Ends(pattern, args, m, n) PROVE fuller = SubSeq(name, j, Len(name))
  <2>1. /\ Len(args) = Stars(pattern, P)
        /\ \A i \in 1 .. Len(m) : args[c + i] = m[i]
    BY <1>6 DEF Ends, c
  <2>2. args[c + 1] = u
    <3>1. 1 \in 1 .. Len(m)
      BY <1>4, <1>5
    <3> QED
      BY <2>1, <3>1, <1>5
  <2>3. ASSUME NEW i \in 1 .. Len(rest) PROVE args[Stars(pattern, P - (n - 1)) + i] = rest[i]
    <3>1. i + 1 \in 1 .. Len(m) /\ c + (i + 1) = (c + 1) + i
      BY <1>2, <1>5
    <3>2. args[c + (i + 1)] = m[i + 1]
      BY <2>1, <3>1
    <3> QED
      BY <1>1, <1>2, <1>5, <3>1, <3>2
  <2>4. Ends(pattern, args, rest, n - 1)
    BY <2>1, <2>3 DEF Ends
  <2>5. Put(pattern, args, k) = u
    BY <2>2, <1>2 DEF Put
  <2> QED
    BY <1>3, <1>4, <2>4, <2>5
<1>7. Len(m) = Stars(pattern, P) - c
  BY SMTT(30), <1>2, <1>4, <1>5
<1>8. RestIs(pattern, name, args, S, n, j, m, fuller)
  <2>. HIDE DEF fuller
  <2> QED
    BY <1>5, <1>6, <1>7 DEF RestIs, c
<1> QED
  BY <1>8 DEF m, u

LEMMA LetterRest ==
    ASSUME NEW S, NEW pattern \in Seq(S), NEW name \in Seq(S), NEW args, NEW n \in 1 .. Len(pattern),
           pattern[Len(pattern) + 1 - n] # Star,
           NEW j \in 1 .. Len(name), name[j] = pattern[Len(pattern) + 1 - n], NEW m, NEW filled,
           RestIs(pattern, name, args, S, n - 1, j + 1, m, filled)
    PROVE  RestIs(pattern, name, args, S, n, j, m, Put(pattern, args, Len(pattern) + 1 - n) \o filled)
<1>. DEFINE P == Len(pattern)
            k == P + 1 - n
            fuller == Put(pattern, args, k) \o filled
<1>1. /\ P \in Nat /\ n \in Nat /\ k \in Nat \ {0} /\ k - 1 = P - n /\ P - (n - 1) = k
  OBVIOUS
<1>2. Stars(pattern, k) = Stars(pattern, P - n)
  BY <1>1, StarsNext
<1>3. <<name[j]>> \o SubSeq(name, j + 1, Len(name)) = SubSeq(name, j, Len(name))
  <2>1. j \in 1 .. Len(name) + 1 /\ j \in j .. Len(name) + 1 /\ j <= Len(name)
    OBVIOUS
  <2> QED
    BY <2>1, JoinSubSeq
<1>4. /\ m \in Seq(Seq(S))
      /\ Len(m) = Stars(pattern, P) - Stars(pattern, k)
      /\ Ends(pattern, args, m, n - 1) => filled = SubSeq(name, j + 1, Len(name))
  BY <1>1 DEF RestIs
<1>5. ASSUME Ends(pattern, args, m, n) PROVE fuller = SubSeq(name, j, Len(name))
  <2>1. Ends(pattern, args, m, n - 1)
    BY <1>1, <1>2, <1>5 DEF Ends
  <2>2. Put(pattern, args, k) = <<name[j]>>
    BY DEF Put
  <2> QED
    BY <1>3, <1>4, <2>1, <2>2
<1>6. Len(m) = Stars(pattern, P) - Stars(pattern, P - n)
  BY <1>2, <1>4
<1>7. RestIs(pattern, name, args, S, n, j, m, fuller)
  <2>. HIDE DEF fuller
  <2> QED
    BY <1>4, <1>5, <1>6 DEF RestIs
<1> QED
  BY <1>7

LEMMA RowAtEnd ==
    ASSUME NEW S, NEW pattern \in Seq(S), NEW name \in Seq(S), NEW args
    PROVE  RowIs(pattern, name, args, S, 0, AtEnd(name), << >>)
<1>1. ASSUME NEW j \in 1 .. Len(name) + 1, NEW m \in AtEnd(name)[j]
      PROVE  RestIs(pattern, name, args, S, 0, j, m, << >>)
  <2>1. j = Len(name) + 1 /\ m = << >>
    <3>1. m \in IF j > Len(name) THEN {<< >>} ELSE {}
      BY <1>1 DEF AtEnd
    <3> QED
      BY <3>1
  <2> QED
    BY <2>1, EndRest
<1> QED
  BY <1>1 DEF RowIs

LEMMA RowStep ==
    ASSUME NEW S, NEW pattern \in Seq(S), NEW name \in Seq(S), NEW args, NEW n \in 1 .. Len(pattern),
           NEW row, NEW filled, RowIs(pattern, name, args, S, n - 1, row, filled)
    PROVE  RowIs(pattern, name, args, S, n, Matched(pattern, name, row, n), Longer(pattern, args, filled, n))
<1>. DEFINE letter == pattern[Len(pattern) + 1 - n]
            longer == Longer(pattern, args, filled, n)
            next == Matched(pattern, name, row, n)
<1>1. ASSUME NEW j \in 1 .. Len(name) + 1, NEW m \in next[j]
      PROVE  RestIs(pattern, name, args, S, n, j, m, longer)
  <2>. DEFINE fits == {k \in j .. Len(name) + 1 : row[k] # {}}
              least == {k \in fits : \A l \in fits : k <= l}
  <2>1. m \in IF letter = Star
              THEN UNION {{<<SubSeq(name, j, k - 1)>> \o r : r \in row[k]} : k \in least}
              ELSE IF j <= Len(name) /\ name[j] = letter THEN row[j + 1] ELSE {}
    BY <1>1 DEF Matched, MatchLetter
  <2>2. CASE letter = Star
    <3>1. PICK l \in least : m \in {<<SubSeq(name, j, l - 1)>> \o r : r \in row[l]}
      BY <2>1, <2>2
    <3>2. PICK rest \in row[l] : m = <<SubSeq(name, j, l - 1)>> \o rest
      BY <3>1
    <3>3. l \in j .. Len(name) + 1 /\ l \in 1 .. Len(name) + 1
      OBVIOUS
    <3>4. RestIs(pattern, name, args, S, n - 1, l, rest, filled)
      BY <3>3 DEF RowIs
    <3> QED
      BY <2>2, <3>2, <3>3, <3>4, StarRest DEF Longer
  <2>3. CASE letter # Star
    <3>1. j <= Len(name) /\ name[j] = letter /\ m \in row[j + 1]
      BY <2>1, <2>3
    <3>2. j \in 1 .. Len(name) /\ j + 1 \in 1 .. Len(name) + 1
      BY <3>1
    <3>3. RestIs(pattern, name, args, S, n - 1, j + 1, m, filled)
      BY <3>1, <3>2 DEF RowIs
    <3> QED
      BY <2>3, <3>1, <3>2, <3>3, LetterRest DEF Longer
  <2> QED
    BY <2>2, <2>3
<1>. HIDE DEF next, longer
<1>2. RowIs(pattern, name, args, S, n, next, longer)
  BY <1>1 DEF RowIs
<1> QED
  BY <1>2 DEF next, longer

LEMMA RowsAre ==
    ASSUME NEW S, NEW pattern \in Seq(S), NEW name \in Seq(S), NEW args
    PROVE  \A m \in Match(pattern, name) :
             RestIs(pattern, name, args, S, Len(pattern), 1, m, Filled(pattern, args))
<1>. DEFINE P == Len(pattern)
<1>1. P \in Nat /\ 1 \in 1 .. Len(name) + 1
  OBVIOUS
<1>2. PICK f : MatchedIn(f, pattern, name, P) /\ Match(pattern, name) = f[P][1]
  BY <1>1, MatchByLoop
<1>3. PICK g : FilledIn(g, pattern, args, P) /\ Filled(pattern, args) = g[P]
  BY <1>1, FilledByLoop
<1>4. f[0] = AtEnd(name)
  BY <1>1, <1>2 DEF MatchedIn
<1>5. ASSUME NEW i \in 1 .. P PROVE f[i] = Matched(pattern, name, f[i - 1], i)
  BY <1>1, <1>2, MatchedAt
<1>6. g[0] = << >>
  BY <1>1, <1>3, FilledAt
<1>7. ASSUME NEW i \in 1 .. P PROVE g[i] = Longer(pattern, args, g[i - 1], i)
  BY <1>1, <1>3, FilledAt
<1>. DEFINE Right(n) == RowIs(pattern, name, args, S, n, f[n], g[n])
            Wrongs == {n \in 0 .. P : ~Right(n)}
<1>8. Wrongs = {}
  <2>. SUFFICES ASSUME Wrongs # {} PROVE FALSE
    OBVIOUS
  <2>1. Wrongs \in SUBSET Nat
    OBVIOUS
  <2>. HIDE DEF Wrongs
  <2>2. PICK n \in Wrongs : \A k \in Wrongs : ~ (k < n)
    BY <2>1, LeastNat
  <2>. USE DEF Wrongs
  <2>3. n \in 0 .. P /\ ~Right(n)
    OBVIOUS
  <2>4. n # 0
    BY <1>4, <1>6, <2>3, RowAtEnd
  <2>5. n \in 1 .. P /\ n - 1 \in 0 .. P /\ n - 1 < n
    BY <2>3, <2>4
  <2>6. Right(n - 1)
    BY <2>2, <2>5
  <2>7. RowIs(pattern, name, args, S, n, Matched(pattern, name, f[n - 1], n), Longer(pattern, args, g[n - 1], n))
    BY <2>5, <2>6, RowStep
  <2> QED
    BY <1>5, <1>7, <2>3, <2>5, <2>7
<1>9. Right(P)
  <2>1. P \in 0 .. P
    BY <1>1
  <2> QED
    BY <1>8, <2>1
<1> QED
  BY <1>1, <1>2, <1>3, <1>9 DEF RowIs

(* What a pattern has matched of a name is one argument for each star, and *)
(* these make the name again.                                              *)
LEMMA MatchIs ==
    ASSUME NEW S, NEW pattern \in Seq(S), NEW name \in Seq(S), NEW m \in Match(pattern, name)
    PROVE  /\ Len(m) = Stars(pattern, Len(pattern))
           /\ Filled(pattern, m) = name
<1>1. RestIs(pattern, name, m, S, Len(pattern), 1, m, Filled(pattern, m))
  BY RowsAre
<1>2. Len(pattern) \in Nat /\ Len(pattern) - Len(pattern) = 0
  OBVIOUS
<1>3. /\ Stars(pattern, Len(pattern)) \in Nat /\ Stars(pattern, Len(pattern) - Len(pattern)) = 0
  BY <1>2, StarsAre
<1>4. Len(m) = Stars(pattern, Len(pattern))
  BY <1>1, <1>3 DEF RestIs
<1>5. Ends(pattern, m, m, Len(pattern))
  <2>1. m \in Seq(Seq(S))
    BY <1>1 DEF RestIs
  <2>2. \A i \in 1 .. Len(m) : 0 + i = i
    BY <2>1
  <2> QED
    BY <1>3, <1>4, <2>2 DEF Ends
<1>6. Filled(pattern, m) = SubSeq(name, 1, Len(name))
  BY <1>1, <1>5 DEF RestIs
<1> QED
  BY <1>4, <1>6, SubSeqFull

(* The wrapper that is found, and what the wrappers hold.                  *)

LEMMA ForemostIn ==
    ASSUME NEW T \in SUBSET Nat, T # {}
    PROVE  Foremost(T) \in T
<1>1. PICK n \in T : \A l \in T : ~ (l < n)
  BY LeastNat
<1>2. n \in Nat /\ \A l \in T : l \in Nat
  OBVIOUS
<1>3. \A l \in T : n <= l
  BY <1>1, <1>2
<1>4. \E k \in T : \A l \in T : k <= l
  BY <1>3
<1> QED
  BY <1>4, Zenon DEF Foremost

ExactlyFound(registered, name, found) ==
    /\ found.wrapper \in DOMAIN registered
    /\ found.matches = {}
    /\ registered[found.wrapper] = name

DynamicallyFound(registered, name, found) ==
    /\ found.wrapper \in DOMAIN registered
    /\ \A k \in DOMAIN registered : registered[k] # name
    /\ found.matches = Match(registered[found.wrapper], name)
    /\ found.matches # {}
    /\ IsDynamic(registered[found.wrapper])

LEMMA FoundIs ==
    ASSUME NEW registered \in Registers, NEW name \in Called
    PROVE  \/ ExactlyFound(registered, name, getCallable(registered, name))
           \/ DynamicallyFound(registered, name, getCallable(registered, name))
<1>. DEFINE exact == {k \in DOMAIN registered : registered[k] = name}
            fits == {k \in DOMAIN registered : IsDynamic(registered[k]) /\ Match(registered[k], name) # {}}
            found == getCallable(registered, name)
<1>1. exact \in SUBSET Nat /\ fits \in SUBSET Nat /\ found.wrapper # 0
  <2>1. registered \in Seq({registered[k] : k \in DOMAIN registered}) /\ found.wrapper # 0
    BY DynamicCallsAssumption
  <2>2. DOMAIN registered \subseteq Nat
    <3>. HIDE DEF found
    <3> QED
      BY <2>1
  <2> QED
    BY <2>1, <2>2
<1>2. CASE exact # {}
  <2>1. found = [wrapper |-> Foremost(exact), matches |-> {}]
    BY <1>2 DEF getCallable
  <2>2. Foremost(exact) \in exact
    BY <1>1, <1>2, ForemostIn
  <2>. HIDE DEF found
  <2>3. found.wrapper = Foremost(exact) /\ found.matches = {}
    BY <2>1
  <2> QED
    BY <2>2, <2>3 DEF ExactlyFound, found
<1>3. CASE exact = {} /\ fits # {}
  <2>1. found = [wrapper |-> Foremost(fits), matches |-> Match(registered[Foremost(fits)], name)]
    BY <1>3 DEF getCallable
  <2>2. Foremost(fits) \in fits
    BY <1>1, <1>3, ForemostIn
  <2>. HIDE DEF found
  <2>3. found.wrapper = Foremost(fits) /\ found.matches = Match(registered[Foremost(fits)], name)
    BY <2>1
  <2> QED
    BY <1>3, <2>2, <2>3 DEF DynamicallyFound, found
<1>4. CASE exact = {} /\ fits = {}
  <2>1. found = [wrapper |-> 0, matches |-> {}]
    BY <1>4 DEF getCallable
  <2> QED
    BY <1>1, <2>1
<1> QED
  BY <1>2, <1>3, <1>4

(* Wrappers whose name is no pattern are given nothing: this is why a call *)
(* that finds one by its exact name passes nothing.                        *)
HoldsOnlyMatches(registered, held) ==
    /\ registered \in Registers
    /\ DOMAIN held = DOMAIN registered
    /\ \A k \in DOMAIN registered : ~IsDynamic(registered[k]) => held[k] = << >>

LEMMA HeldIs ==
    ASSUME NEW c, NEW name \in Called, HoldsOnlyMatches(c.registered, c.held)
    PROVE  LET found == getCallable(c.registered, name)
           IN  /\ HoldsOnlyMatches(c.registered, Held(c, found))
               /\ DynamicallyFound(c.registered, name, found) => Held(c, found)[found.wrapper] \in found.matches
<1>. DEFINE found == getCallable(c.registered, name)
            held == Held(c, found)
            D == DOMAIN c.registered
<1>1. /\ c.registered \in Registers
      /\ \A k \in D : ~IsDynamic(c.registered[k]) => c.held[k] = << >>
  BY DEF HoldsOnlyMatches
<1>2. \/ ExactlyFound(c.registered, name, found)
      \/ DynamicallyFound(c.registered, name, found)
  BY <1>1, FoundIs
<1>. HIDE DEF found
<1>3. /\ DOMAIN held = D
      /\ \A k \in D : k = found.wrapper /\ found.matches # {} => held[k] \in found.matches
      /\ \A k \in D : ~ (k = found.wrapper /\ found.matches # {}) => held[k] = c.held[k]
  BY DEF Held
<1>. HIDE DEF held
<1>4. ASSUME NEW k \in D, ~IsDynamic(c.registered[k]) PROVE held[k] = << >>
  <2>1. ~ (k = found.wrapper /\ found.matches # {})
    BY <1>2, <1>4 DEF ExactlyFound, DynamicallyFound
  <2> QED
    BY <1>1, <1>3, <1>4, <2>1
<1>5. HoldsOnlyMatches(c.registered, held)
  BY <1>1, <1>3, <1>4 DEF HoldsOnlyMatches
<1>6. DynamicallyFound(c.registered, name, found) => held[found.wrapper] \in found.matches
  BY <1>3 DEF DynamicallyFound
<1> QED
  BY <1>5, <1>6 DEF held, found

(* What CallsKeepArguments says of a call.                                 *)
Keeps(registered, name, wrapper, arguments) ==
    IF \E k \in DOMAIN registered : registered[k] = name
    THEN registered[wrapper] = name /\ arguments = << >>
    ELSE /\ IsDynamic(registered[wrapper])
         /\ Len(arguments) = Stars(registered[wrapper], Len(registered[wrapper]))
         /\ Filled(registered[wrapper], arguments) = name

LEMMA CompiledKeeps ==
    ASSUME NEW c, NEW name \in Called, HoldsOnlyMatches(c.registered, c.held)
    PROVE  LET found == getCallable(c.registered, name)
           IN  Keeps(c.registered, name, found.wrapper, Held(c, found)[found.wrapper])
<1>. DEFINE registered == c.registered
            found == getCallable(registered, name)
            held == Held(c, found)
            w == found.wrapper
<1>1. registered \in Registers
  BY DEF HoldsOnlyMatches
<1>2. \/ ExactlyFound(registered, name, found)
      \/ DynamicallyFound(registered, name, found)
  BY <1>1, FoundIs
<1>3. /\ HoldsOnlyMatches(registered, held)
      /\ DynamicallyFound(registered, name, found) => held[w] \in found.matches
  BY HeldIs
<1>. HIDE DEF registered, found, held
<1>4. CASE ExactlyFound(registered, name, found)
  <2>1. w \in DOMAIN registered /\ registered[w] = name
    BY <1>4 DEF ExactlyFound
  <2>2. ~IsDynamic(name)
    BY DynamicCallsAssumption
  <2>3. held[w] = << >>
    BY <1>3, <2>1, <2>2 DEF HoldsOnlyMatches
  <2> QED
    BY <2>1, <2>3 DEF Keeps, registered, found, held
<1>5. CASE DynamicallyFound(registered, name, found)
  <2>. DEFINE pattern == registered[w]
              A == {pattern[j] : j \in DOMAIN pattern}
              B == {name[j] : j \in DOMAIN name}
              m == held[w]
  <2>1. /\ w \in DOMAIN registered /\ ~ \E k \in DOMAIN registered : registered[k] = name
        /\ IsDynamic(pattern) /\ m \in Match(pattern, name)
    BY <1>3, <1>5 DEF DynamicallyFound
  <2>2. pattern \in Seq(A) /\ name \in Seq(B)
    BY <1>1, <2>1, DynamicCallsAssumption
  <2>. HIDE DEF pattern, A, B, m
  <2>3. pattern \in Seq(A \cup B) /\ name \in Seq(A \cup B)
    BY <2>2
  <2>4. Len(m) = Stars(pattern, Len(pattern)) /\ Filled(pattern, m) = name
    BY <2>1, <2>3, MatchIs
  <2> QED
    BY <2>1, <2>4 DEF Keeps, registered, found, held, pattern, m
<1> QED
  BY <1>2, <1>4, <1>5

-----------------------------------------------------------------------------
(* The inductive invariant: the wrappers hold only what they have matched. *)

HeldInv ==
    /\ call.of \in {"registered", "compiled"} => HoldsOnlyMatches(call.registered, call.held)
    /\ call.of = "registered" => call = [of |-> call.of, registered |-> call.registered, held |-> call.held]
    /\ call.of = "compiled" =>
         call = [of |-> call.of, registered |-> call.registered, held |-> call.held,
                 name |-> call.name, wrapper |-> call.wrapper, arguments |-> call.arguments]

CallInv ==
    /\ HeldInv
    /\ call.of = "compiled" => Keeps(call.registered, call.name, call.wrapper, call.arguments)

LEMMA RegisteringHolds == Registering => CallInv'
<1>. SUFFICES ASSUME Registering PROVE CallInv'
  OBVIOUS
<1>1. PICK registered \in Registers :
        call' = [of |-> "registered", registered |-> registered, held |-> [k \in DOMAIN registered |-> << >>]]
  BY DEF Registering
<1>. DEFINE held == [k \in DOMAIN registered |-> << >>]
<1>2. HoldsOnlyMatches(registered, held)
  BY DEF HoldsOnlyMatches
<1>. HIDE DEF held
<1>3. call' = [of |-> "registered", registered |-> registered, held |-> held]
  BY <1>1 DEF held
<1>4. call'.of = "registered" /\ call'.registered = registered /\ call'.held = held
  BY <1>3
<1> QED
  BY <1>2, <1>3, <1>4 DEF CallInv, HeldInv

LEMMA AskingHolds == CallInv /\ Asking => CallInv'
<1>. SUFFICES ASSUME CallInv, Asking PROVE CallInv'
  OBVIOUS
<1>1. PICK name \in Called : call' = [call EXCEPT !.held = Held(call, getCallable(call.registered, name))]
  BY DEF Asking
<1>. DEFINE held == Held(call, getCallable(call.registered, name))
<1>2. call.of \in {"registered", "compiled"}
  BY DEF Asking
<1>3. HoldsOnlyMatches(call.registered, call.held)
  BY <1>2 DEF CallInv, HeldInv
<1>4. HoldsOnlyMatches(call.registered, held)
  BY <1>3, HeldIs
<1>5. call' = [call EXCEPT !.held = held]
  BY <1>1
<1>. HIDE DEF held
<1>6. CASE call.of = "registered"
  <2>1. call = [of |-> call.of, registered |-> call.registered, held |-> call.held]
    BY <1>6 DEF CallInv, HeldInv
  <2>2. call' = [of |-> call.of, registered |-> call.registered, held |-> held]
    BY <1>5, <2>1
  <2>3. call'.of = "registered" /\ call'.registered = call.registered /\ call'.held = held
    BY <1>6, <2>2
  <2> QED
    BY <1>4, <1>6, <2>2, <2>3 DEF CallInv, HeldInv
<1>7. CASE call.of = "compiled"
  <2>1. /\ call = [of |-> call.of, registered |-> call.registered, held |-> call.held,
                   name |-> call.name, wrapper |-> call.wrapper, arguments |-> call.arguments]
        /\ Keeps(call.registered, call.name, call.wrapper, call.arguments)
    BY <1>7 DEF CallInv, HeldInv
  <2>2. call' = [of |-> call.of, registered |-> call.registered, held |-> held,
                 name |-> call.name, wrapper |-> call.wrapper, arguments |-> call.arguments]
    BY <1>5, <2>1
  <2>3. /\ call'.of = "compiled" /\ call'.registered = call.registered /\ call'.held = held
        /\ call'.name = call.name /\ call'.wrapper = call.wrapper /\ call'.arguments = call.arguments
    BY <1>7, <2>2
  <2> QED
    BY <1>4, <1>7, <2>1, <2>2, <2>3 DEF CallInv, HeldInv
<1> QED
  BY <1>2, <1>6, <1>7

LEMMA CompilingHolds == CallInv /\ Compiling => CallInv'
<1>. SUFFICES ASSUME CallInv, Compiling PROVE CallInv'
  OBVIOUS
<1>1. PICK name \in Called : call' = CompileCall(call, name)
  BY DEF Compiling
<1>. DEFINE found == getCallable(call.registered, name)
            held == Held(call, found)
            w == found.wrapper
            arguments == held[w]
<1>2. HoldsOnlyMatches(call.registered, call.held)
  BY DEF Compiling, CallInv, HeldInv
<1>3. HoldsOnlyMatches(call.registered, held)
  BY <1>2, HeldIs
<1>4. Keeps(call.registered, name, w, arguments)
  BY <1>2, CompiledKeeps
<1>5. call' = [of |-> "compiled", registered |-> call.registered, held |-> held,
               name |-> name, wrapper |-> w, arguments |-> arguments]
  BY <1>1 DEF CompileCall
<1>. HIDE DEF found, held, w, arguments
<1>6. /\ call'.of = "compiled" /\ call'.registered = call.registered /\ call'.held = held
      /\ call'.name = name /\ call'.wrapper = w /\ call'.arguments = arguments
  BY <1>5
<1> QED
  BY <1>3, <1>4, <1>5, <1>6 DEF CallInv, HeldInv

(* A call of a dynamic filter passes what its own name has matched, one    *)
(* argument for each star, for any names that are registered and called,   *)
(* in whatever order; a filter of the exact name comes first and is passed *)
(* nothing (TwingExtensionSet.getFilter, TwingNodeExpressionFilter.compile). *)
THEOREM CallsAreTheirOwn == CompilingSpec => []CallsKeepArguments
<1>1. ASSUME call.of \notin {"registered", "compiled"} PROVE CallInv
  BY <1>1 DEF CallInv, HeldInv
<1>2. ASSUME Registering PROVE CallInv'
  BY <1>2, RegisteringHolds
<1>3. ASSUME CallInv, Asking PROVE CallInv'
  BY <1>3, AskingHolds
<1>4. ASSUME CallInv, Compiling PROVE CallInv'
  BY <1>4, CompilingHolds
<1>5. ASSUME call'.of \notin {"registered", "compiled"} PROVE CallInv'
  BY <1>5 DEF CallInv, HeldInv
<1>6. ASSUME CallInv, UNCHANGED call PROVE CallInv'
  BY <1>6 DEF CallInv, HeldInv
<1>7. CallInv => CallsKeepArguments
  BY DEF CallInv, CallsKeepArguments, Keeps
<1> QED
  BY <1>1, <1>2, <1>3, <1>4, <1>5, <1>6, <1>7, PTL DEF CompilingSpec
=============================================================================
