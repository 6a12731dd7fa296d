---------------------------- MODULE Environment -----------------------------
(* The state that all the renders of an environment share: the extension     *)
(* set, the sandboxed flag and the current source map node, of which the     *)
(* model keeps the path from the root. A render is a stack of templates,     *)
(* each included by the one below. What a template does is not fixed: a      *)
(* failure, an include with the tag or the function, a sandbox tag; a text   *)
(* begins and ends a block at once. JavaScript runs one render at a time and *)
(* changes to another one only where the code awaits: "thread" is the one    *)
(* that runs. Source maps are on.                                            *)
EXTENDS ExtensionSet

CONSTANTS
  Renders,      \* the renders, each is started once
  MaxDepth,     \* the templates of a render in progress
  MaxSteps      \* the things all templates do

VARIABLES
  sandboxed,   \* TwingEnvironment.sandboxed
  path,        \* TwingEnvironment.sourceMapNode and its parents, the root first
  frames,      \* the templates of each render
  outcome,     \* "waiting", "running", "fulfilled" or "rejected"
  thread,      \* the render that runs, or none
  steps,
  past         \* history: see Past

runtimeVars == <<sandboxed, path, frames, outcome, thread, steps, past>>
vars == <<extensionVars, runtimeVars>>

NoRender == "none"

\* What the properties remember: the path there was when a render began, whether
\* another render has overlapped it, and whether an error went through something
\* that does not restore the flag.
NoPast == [path |-> << >>, overlapped |-> FALSE]

Init ==
  /\ InitExtensions
  /\ sandboxed = FALSE
  /\ path = << >>
  /\ frames = [r \in Renders |-> << >>]
  /\ outcome = [r \in Renders |-> "waiting"]
  /\ thread = NoRender
  /\ steps = 0
  /\ past = [of |-> [r \in Renders |-> NoPast], leaked |-> FALSE]

-----------------------------------------------------------------------------
(* Source map blocks and the sandboxed flag *)

enterSourceMapBlock(r) == path' = Append(path, r)

\* A mutant of leaveSourceMapBlock: there is no current node after the root.
leaveSourceMapBlockAlways == path' = Front(path)

\* The current node gets its content; the root stays the current node.
leaveSourceMapBlock == path' = IF Len(path) > 1 THEN Front(path) ELSE path

\* A mutant of restoreSandbox: an include in a sandboxed one ends both.
restoreSandboxAlways(f) == sandboxed' = (sandboxed /\ ~f.sandboxed)

\* A mutant of restoreSandbox: include puts back what it has read.
restoreSandboxToFound(f) == sandboxed' = IF f.sandboxed THEN f.already ELSE sandboxed

\* include restores what it has changed.
restoreSandbox(f) == sandboxed' = (sandboxed /\ ~(f.sandboxed /\ ~f.already))

-----------------------------------------------------------------------------
(* Renders *)

\* A template: how it is included, its stage, whether a print contains the
\* include it waits for and the flag its sandbox tag has found.
Frame(isSandboxed, ignoreMissing) ==
  [stage |-> "resolve", sandboxed |-> isSandboxed, already |-> sandboxed, ignoreMissing |-> ignoreMissing,
   print |-> FALSE, tag |-> << >>]

Top(r) == Last(frames[r])
IsAt(r, stage) == frames[r] # << >> /\ Top(r).stage = stage
WithTop(r, f) == [frames EXCEPT ![r] = Append(Front(@), f)]
To(r, stage) == frames' = WithTop(r, [Top(r) EXCEPT !.stage = stage])
Running(r) == thread = r /\ IsAt(r, "run") /\ steps < MaxSteps
Step == steps' = steps + 1
Free == thread = NoRender

\* Registration is over when the first render begins: the first one to compile a
\* template initialises the set.
Register ==
  /\ \A r \in Renders : outcome[r] = "waiting"
  /\ \/ \E e \in DOMAIN Provides : addExtension(e)
     \/ \E d \in Direct : addDefinition(d)
     \/ initExtensions
  /\ UNCHANGED runtimeVars

Render(r) ==
  /\ Free /\ outcome[r] = "waiting"
  /\ outcome' = [outcome EXCEPT ![r] = "running"]
  /\ frames' = [frames EXCEPT ![r] = <<Frame(FALSE, FALSE)>>]
  /\ LET others == {s \in Renders : outcome[s] = "running"}
     IN  past' = [past EXCEPT !.of = [s \in Renders |->
                    IF s = r THEN [path |-> path, overlapped |-> others # {}]
                    ELSE IF s \in others THEN [@[s] EXCEPT !.overlapped = TRUE] ELSE @[s]]]
  /\ UNCHANGED <<extensionVars, sandboxed, path, thread, steps>>

\* resolveTemplate fulfils: the template has been compiled, for which the
\* extension set is asked, now or before.
Resolve(r) ==
  /\ Free /\ IsAt(r, "resolve")
  /\ Ask
  /\ IF initialized' THEN To(r, "display") ELSE To(r, "failed")
  /\ UNCHANGED <<sandboxed, path, outcome, thread, steps, past>>

\* It rejects because no template was found, or for any other reason.
Missing(r) ==
  /\ Free /\ IsAt(r, "resolve")
  /\ IF Top(r).ignoreMissing THEN restoreSandbox(Top(r)) /\ To(r, "return")
                             ELSE UNCHANGED sandboxed /\ To(r, "failed")
  /\ UNCHANGED <<extensionVars, path, outcome, thread, steps, past>>

\* doDisplay
Display(r) ==
  /\ Free /\ IsAt(r, "display")
  /\ enterSourceMapBlock(r)
  /\ To(r, "run")
  /\ thread' = r
  /\ UNCHANGED <<extensionVars, sandboxed, outcome, steps, past>>

Waiting(r, f, print) ==
  frames' = [frames EXCEPT ![r] = Append(Append(Front(@), [Top(r) EXCEPT !.stage = "await", !.print = print]), f)]

\* {{ include() }}: the flag is read, and set, before the first await.
IncludeFunction(r) ==
  /\ Running(r) /\ Top(r).tag = << >> /\ Len(frames[r]) < MaxDepth
  /\ enterSourceMapBlock(r)
  /\ \E isSandboxed, ignoreMissing \in BOOLEAN :
       /\ Waiting(r, Frame(isSandboxed, ignoreMissing), TRUE)
       /\ sandboxed' = (sandboxed \/ isSandboxed)
  /\ thread' = NoRender /\ Step
  /\ UNCHANGED <<extensionVars, outcome, past>>

\* {{ include(nothing) }}, where nothing is an empty list, null or something without
\* values: resolveTemplate, or the spread before it, throws instead of rejecting, and
\* include has not got to the promise whose catch restores the flag.
IncludeNothing(r) ==
  /\ Running(r) /\ Top(r).tag = << >> /\ Len(frames[r]) < MaxDepth
  /\ enterSourceMapBlock(r)
  /\ \E isSandboxed \in BOOLEAN :
       /\ sandboxed' = (sandboxed \/ isSandboxed)
       /\ past' = [past EXCEPT !.leaked = @ \/ (isSandboxed /\ ~sandboxed)]
  /\ To(r, "failed")
  /\ thread' = NoRender /\ Step
  /\ UNCHANGED <<extensionVars, outcome>>

\* {% include %} has no block and no sandboxed parameter.
IncludeTag(r) ==
  /\ Running(r) /\ Len(frames[r]) < MaxDepth
  /\ \E ignoreMissing \in BOOLEAN : Waiting(r, Frame(FALSE, ignoreMissing), FALSE)
  /\ UNCHANGED path
  /\ thread' = NoRender /\ Step
  /\ UNCHANGED <<extensionVars, sandboxed, outcome, past>>

\* {% sandbox %} is an async function of its own, that is awaited.
EnterSandbox(r) ==
  /\ Running(r) /\ Top(r).tag = << >>
  /\ frames' = WithTop(r, [Top(r) EXCEPT !.tag = <<sandboxed>>])
  /\ sandboxed' = TRUE
  /\ UNCHANGED path /\ Step
  /\ UNCHANGED <<extensionVars, outcome, thread, past>>

LeaveSandbox(r) ==
  /\ thread = r /\ IsAt(r, "run") /\ Top(r).tag # << >>
  /\ frames' = WithTop(r, [Top(r) EXCEPT !.tag = << >>, !.stage = "continue"])
  /\ sandboxed' = (sandboxed /\ Top(r).tag[1])
  /\ thread' = NoRender
  /\ UNCHANGED path
  /\ UNCHANGED <<extensionVars, outcome, steps, past>>

\* An error: of an expression, a filter, a loader.
Throw(r) ==
  /\ Running(r)
  /\ To(r, "failed")
  /\ thread' = NoRender /\ Step
  /\ UNCHANGED path
  /\ UNCHANGED <<extensionVars, sandboxed, outcome, past>>

\* The end of doDisplay.
EndDisplay(r) ==
  /\ thread = r /\ IsAt(r, "run") /\ Top(r).tag = << >>
  /\ leaveSourceMapBlock
  /\ To(r, "return")
  /\ thread' = NoRender
  /\ UNCHANGED <<extensionVars, sandboxed, outcome, steps, past>>

\* The promise of an include, or of the render, is fulfilled.
Return(r) ==
  /\ Free /\ IsAt(r, "return")
  /\ restoreSandbox(Top(r))
  /\ IF Len(frames[r]) = 1
     THEN frames' = [frames EXCEPT ![r] = << >>] /\ outcome' = [outcome EXCEPT ![r] = "fulfilled"]
     ELSE /\ frames' = [frames EXCEPT ![r] = Append(Front(Front(@)), [Last(Front(@)) EXCEPT !.stage = "continue"])]
          /\ UNCHANGED outcome
  /\ UNCHANGED path
  /\ UNCHANGED <<extensionVars, thread, steps, past>>

\* What a template has awaited is there: it echoes it, and ends the block of its
\* print.
Continue(r) ==
  /\ Free /\ IsAt(r, "continue")
  /\ IF Top(r).print THEN leaveSourceMapBlock ELSE UNCHANGED path
  /\ frames' = WithTop(r, [Top(r) EXCEPT !.stage = "run", !.print = FALSE])
  /\ thread' = r
  /\ UNCHANGED <<extensionVars, sandboxed, outcome, steps, past>>

\* A rejection goes to the template below: include restores the flag, the code
\* of a template does not, and nothing leaves the blocks.
Unwind(r) ==
  /\ Free /\ IsAt(r, "failed")
  /\ restoreSandbox(Top(r))
  /\ past' = [past EXCEPT !.leaked = @ \/ Top(r).tag = <<FALSE>>]
  /\ IF Len(frames[r]) = 1
     THEN frames' = [frames EXCEPT ![r] = << >>] /\ outcome' = [outcome EXCEPT ![r] = "rejected"]
     ELSE /\ frames' = [frames EXCEPT ![r] = Append(Front(Front(@)), [Last(Front(@)) EXCEPT !.stage = "failed"])]
          /\ UNCHANGED outcome
  /\ UNCHANGED path
  /\ UNCHANGED <<extensionVars, thread, steps>>

-----------------------------------------------------------------------------

Next ==
  \/ Register
  \/ \E r \in Renders :
       \/ Render(r) \/ Resolve(r) \/ Missing(r) \/ Display(r)
       \/ IncludeFunction(r) \/ IncludeNothing(r) \/ IncludeTag(r) \/ EnterSandbox(r) \/ LeaveSandbox(r)
       \/ Throw(r) \/ EndDisplay(r) \/ Return(r) \/ Continue(r) \/ Unwind(r)

Spec == Init /\ [][Next]_vars

-----------------------------------------------------------------------------
(* Properties *)

Idle == \A r \in Renders : outcome[r] # "running"

\* When no render is in progress the environment is no longer sandboxed, in
\* whatever order the includes of concurrent renders have set and restored the
\* flag and whichever of them failed; unless an error has crossed a sandbox tag
\* or an include of nothing.
FlagRestored == (Idle /\ sandboxed) => past.leaked

\* While a render runs that no other one overlaps, the environment is sandboxed
\* exactly if one of its templates is included in the sandbox, however deep,
\* or has a sandbox tag open.
SandboxFollowsIncludes ==
  \A r \in Renders :
    (outcome[r] = "running" /\ ~past.of[r].overlapped /\ ~past.leaked /\ ~IsAt(r, "return")) =>
      sandboxed = \E i \in DOMAIN frames[r] : frames[r][i].sandboxed \/ frames[r][i].tag # << >>

\* A render that is fulfilled, and that no other one has overlapped, has ended
\* every source map block it has entered and leaves the node that was current
\* before, the root if there was none; even if earlier renders have failed in
\* the middle of theirs.
BlocksEnded ==
  \A r \in Renders :
    (IsAt(r, "return") /\ Len(frames[r]) = 1 /\ ~past.of[r].overlapped) =>
      path = IF past.of[r].path = << >> THEN <<r>> ELSE past.of[r].path
=============================================================================
