# Verification of Twing

Twing is a port of the Twig template engine to TypeScript: an environment loads
a template through a loader, compiles it to a JavaScript module, keeps the module
in a cache, and renders it. Almost everything is asynchronous, most of what is
asynchronous shares state, and little of that is tested with two calls in flight.
This directory holds TLA+ models of the parts where this matters, the TLC runs
that check them, and proofs for TLAPS. Paths below are relative to the
repository; the implementation is in `src/lib` of it.

## The system

| Part | Source | State | Operations | What makes it correct |
| --- | --- | --- | --- | --- |
| Output buffering | `output-buffering.ts` | one static stack of handlers per process | `echo`, `obStart`, `obFlush`, `obEndFlush`, `obClean`, `obEndClean`, `obGetClean`, ... | text moves down the stack once and in order |
| Template rendering | `template.ts`, `node/{set,spaceless,macro,flush,print,text}.ts`, `node/expression/parent.ts` | the stack above; `level` of each render | `render`, `renderBlock`, `renderParentBlock`, captures, macros, flushes, errors | a render resolves with its own text; the stack is given back, also after errors (but those `display` throws synchronously) |
| Block inheritance | `template.ts`, `node/module.ts`, `token-parser/{use,extends,block}.ts` | `blocks`, `traits`, `parent` of each template | `display`, `displayBlock`, `displayParentBlock`, `hasBlock` | each reference displays the definition that overrides the others |
| Template loading | `environment.ts`, `cache/*.ts`, `node/embed.ts` | `loadedTemplates`, the files of the cache, the options hash, the embed counter of the parser | `loadTemplate`, `getTemplateHash`, `registerTemplatesModule`, option setters | the module that is run is that of the source, of the options, of the index asked for |
| Filesystem loader | `loader/filesystem.ts` | `paths`, `cache`, `errorCache` | `findTemplate`, `addPath`, `prependPath`, `setPaths` | the first path that has the file, whatever is cached |
| Chain loader | `loader/chain.ts` | `loaders`, `hasSourceCache` | `exists`, `getSourceContext`, `getCacheKey`, `isFresh`, `resolve`, `addLoader` | the first loader that has the template, if each tells the truth about it |
| Array, null, relative loaders | `loader/{array,null,relative-filesystem}.ts` | a map of templates | the loader interface | - |
| Parser and token parsers | `parser.ts`, `token-parser/*.ts` | a stack of parses; block stack, scopes of imported symbols, traits, embedded templates | `parse`, `subparse`, `parseExpression`, `pushLocalScope`, `embedTemplate`, ... | scopes balance, also after errors; precedence |
| Lexer | the package `twig-lexer`, `token-stream.ts` | a cursor | `expect`, `look`, `next` | external, but for the cursor |
| Compiler, nodes | `compiler.ts`, `node.ts`, `node/**` | the text being generated | `compile`, `subcompile` | what the generated code does is in the models of rendering, inheritance, loading |
| Node visitors | `node-traverser.ts`, `node-visitor/*.ts` | stacks of the escaper, the optimizer, the sandbox | `enterNode`, `leaveNode` | the stacks balance; each expression escaped once |
| Extension set | `extension-set.ts` | registered extensions, lazily initialised tables | `addExtension`, getters, `getFilter(name)` | initialised once and as a whole; a lookup finds what was registered |
| Contexts and loops | `context.ts`, `node/{for,with}.ts`, `helpers/iterate.ts` | the context of each call | `clone`, iteration | a loop gives the outer context back |
| Includes, sandbox flag | `extension/core/functions/include.ts`, `sandbox/*` | the sandboxed flag of the environment | `include`, `enableSandbox` | the flag is what it was, whatever overlaps |
| Source maps | `source-map/**`, `environment.ts` | the current node of a tree | `enterSourceMapBlock`, `leaveSourceMapBlock` | the tree is that of the calls |
| Core extension, helpers | `extension/core/**`, `helpers/*.ts` | none | pure functions: comparison, windows, batches, attributes, `escape` and what is safe | agreement with their definition at the boundaries |

They meet in a few places. `environment.render` loads a template
(`loadTemplate`, which asks the loader for a key, freshness and source, the cache
for a module, and the parser and compiler for a new one) and calls
`template.render`. The code of the template writes to the static output buffer
stack, calls other templates (its parent, traits, includes, embeds) through
`loadTemplate`, and resolves a promise with what it takes off the stack. The
hard behaviours follow from that: steps of two promises between the awaits of
one call over the same stack, caches and maps; errors in the middle of nested
calls that own buffers; a process that ends between the steps of a compilation
whose files survive it; caches that are filled by a search that began before
they were dropped. `PROJECT.json` lists them with their lines under `hazards`.

## The modules

**OutputBuffering** has one operator for each method of
`TwingOutputBuffering`: a function from a state of the stack (`handlers`,
`stdout`) to the next, faithful to the notices the code prints into the buffers
when there is none to end. A chunk of text is one value. **OutputBufferingClient**
makes an action of each method, and calls them in any order.

**TemplateRendering** builds on OutputBuffering. A task is a call of `render`, or
an evaluation of `parent()` in an expression, which the generated code does not
await. Its frames are the nested calls that own a buffer; a step is what runs
between two awaits, so that steps of all tasks interleave. What a template
prints, calls and throws is chosen freely: the model covers every template. There
are two kinds of errors. One in the code of a template goes through the `catch` of
`render` (`Throw`, `Unwind`). One that `display` throws before it has returned a
promise, for a context that is null or that cannot be read, comes after `obStart`
and before that `catch` is attached (`Refuse`): the caller sees a rejected render,
and its buffer stays. `Ground` is the level of the program with these buffers.
`text` and `own` are history variables: what the code of a frame has written.
`Serial` restricts a program to renders awaited one after the other, `MayThrow =
FALSE` one to renders without errors.

**TemplateLoading** is `loadTemplate` for one template that embeds another: the
program counter of a job goes through hash, stat, fresh, load, read, write,
rename, reload, register as the promise chain of the code does, for a filesystem
or array loader, with or without a cache on disk, with or without `auto_reload`.
The clock counts ticks, of which a millisecond has several: the filesystem loader
compares the time of the source in whole milliseconds (`GetTime`) with the time of
the module, which has a fraction. `close` is a history variable: the source that
`isFresh` saw was written less than a millisecond after the module.
The source is edited, the options change, the clock ticks, the process restarts
(the files of the cache survive, the memory and the embed counter do not) in
between. `Quiet` restricts edits and option changes to moments without a load in
flight; restarts and failures of the file system are never restricted.

**FilesystemLoader** is `findTemplate` for one name. Lookups walk an array of
paths, one stat per step; `addPath` and `prependPath` change that array in place
and `setPaths` installs another one, as the code does, so `arrays` and `current`
model the references. `Quiet` restricts changes to moments without a lookup,
`EmptyPaths` says whether `setPaths([])` is called.

**ChainLoader** is the walk of every method of the chain over its loaders for one
name, with the cache that `exists` keeps. `getSourceContext`, `getCacheKey` and
`isFresh` have the same control flow and are the operation `get`. A loader is asked
in one step, and its `exists` tells the truth. A chain as a loader of a chain is
left out: its `exists` answers from a cache that is wrong for a while
(`chain.ts:71`).

**BlockInheritance** displays a library: a set of templates with parents, traits
(`use ... with ... as`), bodies and blocks whose code refers to blocks. The maps
of blocks are passed on and merged as the code does; `useBlocks` is `use`. Beside
them stands what the documentation says (`Definition`, `InheritedBy`,
`Overridden`), written without any map being passed: the history fields
`expected` and `root` of a frame relate the two. The state of the display is the
stack of the promises it awaits. It is the one module here with liveness.
`LibraryAssumption` names what it asks of a program: no template extends or uses
itself, directly or through others, and no target of a `use` is given a name that
the same or a later target is renamed from.

**RenderService** is the abstract specification of rendering: each render has a
text of its own, which its template appends to, hands down when a flush tag says
so, and which the promise resolves with as a whole, or drops; a render that is
refused leaves the program a buffer. Nothing is stacked for a render and there are
no nested calls. `TemplateRendering!Service` instantiates it with
the text of the outermost frame for the text of a render, and the stack below the
level that the render found for the buffers of the program.

**Parser** is `TwingParser` as a state machine: its fields, the stack `parse`
saves them on, and one action for each tag (two for a tag with a body, which
calls `subparse` in between). The tokens are the environment of the machine: at
each turn of `subparse` any construct may come, or a token that nobody accepts;
an error leaves the fields as they are, and the next `parse` starts from there.
`pending` are the calls of `subparse` that wait for their end tag, which is what
the properties compare the fields with.

**ExpressionParser**, **NodeVisitors**, **Values** and **Contexts** are pure: the
precedence climbing of `parseExpression` with all it calls; the escaper with the
safe analysis, the optimizer, the sandbox and the macro visitors over small
trees, in the order of their priorities; the helpers on values (`compare`,
`getAttribute`); what `for`, `with` and `set` do to a context. **DynamicCalls**
is how a call finds its filter, and what it passes for the stars of a dynamic
one: it is `getFilter` with the arguments its wrapper is left with, which all
calls share. It is a state machine, because calls are compiled one after the
other, operands after the call they are operands of, and the parser and running
templates ask for wrappers between two of them. **Arguments** is the last step of
a call: `getArguments` puts what is given, positional or named, in the places of
the parameters, by names in snake case (`normalizeName`, a constant function).
**Slices** is the map, with `set`, and the loop of the slice filter over one;
**Arrangements**, which extends it, is `chunk` with `fill`, `merge`, `reverse`
and `asort`, each with the loops of the code; `StringOrder` is the order of
values as strings, which `sort` without a comparison uses, and the sort is taken
to be stable, as that of Node is since version 11. These four are modules of
their own because they are proved about; **LastCall** is the variable they share.
**Algorithms** calls each algorithm once on any of its inputs (and those of
DynamicCalls in any order), and states what it should have returned next to it: a
tree written and parsed, a set of ways through an expression with how often each
escapes, the table of loose equality, windows as sets of positions, a store of
scopes.

**ExtensionSet** is the registration of extensions and single definitions, and
the initialisation by the first getter. `ExtensionSetAssumption` asks that an
extension gives no node visitor twice and that none is called by the name that
stands for the set's own definitions. **Environment** extends it by what the
renders of an environment share: the sandboxed flag and the current source map
node. A render is a stack of templates, each included by the one below; `thread`
is the render that runs, and another one runs only where the code awaits.

The restrictions (`Serial`, `Quiet`, `EmptyPaths`, the library in
BlockInheritance) are constants and not guards hidden in actions. Each stands
for something a program has to refrain from, see "What the restrictions
exclude".

## The runs

| Run | Bounds | What it shows |
| --- | --- | --- |
| `output_buffering` | 3 chunks, 3 buffers, 1 notice | `NothingLost`, `OnlyTopBuffersTouched` for any sequence of calls. Each method looks at no more than the two topmost buffers: a third one shows that those below are left alone. |
| `rendering_serial` | 2 renders, 3 frames, 2 chunks each, one buffer of the program below | each render resolves with its text, owns exactly its buffers, gives the level back after errors, leaves exactly one buffer when `display` refuses it, and never takes from the buffer below; and `ImplementsService`, which is all of that in one. Three frames are the least where an error crosses a call that does not clean up between two that do. |
| `rendering_interleaved` | 2 renders, 2 frames | fails: see findings |
| `loading_quiet` | 2 renders, 2 options, 1 edit, 1 option change, 1 restart, a clock of 3 ticks, 2 in a millisecond, every configuration | two loads of the same template at once, with crashes and failures between any two steps: the source is current (but after an edit within a millisecond of the write of the module, see below), the stores match the hashes, an embed tag gets the template embedded in its own module. Two loads suffice for every pair of steps; three ticks for an edit before, at the time of, and after the write of a module, in its millisecond and in the next. |
| `loader_paths` | 2 lookups, 3 directories (one missing), 2 paths, 3 changes, 1 change of a file | the caches agree with a fresh search, every lookup ends with the first path that has the file, and `setPaths` that throws half way leaves nothing stale. |
| `chain_concurrent` | an array loader, a filesystem loader and one of the program, 2 calls, 1 change of a template | concurrent calls: a get ends with the first loader that has the template, a walk of `exists` answers right, and what it leaves in its cache is right once it is over. |
| `blocks` | 13824 libraries: a child, its parent, its grandparent and a trait, two block names, aliases, `parent()`, `block(n, t)`, `block(n) is defined` | every reference displays the definition it stands for, the blocks a handler is given are the resolved inheritance, tests agree with displays, and the display ends. Three levels are the least where a template in the middle is both parent and child. |
| `parsing` | 2 parses of 4 constructs together, 4 deep, one block name, one alias | the fields are those of the tags that are open, also after an error; a macro call finds the import its scope sees; embedded templates have indexes of their own; a template only gains. Four tags are an embedded template in a block in another one, with an import; two parses are one after an error. |
| `parsing_names` | as `parsing` | fails: see findings |
| `algorithms` | expressions of two operators of any kind and all texts of four of 15 tokens; 11 algorithms on some 115000 inputs | one property or two for each of the algorithms, see the comments in Algorithms. Two operators meet every precedence and side, three nested sections every way a scope is left, maps of up to five entries and windows from -2 to 4 every boundary. |
| `autoescape_twice` | the templates of `algorithms` | fails: see findings |
| `environment` | 2 renders, 3 templates deep, 3 includes, sandbox tags or errors together; 3 extensions, two that share a name and one that has it for another kind of definition | the set of extensions is whole once it answers; nothing that renders do together leaves the environment sandboxed, but the errors named below; a render that runs alone is sandboxed exactly where its includes say so, and ends the source map blocks it has entered. Two includes that overlap and one of them nested are the least where the flag could be restored to a value that another one has set. |

A type invariant stands in every module with a state machine, as its
documentation and as the first lemma of its proofs; only `loader_paths` checks
one, because there it says that no missing directory is registered. Each
property of a passing run has a mutant, a plausible bug in the code, that breaks
it.

No run checks for deadlock: a program may stop calling, and all bounds stop it in
the end.

**Fairness and liveness.** The only fairness is that of BlockInheritance,
`WF_vars(Next)`: the callbacks of settled promises are run by the event loop, and
a display waits for nothing else (templates are loaded, which `loadTemplate`
answers or rejects). Its libraries have no block that refers to itself, directly
or through others; one that does recurses for ever in the code as in the model.
`MaxDepth` is never reached, or `Terminates` would fail. The other modules only
state safety: what they wait for are stats and writes of the file system, or the
tokens and statements of a template, and nothing in the code bounds or retries
those.

## Findings

Three runs expect a violation. Each quotes in `PROJECT.json` what it contradicts.

- `rendering_interleaved`: two renders in flight share the output buffer stack,
  and one resolves with the other's text.
- `parsing_names`: `parse` resets the counter of generated names and does not
  restore it with the other fields after an embed tag: two `from` or `filter`
  tags around one get the same internal variable.
- `autoescape_twice`: `escape` with a charset counts as safe for the charset
  instead of the strategy, and a conditional in a conditional is escaped as a
  whole: in an autoescape section both are escaped again.
  `NotEscapedTwiceFlat` says that nothing else is.

## What the restrictions exclude

The passing runs and the theorems hold for programs that keep to the
restrictions. What happens to the others, beside the findings above, is in the
models: giving the constants other values shows it.

- In `TemplateRendering`, a render whose context `display` refuses leaves its buffer
  on the stack (`template.ts:363`): `LevelRestored`, `FramesOwnBuffers` and
  `RenderService` count one buffer for each of them, and say that nothing else
  stays. What the next renders hand down with a flush tag goes into that buffer.
- In `TemplateLoading`, `LoadReturnsCurrentSource` excepts a load that found the
  source written less than a millisecond after its module: if the truncated time
  of the source is below the fractional one of the module, `isFresh` says yes
  (`loader/filesystem.ts:180`, `cache/filesystem.ts:92`), and goes on saying it.
- In `ChainLoader`, no loader is a chain itself. The inner one would answer `exists`
  from a cache that is not settled (`loader/chain.ts:71`), the outer one would keep
  that answer, and a `get` would pass over a loader that has the template.
- `ParentCalls = {p1}` in `TemplateRendering`, with a single render: `parent()` in
  an expression is not awaited (`node/expression/parent.ts:29`); the block of the
  parent is rendered beside its caller, into its buffers, and the render resolves
  with text that is not its own.
- `Quiet = FALSE` in `TemplateLoading`, one option, `auto_reload` and a cache: a
  source that is edited between its read and the write of the module is older
  than the module, and is never compiled again (`environment.ts:405`):
  `LoadReturnsCurrentSource` fails. `docs/api.md:112` promises that it is.
- The same with a restart: embedded templates are numbered from 1 by each process
  (`parser.ts:87`), cached modules keep their numbers, and after an edit a number
  may stand for the embedded template of another version: `EmbedIsOfItsTemplate`
  fails.
- In `ChainLoader`, `resolve` goes on when a loader rejects, and a filesystem
  loader without the template resolves with null (`loader/chain.ts:177`): the
  loaders after it are not asked. `GetTriesInTurn` speaks of the other
  operations.
- `Quiet = FALSE`, two options in `TemplateLoading`: an option changed while a
  template loads; the module compiled with the new one is stored under the hash
  of the old one (`environment.ts:403`).
- `Quiet = FALSE` with an array loader: a template set again between the load of
  a template and of the one it embeds; the embed tag gets the main template
  (`environment.ts:397`).
- `Quiet = FALSE` in `FilesystemLoader`: a path added or replaced while a lookup
  runs; its late answer enters the new cache (`loader/filesystem.ts:239`).
- `EmptyPaths = TRUE`: `setPaths([])` drops the paths and keeps the caches
  (`loader/filesystem.ts:77`).
- In `ChainLoader`, `ExistsIsRight` speaks of calls that walk the chain: a second
  call of `exists` meanwhile is answered from a cache that is not settled yet
  (`loader/chain.ts:80`).
- In `BlockInheritance`, no claim is made below three kinds of calls (`root` is
  `None`): `parent()` in an expression, where `renderParentBlock` drops the
  blocks it was given (`template.ts:218`); `block(n, t)`, which gives none; and a
  reference in the body of a template that has a parent, which runs before the
  blocks of its ancestors are merged. Below them a further `parent()` may lead to
  code that misses an override of a template in between. `LibraryAssumption`
  excludes two targets of one `use` that swap names, which the code renames one
  after the other so that one block is lost, and `use ... with n` without an alias,
  which removes the block (`node/module.ts:219`).
- In `Environment`, `FlagRestored` excepts two errors after which the code leaves
  the environment sandboxed: one that crosses a sandbox tag, which has no
  `finally` (`node/sandbox.ts:22`), and a sandboxed include of nothing (an empty
  list, null, or something that has no values),
  which throws before its `catch` is there (`include.ts:56`). And
  `SandboxFollowsIncludes` and `BlocksEnded` speak of renders that no other one
  overlaps: the flag and the current node are those of the environment, and of
  two renders in flight each sees the other's (`include.ts:26`,
  `environment.ts:941`). A render that fails leaves its node current, and those
  that follow are children of it.
- In `ExtensionSet`, an initialisation that has thrown cannot succeed later: what
  it had added is in its way. Each try adds the node visitors again.
- In `Algorithms`, `SliceIsWindow` leaves out a start before the first entry and
  negative lengths, where the filter gives too little; `ItemsKept` leaves out
  `sort` of equal values, of which it keeps one, and adds an undefined entry
  unless they are the greatest (`helpers/asort.ts`); `ArgumentsInPlace` leaves
  out an argument whose name is, in snake case, that of a later one: `f(fooBar=1,
  foo_bar=2)` passes 2 and loses 1 without an error
  (`node/expression/call.ts:121`). The trees of `LoopsKept` have no `loop` in the
  sequence of a nested `for`, which the optimizer takes for one of the inner loop
  (`optimizer.ts:124`), and no block between two loops.

## The proofs

The modules `*_proofs` hold for every value of the constants that satisfies the
`ASSUME` of the modules they are about: any number of renders, loads, lookups,
loaders and tags, any texts, paths and bounds.

*TemplateRendering.* `TypeCorrect` proves `TypeOK` for any program, serial or
not. The others assume `Serial` and that no `parent()` runs beside a render
(`ParentCalls = {}`). Their inductive invariant is `SerialInv`: at most one task
lives; while it runs, the stack above `Ground`, the program's level and one
buffer for each render that was refused before, is exactly the sequence of texts
of its frames (that is `FramesOwnBuffers`); the levels its `render` frames
remember are their own positions; and while an error leaves its frames, the stack
has at least one buffer for each frame that is left. The last part is why
`FramesOwnBuffers` is not inductive by itself: after an error frames and buffers
no longer match one to one, since only `render` and macros clean up, and the
proof has to say what is still true. `RenderingAssumption` says that the calls of
`render` are finitely many, since `Ground` counts. `SerialRenderReturnsItsText`,
`SerialFramesOwnBuffers` and `SerialLevelRestored` follow from it. Lemmas about
the operators of OutputBuffering (what a flush does to the two topmost handlers,
what a write appends) come first and are cited by name.

*RenderService* (the second half of `TemplateRendering_proofs`).
`SerialImplementsService` proves, under the same assumptions,
that TemplateRendering implements RenderService. The refinement mapping is that
of `Service`. The invariant is `SerialInv`; it gives that the stack is never
below `Ground` while a render lives (`SerialLevel`), so that what
the program sees of it is a prefix which most steps leave alone (`OuterSame`).
Each step is then served by one step of the abstract specification or a stutter
(`StepServed`): what happens in a nested frame is a stutter unless it returns to
the outermost one (`NestedStep`), a return or a write there is `Write`, a flush
there is `Flush` (`FlushServed`), the last return is `Fulfil` (`ReturnServed`),
and the last frame that an error leaves is `Reject` (`UnwindServed`), where the
cleaning up of the code has to give the prefix back; and a render that is refused is
`Refuse`, which makes the prefix longer. `SerialOuterBuffersKept`
comes out of the same lemmas.

*OutputBufferingClient.* `ClientLosesNothing` and `ClientTouchesTheTop`, for any
sequence of calls. `NothingLost` is inductive with the types (`LostInv`); what
it takes is lemmas on each method of the stack: `MovedDownIsTop` and its like say
that the text of the stack, read from the bottom up, is the same after the
topmost buffer has moved down. The concatenation of the buffers is a recursion over
the stack; what is said of it is proved by taking the least level at which it
fails (`LeastNat`). `ClientAssumption` says that chunks are values of their own
and that the notices the code prints are none of them.

*TemplateLoading.* `LoadingTyped` for any program, and under `Quiet`
`QuietStoreMatchesHash`, `QuietLoadReturnsCurrentSource` and
`QuietEmbedIsOfItsTemplate`, from one invariant, `LoadingInv`. That stores match
their hashes is nearly inductive. That a load returns the current source is not:
the invariant has to say, for every point a load can be at, why what it is about
to take is current (`Knows`): a file that passes the comparison of timestamps was
written later than the last edit (`DiskInv`), or is the exception, also when another
render has renamed its own over it meanwhile; a file written by a process that
has ended is such a file too; a module in the hands of a load is of the current
source. That an embed tag gets its own template needs in addition that the
modules several loads have compiled for one hash never take a number in memory
from each other: either all of them come from the one file, or each load has
numbers of its own that the counter of the process has passed (`Shared`, `Own`);
and after a restart, with the counter at 1, that no render has kept a module of
the process before. `LoadingAssumption` asks for a bound on time of at least one
tick, and `None` is none of the values it stands beside; `ClockAssumption`, that
`GetTime` is off by less than a millisecond, in whichever direction.

*FilesystemLoader.* `TypeCorrect`, then `QuietCachesMatchPaths` (which also says
that nothing is found in a directory that is no longer registered) and
`QuietLookupFindsFirst`, both under `Quiet` and `~EmptyPaths`, from the inductive
invariant `QuietInv`: a lookup in flight walks the current array, none of the
directories before its index had the file, and the caches match the paths. The
caches alone are not inductive: a lookup writes to them what it has seen many
steps before.

*ChainLoader.* `ChainTyped` for any program, and under `Quiet`
`QuietGetTriesInTurn`, `QuietExistsIsRight` and `QuietCacheSettles`, for loaders that
tell the truth about what they have. The
invariant: a call has passed only loaders without the template, a walk that
is over has the right answer, and the cache never says there is a template when
there is none, but may deny one that there is as long as a call of `exists` is
in flight, which will correct it (`CacheRight`): concurrent calls write to
the cache in any order, so that no call alone can vouch for it.

*Parser.* `ParserTyped`, `ParserFieldsMatchTags`, `ParserCallsResolveInScope`,
`ParserEmbeddedApart` and the action property `ParserTemplateAccumulates`, for
any sequence of constructs, any depth and errors anywhere. `ParserInv` says it of
every template that is open, from the one being parsed to the outermost one whose
fields are on the stack: the blocks it has without a body are those on its block
stack, none twice; each scope holds imports of the construct that has opened it;
and no index of an embedded template is one the counter has still to give. The
tags that are open are computed from the calls of `subparse` that wait, by a
recursion (`Nesting`); what a tag that opens or closes does to it is proved
once, by the least prefix for which it is wrong, and cited by each tag. The
stack of an abandoned parse is below (`left`), and the proof is that nothing
reads it. `ParserBounds` says that authors give no names that `getVarName` gives.

*Environment.* `FlagIsRestored` proves `FlagRestored` for any number of renders
that overlap as they like, without a restriction. `FlagRestored` speaks of the
moments when nothing runs and is not inductive; `FlagInv` says why it holds:
while the environment is sandboxed, some template of some render is the owner of
the flag, the one that found it off and has set it, and will restore it. An
include that finds the flag on does not become an owner and leaves it to that one;
the two errors that lose an owner are `past.leaked`. `SandboxFollows` and
`BlocksAreEnded` speak of a render that no other overlaps, and follow from
`EnvInv`. `ScopeInv` says what each of its templates found when it was included:
the flag was on exactly if a template below is included in the sandbox or has a
tag open (`Nested`), and the flag is on if one of them is, but for the moment when
an include that ignores a missing template has restored it and has not yet
returned. `TraceInv` counts blocks: the path is the one from before and one
node for each block the templates have open (`Open`, `Blocks`), one or two for a
template that waits, so that leaving a block is never leaving the root, except
for the last block of a render that began at no node. A render begins alone only
when no other is in progress, and then the flag is off because of `FlagInv`.

*ExtensionSet* (in `Environment_proofs`, which is about all that an environment
holds). `SetIsWhole` proves `WholeOrNothing` for any extensions and names. What
an initialisation adds is an iteration over the definitions of each extension,
and one over the extensions; what either has given after its n-th step
(`RegisteredTo`, `VisitorsTo`, `AddingAll`, `DoingAll`) is proved by the least
step at which it would be wrong. `WholeOrNothing` is not inductive: it says
nothing of a set that is not initialised, and an initialisation may follow one
that has thrown. `SetInv` adds why that one throws as well: a definition that
clashed stays registered, and the extension that clashed stays in the list, so
that a failed set has an extension that clashes with it, and what is registered
is never taken back.

*Arguments* (in `Environment_proofs`, too: these are the calls of what the set
holds). `CallGetsWhatWasMeant` proves `ArgumentsInPlace` for any signature and
any call, by an invariant of the loop over the parameters (`InPlace`): after the
n-th of them, what is passed and the defaults that are held back are what the
first n were meant to get; the positional arguments that are left begin where the
places that are not taken yet begin; the named ones that are left are named by no
parameter so far; and what is not left was passed. At the end, something is left
exactly if no parameter takes it (`LeftIsUnknown`). The loop begins with the
arguments that no later one has overwritten (`Survivors`), each name of which is
that of one of them (`SurvivorIs`), and what is positional is always among them
(`PlacesSurvive`). `ArgumentsAssumption` is what the code builds on: the nodes of
the arguments are a map, so that no name is given twice before it is normalised,
and no two parameters of a callable have the same normalised name. Nothing is
assumed of `normalizeName`, but that it is a function on these names to names.
`BindingSpec` lets anything happen between the calls; `Algorithms` is one
instance of that.

*Slices* (there as well: the filter is one of the core extension's).
`SliceIsItsWindow` proves `SliceIsWindow` for any map, start and length. After n
entries (`SlicedTo`), the slice has one entry for each of them that is in the
window (`Count`), with its value, and with its own key or with a number below
`keyIndex`; so the key of the next one is new (`KeysDiffer`), and setting it
appends an entry. `SlicesAssumption` says that a key is in a map once.

*Arrangements* (there, too). `ItemsAreKept` proves `ItemsKept` for any maps, sizes
and fillings. For `batch`, the invariant of the loop of `chunk` (`ChunkedTo`) says
that each item so far is at its place in the chunk of its turn (`ItemsOf`), and how
many the last chunk has, the open one as the closed (`FilledTo`); `fill` appends,
because the keys it counts are greater than all numbers among the keys
(`StartIs`). For `merge`, which runs the loop of `slice` over both maps, the
result holds exactly the entries whose values are not overwritten so far
(`Lasts`), the numbers counted by how many came before them (`Rank`). For `sort`,
as many values are below the one at a place as there are places before it, so that
distinct values take each place once (`IndicesAre`). That an entry with a new key
is appended, and that one with a known key keeps its place, are `SetAllAppends` and
`SetIs`. `ArrangementsAssumption` says nothing of the values but that each has a place
in the order of strings (`StringOrder`), which several may share: the place of an
entry counts those before it in a sort that keeps the order of equal strings
(`PrecedesOrders`).

*DynamicCalls* (there, too). `CallsAreTheirOwn` proves `CallsKeepArguments` for any
names that are registered and called, and any order of lookups. What a match of
the last letters of a pattern takes of the rest of a name fills these letters to
that rest (`RowIs`), shown letter by letter from the end, for any arguments that
end with it; for the whole pattern, the match is the arguments (`MatchIs`). The
invariant (`CallInv`) says that only wrappers whose name is a pattern ever hold
something (`HoldsOnlyMatches`): a call that finds its exact name passes nothing only
because of that. `DynamicCallsAssumption` says that names are sequences of letters,
that no name of a call has a star, and that the parser has refused those that are
not registered.

*BlockInheritance.* `InheritanceTyped`, `DispatchFollowsInheritance`,
`TestFollowsInheritance` and `KnownStaysResolved`, for any number of templates
and names, any chains of parents, lists of uses and targets, and any depth of
calls. The proof has two halves. The first shows that what the code computes and
what the documentation says are the same before a display begins (`InitProgram`):
the maps of `getBlocks` and `getTraits` on one side, `Definition`, `InheritedBy`
and `Overridden` on the other. All of them are recursive functions over the
templates, and `Recursion` shows that such a definition has exactly one solution
when no template refers to itself; the lists of uses and targets that are folded
into a map are iterations over an index (`Iteration`), and what they give is
proved by the least index at which it would be wrong: `ImportedGives` for the
targets of a `use`, renamed one after the other, `TraitsCombine` for the uses, of
which the last wins, and `DefinitionsMatch` for the whole, by induction over the
templates a template refers to (`ReferringInduction`). The second half is the
invariant of the display, `Inv`: each frame knows blocks that are written and can
be displayed (`Knows`); in a frame whose root is claimed they are those that the
root inherits, and no block that is not known is one that the root inherits
(`Rooted`), which holds on the way up only because the blocks that are not yet
known are those of the template that has been reached; and what a reference is
expected to display is what the walk will find from where it is (`Finds`).
`DispatchIsRight` and `KnownIsResolved` need each other here: a handler is found
among blocks that are known, and the frames it calls are given them.

Only model-checked: the properties of Algorithms other than those four. The operators of
ExpressionParser, NodeVisitors, Values and Contexts are `RECURSIVE`, which the
prover cannot load, and what they say is by induction over trees, templates and
values, which it cannot do. What a recursive function or a sum over a sequence
computes can be proved, by the least index at which it is wrong, and is where an
invariant needs it. `Terminates` is liveness, which is out of the prover's reach.

## Not modelled

Wording and formatting: the text of generated code, the mappings of source maps,
dates, numbers, charsets. The lexer, which is a package of its own. A chain
loader in a chain loader. Names, namespaces and path arithmetic of the loaders,
and with it the relative filesystem loader, which is nothing else. Several
templates in one `TemplateLoading`, `createTemplate`, the removal of a file
between a lookup and its stat. Parents chosen by an expression. The rules of the
security policy. The signature of the extension set. A traversal of the visitors
that fails. The filters, functions and tests of the core extension that only
convert values. The lists of names that macro definitions, `set` and `for` begin
with. The status of each component and the reason are in `PROJECT.json`.
