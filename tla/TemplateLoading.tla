-------------------------- MODULE TemplateLoading --------------------------
(***************************************************************************)
(* environment.ts loadTemplate: one template, the compiled modules of it   *)
(* on disk (cache/filesystem.ts) and in the memory of the environment, and *)
(* renders that load it, then load the template that it embeds.            *)
(*                                                                         *)
(* A step of a render is what the code does between two awaits.  The       *)
(* source, the options and the process itself may change between any two   *)
(* steps, or, when Quiet, only while no render is in flight.               *)
(***************************************************************************)
EXTENDS Naturals, FiniteSets

CONSTANTS
    Renders,            \* the calls of environment.render a program makes
    Options,            \* the values of optionsHash, debug, strict and so on
    None,               \* no file, no instance
    Configs,            \* the environments a program may create
    Quiet,              \* TRUE: nothing changes while a render is in flight
    MaxEdits,           \* bound: how many times the source is changed
    MaxOptionChanges,   \* bound: how many times the options are
    MaxRestarts,        \* bound: how many times the process ends and starts
    MaxTime,            \* bound: the ticks of the clock, fractions of a ...
    Millisecond,        \* ... millisecond, which is so many ticks
    GetTime             \* mtime.getTime(): the time of a file in whole
                        \* milliseconds (here in ticks), as Node rounds it

(* A loader is a filesystem loader or an array loader; a cache is one on   *)
(* the filesystem or, if not cached, TwingCacheNull.                       *)
Config == [loader : {"filesystem", "array"}, cached : BOOLEAN,
           autoReload : BOOLEAN]

ASSUME LoadingAssumption ==
    /\ Configs \subseteq Config
    /\ Quiet \in BOOLEAN
    /\ {MaxEdits, MaxOptionChanges, MaxRestarts} \subseteq Nat
    /\ {MaxTime, Millisecond} \subseteq Nat \ {0}

ASSUME ClockAssumption ==
    /\ GetTime \in [0 .. MaxTime -> Nat]
    /\ \A t \in 0 .. MaxTime :
        /\ GetTime[t] < t + Millisecond
        /\ t < GetTime[t] + Millisecond

VARIABLES
    config,     \* the environment: its loader, its cache, auto_reload
    options,    \* the options of the environment
    source,     \* the template: its version, and the time it was written at
    now,        \* the clock
    disk,       \* the file of the filesystem cache for each key
    main,       \* loadedTemplates: the main template of each hash, ...
    embeds,     \* ... and the embedded ones, hash_index
    nextEmbed,  \* parser.embeddedTemplateIndex
    job,        \* what each render is doing, and the variables of its load
    changes,    \* how many times the options have changed, ...
    restarts    \* ... and the process restarted

vars == <<config, options, source, now, disk, main, embeds, nextEmbed, job,
          changes, restarts>>

Versions == 1 .. MaxEdits + 1

(* A compiled module: the version of the source, the options it has been   *)
(* compiled with, the index of the template it embeds.                     *)
Code == [version : Versions, options : Options, embed : Nat]

(* What a hash is computed from: the cache key of the loader, which is the *)
(* path of a file (0 here) or, for an array loader, the source itself; and *)
(* the options.                                                            *)
Keys == [content : 0 .. MaxEdits + 1, options : Options]

(* A mutant of TemplateHash: the options are left out of the hash.         *)
HashWithoutOptions ==
    [content |-> IF config.loader = "array" THEN source.version ELSE 0,
     options |-> CHOOSE o \in Options : TRUE]

TemplateHash ==
    [content |-> IF config.loader = "array" THEN source.version ELSE 0,
     options |-> options]

(* A template object: the main template of a module, or the embedded one.  *)
Template == [code : Code, index : Nat]

(* A file of the filesystem cache: what was written, and when.             *)
Files == [code : Code, mtime : 0 .. MaxTime]

(* No key, module, template or file is null.                               *)
ASSUME NoneAssumption == None \notin Keys \cup Code \cup Template \cup Files

(* templates.has(index)                                                    *)
Has(code, index) == index \in {0, code.embed}

Loaded(key) ==
    (IF main[key] = None THEN {} ELSE {[code |-> main[key], index |-> 0]})
        \cup {[code |-> c, index |-> c.embed] : c \in embeds[key]}

States == {"idle", "hash", "stat", "fresh", "load", "read", "write", "rename",
           "reload", "register", "rendering", "done", "failed"}

Job == [pc : States, index : Nat, key : Keys \cup {None}, time : 0 .. MaxTime,
        code : Code \cup {None}, template : Template \cup {None},
        embedded : Template \cup {None}, seen : 0 .. MaxEdits + 1,
        remembered : BOOLEAN, close : BOOLEAN]

NoJob == [pc |-> "idle", index |-> 0, key |-> None, time |-> 0, code |-> None,
          template |-> None, embedded |-> None, seen |-> 0, remembered |-> FALSE,
          close |-> FALSE]

InFlight(r) == job[r].pc \notin {"idle", "done", "failed"}

Init ==
    /\ config \in Configs
    /\ options \in Options
    /\ source = [version |-> 1, mtime |-> 1]
    /\ now = 1
    /\ disk = [k \in Keys |-> None]
    /\ main = [k \in Keys |-> None]
    /\ embeds = [k \in Keys |-> {}]
    /\ nextEmbed = 1
    /\ job = [r \in Renders |-> NoJob]
    /\ changes = 0 /\ restarts = 0

Goes(r, pc) == job' = [job EXCEPT ![r].pc = pc]

-----------------------------------------------------------------------------
(* The renders. *)

(* seen: history, the version of the source when the load was called.      *)
Begin(r) ==
    /\ job[r].pc = "idle"
    /\ job' = [job EXCEPT ![r].pc = "hash", ![r].seen = source.version]
    /\ UNCHANGED <<config, options, source, now, disk, main, embeds, nextEmbed,
                   changes, restarts>>

(* The code of an embed tag: loadTemplate(name, index), where the index is *)
(* the one the embedded template had when the main one was compiled.       *)
BeginEmbed(r) ==
    /\ job[r].pc = "rendering"
    /\ job' = [job EXCEPT ![r].pc = "hash",
                          ![r].index = job[r].template.code.embed,
                          ![r].code = None]
    /\ UNCHANGED <<config, options, source, now, disk, main, embeds, nextEmbed,
                   changes, restarts>>

(* The render ends without a need of the embedded template.                *)
Finish(r) ==
    /\ job[r].pc = "rendering"
    /\ Goes(r, "done")
    /\ UNCHANGED <<config, options, source, now, disk, main, embeds, nextEmbed,
                   changes, restarts>>

(* The promise of loadTemplate resolves with t: job j goes on.             *)
Resolved(j, t) ==
    IF j.index = 0 THEN [j EXCEPT !.pc = "rendering", !.template = t]
                   ELSE [j EXCEPT !.pc = "done", !.embedded = t]

(* The hashes are computed, and looked up in loadedTemplates.              *)
Hash(r) ==
    /\ job[r].pc = "hash"
    /\ LET key == TemplateHash
           hits == {t \in Loaded(key) : t.index = job[r].index}
       IN  IF hits = {}
           THEN job' = [job EXCEPT ![r].pc = "stat", ![r].key = key]
           ELSE \E t \in hits :
                    LET found == [job[r] EXCEPT
                            !.key = key,
                            !.remembered = job[r].remembered \/ job[r].index = 0]
                    IN  job' = [job EXCEPT ![r] = Resolved(found, t)]
    /\ UNCHANGED <<config, options, source, now, disk, main, embeds, nextEmbed,
                   changes, restarts>>

(* What a cache knows of a key: TwingCacheNull knows nothing.              *)
File(key) == IF config.cached THEN disk[key] ELSE None

(* cache.getTimestamp                                                      *)
Stat(r) ==
    /\ job[r].pc = "stat"
    /\ LET file == File(job[r].key)
       IN  job' = [job EXCEPT ![r].pc = "fresh",
                              ![r].time = IF file = None THEN 0 ELSE file.mtime]
    /\ UNCHANGED <<config, options, source, now, disk, main, embeds, nextEmbed,
                   changes, restarts>>

(* A mutant of IsFresh: with a tolerance of a millisecond.                 *)
IsFreshWithin(time) ==
    config.loader = "array" \/ GetTime[source.mtime] < time + Millisecond

(* loader.isFresh: an array loader always says so; a filesystem loader has *)
(* the time of the source in whole milliseconds (mtime.getTime()), that of *)
(* the module with its fraction (mtimeMs).                                 *)
IsFresh(time) == config.loader = "array" \/ GetTime[source.mtime] < time

(* The file of the source has been written after the module, and less than *)
(* a millisecond after.                                                    *)
IsClose(time) ==
    /\ config.loader = "filesystem" /\ time # 0
    /\ source.mtime \in time .. time + Millisecond - 1

(* close: history, whether the two times were as close as that.            *)
Fresh(r) ==
    /\ job[r].pc = "fresh"
    /\ job' = [job EXCEPT
            ![r].pc = IF config.autoReload => IsFresh(job[r].time)
                      THEN "load" ELSE "read",
            ![r].close = IsClose(job[r].time)]
    /\ UNCHANGED <<config, options, source, now, disk, main, embeds, nextEmbed,
                   changes, restarts>>

(* cache.load: the module, if there is one and it has the index.           *)
CacheHas(key, index) == File(key) # None /\ Has(File(key).code, index)

Load(r) ==
    /\ job[r].pc = "load"
    /\ IF CacheHas(job[r].key, job[r].index)
       THEN job' = [job EXCEPT ![r].pc = "register",
                               ![r].code = File(job[r].key).code]
       ELSE Goes(r, "read")
    /\ UNCHANGED <<config, options, source, now, disk, main, embeds, nextEmbed,
                   changes, restarts>>

(* loader.getSourceContext, compileSource: with the options of now.        *)
Compile(r) ==
    /\ job[r].pc = "read"
    /\ job' = [job EXCEPT ![r].pc = IF config.cached THEN "write" ELSE "reload",
                          ![r].code = [version |-> source.version,
                                       options |-> options,
                                       embed |-> nextEmbed]]
    /\ nextEmbed' = nextEmbed + 1
    /\ UNCHANGED <<config, options, source, now, disk, main, embeds, changes,
                   restarts>>

(* cache.write: a temporary file, ...                                      *)
Write(r) ==
    /\ job[r].pc = "write"
    /\ job' = [job EXCEPT ![r].pc = "rename", ![r].time = now]
    /\ UNCHANGED <<config, options, source, now, disk, main, embeds, nextEmbed,
                   changes, restarts>>

(* ... renamed to the file of the key.                                     *)
Rename(r) ==
    /\ job[r].pc = "rename"
    /\ disk' = [disk EXCEPT ![job[r].key] =
                    [code |-> job[r].code, mtime |-> job[r].time]]
    /\ Goes(r, "reload")
    /\ UNCHANGED <<config, options, source, now, main, embeds, nextEmbed,
                   changes, restarts>>

(* The compilation, the write or the rename fails: the load is rejected.   *)
Fail(r) ==
    /\ job[r].pc \in {"read", "write", "rename"}
    /\ Goes(r, "failed")
    /\ UNCHANGED <<config, options, source, now, disk, main, embeds, nextEmbed,
                   changes, restarts>>

(* The module is loaded from the cache again, or evaluated as it is.       *)
Reload(r) ==
    /\ job[r].pc = "reload"
    /\ job' = [job EXCEPT ![r].pc = "register",
                          ![r].code = IF CacheHas(job[r].key, job[r].index)
                                      THEN File(job[r].key).code ELSE @]
    /\ UNCHANGED <<config, options, source, now, disk, main, embeds, nextEmbed,
                   changes, restarts>>

(* A mutant of EmbedsWith: the embedded templates are not registered.      *)
EmbedsAsBefore(key, code) == embeds[key]

(* resolveMainTemplateFromTemplateConstructors: every template of the      *)
(* module is registered, under a hash computed now; the load resolves with *)
(* the MAIN template, whatever the index.                                  *)
EmbedsWith(key, code) == {c \in embeds[key] : c.embed # code.embed} \cup {code}

Register(r) ==
    /\ job[r].pc = "register"
    /\ LET key == TemplateHash
           code == job[r].code
       IN  /\ main' = [main EXCEPT ![key] = code]
           /\ embeds' = [embeds EXCEPT ![key] = EmbedsWith(key, code)]
           /\ job' = [job EXCEPT ![r] =
                         Resolved(job[r], [code |-> code, index |-> 0])]
    /\ UNCHANGED <<config, options, source, now, disk, nextEmbed, changes,
                   restarts>>

-----------------------------------------------------------------------------
(* What surrounds them. *)

CanChange == Quiet => \A r \in Renders : ~ InFlight(r)

(* The file of the template is written, or setTemplate called.             *)
Edit ==
    /\ CanChange
    /\ source.version \in 1 .. MaxEdits
    /\ source' = [version |-> source.version + 1, mtime |-> now]
    /\ UNCHANGED <<config, options, now, disk, main, embeds, nextEmbed, job,
                   changes, restarts>>

(* enableDebug, enableStrictVariables and so on: updateOptionsHash.        *)
SetOptions ==
    /\ CanChange
    /\ changes < MaxOptionChanges
    /\ changes' = changes + 1
    /\ \E o \in Options \ {options} : options' = o
    /\ UNCHANGED <<config, source, now, disk, main, embeds, nextEmbed, job,
                   restarts>>

(* The process ends, in the middle of anything, and another one creates    *)
(* the same environment: only the files of the cache are left.             *)
Restart ==
    /\ restarts < MaxRestarts
    /\ restarts' = restarts + 1
    /\ main' = [k \in Keys |-> None]
    /\ embeds' = [k \in Keys |-> {}]
    /\ nextEmbed' = 1
    /\ job' = [r \in Renders |-> NoJob]
    /\ UNCHANGED <<config, options, source, now, disk, changes>>

Tick ==
    /\ now < MaxTime
    /\ now' = now + 1
    /\ UNCHANGED <<config, options, source, disk, main, embeds, nextEmbed, job,
                   changes, restarts>>

Next ==
    \/ \E r \in Renders :
          \/ Begin(r) \/ BeginEmbed(r) \/ Finish(r) \/ Hash(r) \/ Stat(r)
          \/ Fresh(r) \/ Load(r) \/ Compile(r) \/ Write(r) \/ Rename(r)
          \/ Fail(r) \/ Reload(r) \/ Register(r)
    \/ Edit \/ SetOptions \/ Restart \/ Tick

Spec == Init /\ [][Next]_vars

-----------------------------------------------------------------------------

(* Type invariant; a load that goes on from its hash has a key, one that   *)
(* writes or registers has a module, a render goes on with a template.     *)
TypeOK ==
    /\ config \in Configs /\ options \in Options
    /\ source \in [version : Versions, mtime : 0 .. MaxTime]
    /\ now \in 0 .. MaxTime
    /\ disk \in [Keys -> Files \cup {None}]
    /\ main \in [Keys -> Code \cup {None}]
    /\ embeds \in [Keys -> SUBSET Code]
    /\ nextEmbed \in Nat
    /\ job \in [Renders -> Job]
    /\ changes \in 0 .. MaxOptionChanges /\ restarts \in 0 .. MaxRestarts
    /\ \A r \in Renders :
        /\ job[r].pc \in States \ {"idle", "hash", "failed"} => job[r].key # None
        /\ job[r].pc \in {"write", "rename", "reload", "register"} =>
               job[r].code # None
        /\ job[r].pc = "rendering" => job[r].template # None

(* With auto_reload, or without a cache, a load that does not find the     *)
(* template in the memory of the environment returns the source as it was  *)
(* when it was called, or newer: "templates [are] recompiled whenever      *)
(* their content changes" (docs/api.md, auto_reload); but for a file that  *)
(* was written less than a millisecond after its module, which isFresh can *)
(* take for older than the module.                                         *)
LoadReturnsCurrentSource ==
    \A r \in Renders :
        /\ job[r].template # None
        /\ config.autoReload \/ ~ config.cached \/ config.loader = "array"
        /\ ~ job[r].remembered /\ ~ job[r].close
        => job[r].template.code.version >= job[r].seen

(* What is stored under a hash, on disk or in memory, is what the hash has *)
(* been computed from (environment.ts getTemplateHash).                    *)
Matches(code, key) ==
    /\ code.options = key.options
    /\ key.content \in {0, code.version}

StoreMatchesHash ==
    \A k \in Keys :
        /\ disk[k] # None => Matches(disk[k].code, k)
        /\ main[k] # None => Matches(main[k], k)
        /\ \A c \in embeds[k] : Matches(c, k)

(* The template that an embed tag gets is the embedded template of the     *)
(* very module its code is part of: never the main one, never another      *)
(* version's (environment.ts loadTemplate, parser.ts embedTemplate).       *)
EmbedIsOfItsTemplate ==
    \A r \in Renders : job[r].embedded # None =>
        job[r].embedded = [code |-> job[r].template.code, index |-> job[r].index]

=============================================================================
