----------------------- MODULE TemplateLoading_proofs -----------------------
(***************************************************************************)
(* Theorems about TemplateLoading: any number of renders load a template   *)
(* at once, from any loader, with or without a cache, and fail or die with *)
(* the process between any two of their steps.  As long as the source and  *)
(* the options only change while no render is in flight (Quiet), a load    *)
(* returns the source of its call, what is stored is what its hash says,   *)
(* and an embed tag gets the template of its own module.                   *)
(***************************************************************************)
EXTENDS TemplateLoading, TLAPS

-----------------------------------------------------------------------------
(* The invariant *)

(* The renders that have not found the template in memory.                 *)
Loads(r) ==
    job[r].pc \in {"stat", "fresh", "load", "read", "write", "rename", "reload", "register"}

(* The ones that hold a module of the template.                            *)
Holds(r) == job[r].pc \in {"write", "rename", "reload", "register"}

(* The configurations in which the freshness of a file is known.           *)
Tracked == config.autoReload \/ ~ config.cached \/ config.loader = "array"

(* A module file of this time is loaded rather than compiled again.        *)
Passes(time) == config.autoReload => IsFresh(time)

(* The file of a key is the template as it is.                             *)
UpToDate(k) == disk[k] # None => disk[k].code.version = source.version

(* The memory of the environment: no module without an embedded template   *)
(* numbered from 1, no two that have the same number under one hash, and   *)
(* the main template is that of one of them.                               *)
MemoryInv ==
    \A k \in Keys :
        /\ main[k] = None => embeds[k] = {}
        /\ main[k] # None => main[k] \in embeds[k]
        /\ \A c \in embeds[k] : c.embed # 0 /\ Matches(c, k)
        /\ \A c \in embeds[k], d \in embeds[k] : c.embed = d.embed => c = d

(* The files: only a filesystem cache has any, none is younger than now,   *)
(* and one of a filesystem loader that is younger than the source is the   *)
(* template as it is.                                                      *)
DiskInv ==
    \A k \in Keys : disk[k] # None =>
        /\ config.cached /\ disk[k].code.embed # 0 /\ Matches(disk[k].code, k)
        /\ disk[k].mtime <= now
        /\ config.loader = "filesystem" /\ source.mtime < disk[k].mtime => UpToDate(k)

(* The first load of a render, until it has its template.                  *)
FirstLoad(r) ==
    /\ job[r].index = 0 /\ job[r].template = None /\ job[r].embedded = None
    /\ ~ job[r].remembered /\ job[r].seen = source.version

(* The render has its template, registered in memory.                      *)
HasTemplate(r) ==
    /\ job[r].template # None /\ job[r].embedded = None
    /\ job[r].template.code \in embeds[TemplateHash]

(* What each render knows where it is.                                     *)
Knows(r) ==
    /\ job[r].pc = "idle" => job[r] = NoJob
    /\ Loads(r) => FirstLoad(r) /\ job[r].key = TemplateHash
    /\ job[r].pc = "hash" =>
          FirstLoad(r) \/ (HasTemplate(r) /\ job[r].index = job[r].template.code.embed)
    /\ job[r].pc = "rendering" => HasTemplate(r)
    /\ Holds(r) => job[r].code.embed # 0 /\ Matches(job[r].code, job[r].key)
    /\ job[r].pc = "fresh" /\ config.loader = "filesystem" /\ source.mtime < job[r].time
          => UpToDate(job[r].key)
    /\ job[r].pc = "load" /\ config.loader = "filesystem" /\ config.autoReload
          => UpToDate(job[r].key) \/ job[r].close
    /\ job[r].pc \in {"write", "rename", "reload"} => job[r].code.version = source.version
    /\ job[r].pc \in {"write", "rename"} => config.cached
    /\ job[r].pc = "rename" => job[r].time <= now
    /\ job[r].pc = "reload" => UpToDate(job[r].key)
    /\ job[r].pc = "register" /\ Tracked =>
          job[r].code.version = source.version \/ job[r].close

(* What is asked of the templates it has got.                              *)
IsCurrent(r) ==
    job[r].template # None /\ Tracked /\ ~ job[r].remembered /\ ~ job[r].close
        => job[r].template.code.version >= job[r].seen

IsItsEmbed(r) ==
    job[r].embedded # None =>
        job[r].embedded = [code |-> job[r].template.code, index |-> job[r].index]

RenderInv == \A r \in Renders : Knows(r) /\ IsCurrent(r) /\ IsItsEmbed(r)

(* The load of all the renders that load ends with the module on disk, ... *)
Shared(k) ==
    /\ config.cached /\ disk[k] # None /\ Passes(disk[k].mtime)
    /\ embeds[k] \subseteq {disk[k].code}
    /\ \A r \in Renders : Loads(r) =>
          /\ job[r].pc \in {"stat", "fresh", "load", "register"}
          /\ job[r].pc = "fresh" => job[r].time = disk[k].mtime
          /\ job[r].pc = "register" => job[r].code = disk[k].code

(* ... or with modules that were all compiled in this process.             *)
Loadable(k) ==
    /\ config.cached /\ disk[k] # None
    /\ \/ Passes(disk[k].mtime)
       \/ \E r \in Renders : \/ job[r].pc \in {"load", "reload"}
                             \/ job[r].pc = "fresh" /\ Passes(job[r].time)

Pool(k) ==
    embeds[k] \cup {job[r].code : r \in {q \in Renders : Holds(q)}}
              \cup (IF Loadable(k) THEN {disk[k].code} ELSE {})

Own(k) ==
    /\ \A c \in Pool(k) : c.embed < nextEmbed
    /\ \A c \in Pool(k), d \in Pool(k) : c.embed = d.embed => c = d

ModulesInv == (\E r \in Renders : Loads(r)) => Shared(TemplateHash) \/ Own(TemplateHash)

LoadingInv ==
    /\ TypeOK /\ nextEmbed # 0
    /\ MemoryInv /\ DiskInv /\ RenderInv /\ ModulesInv

-----------------------------------------------------------------------------
(* The types *)

LEMMA ConstantTypes ==
    /\ None \notin Keys /\ None \notin Code /\ None \notin Template /\ None \notin Files
    /\ MaxEdits \in Nat /\ MaxTime \in Nat \ {0} /\ 1 \in Versions /\ 1 \in 0 .. MaxTime
    /\ MaxOptionChanges \in Nat /\ MaxRestarts \in Nat
BY LoadingAssumption, NoneAssumption DEF Versions

LEMMA HashTyped ==
    ASSUME TypeOK
    PROVE  TemplateHash \in Keys /\ TemplateHash # None
<1>1. /\ source.version \in 0 .. MaxEdits + 1 /\ options \in Options /\ 0 \in 0 .. MaxEdits + 1
  BY ConstantTypes DEF TypeOK, Versions
<1>2. TemplateHash \in Keys
  BY <1>1 DEF TemplateHash, Keys
<1> QED
  BY <1>2, ConstantTypes

LEMMA JobFields ==
    ASSUME NEW j \in Job
    PROVE  /\ j.pc \in States /\ j.index \in Nat /\ j.key \in Keys \cup {None}
           /\ j.time \in 0 .. MaxTime /\ j.code \in Code \cup {None}
           /\ j.template \in Template \cup {None} /\ j.embedded \in Template \cup {None}
           /\ j.seen \in 0 .. MaxEdits + 1 /\ j.remembered \in BOOLEAN
           /\ j.close \in BOOLEAN
BY DEF Job

LEMMA NoJobTyped == NoJob \in Job /\ NoJob.pc = "idle"
BY ConstantTypes DEF NoJob, Job, States

(* The jobs, as the type invariant has them.                               *)
JobOk(j) ==
    /\ j \in Job
    /\ j.pc \in States \ {"idle", "hash", "failed"} => j.key # None
    /\ j.pc \in {"write", "rename", "reload", "register"} => j.code # None
    /\ j.pc = "rendering" => j.template # None

JobsOk == job \in [Renders -> Job] /\ \A r \in Renders : JobOk(job[r])

Others(r) == \A q \in Renders \ {r} : job'[q] = job[q]

(* A step of one render.                                                   *)
LEMMA JobTyped ==
    ASSUME TypeOK, NEW r \in Renders, NEW j, JobOk(j), job' = [job EXCEPT ![r] = j]
    PROVE  JobsOk' /\ job'[r] = j /\ Others(r)
BY DEF TypeOK, JobOk, JobsOk, Others

LEMMA JobIs ==
    ASSUME TypeOK, NEW r \in Renders
    PROVE  /\ JobOk(job[r]) /\ job[r] \in Job /\ job \in [Renders -> Job]
           /\ job[r].pc \in {"write", "rename", "reload", "register"} => job[r].code \in Code
           /\ job[r].pc = "rendering" =>
                  job[r].template \in Template /\ job[r].template.code \in Code
                  /\ job[r].template.code.embed \in Nat
<1>1. job[r] \in Job
  BY DEF TypeOK
<1>2. JobOk(job[r])
  BY <1>1 DEF TypeOK, JobOk
<1>3. \A t \in Template : t.code \in Code /\ t.code.embed \in Nat
  BY DEF Template, Code
<1> QED
  BY <1>1, <1>2, <1>3, JobFields DEF JobOk, TypeOK

(* What changes nothing but where the render is.                           *)
LEMMA StepGoes ==
    ASSUME TypeOK, NEW r \in Renders, NEW pc \in States, Goes(r, pc),
           pc \in States \ {"idle", "hash", "failed"} => job[r].key # None,
           pc \in {"write", "rename", "reload", "register"} => job[r].code # None,
           pc # "rendering"
    PROVE  /\ JobsOk' /\ Others(r) /\ job'[r] = [job[r] EXCEPT !.pc = pc]
           /\ job'[r].pc = pc /\ job'[r].index = job[r].index /\ job'[r].key = job[r].key
           /\ job'[r].time = job[r].time /\ job'[r].code = job[r].code
           /\ job'[r].template = job[r].template /\ job'[r].embedded = job[r].embedded
           /\ job'[r].seen = job[r].seen /\ job'[r].remembered = job[r].remembered
           /\ job'[r].close = job[r].close
<1>. DEFINE j == [job[r] EXCEPT !.pc = pc]
<1>1. job[r] \in Job /\ job \in [Renders -> Job]
  BY JobIs
<1>2. job' = [job EXCEPT ![r] = j]
  BY <1>1 DEF Goes
<1>3. /\ j \in Job
      /\ j.pc = pc /\ j.index = job[r].index /\ j.key = job[r].key
      /\ j.time = job[r].time /\ j.code = job[r].code
      /\ j.template = job[r].template /\ j.embedded = job[r].embedded
      /\ j.seen = job[r].seen /\ j.remembered = job[r].remembered
      /\ j.close = job[r].close
  BY <1>1 DEF Job
<1>4. JobOk(j)
  BY <1>3 DEF JobOk
<1>. HIDE DEF j
<1>5. JobsOk' /\ job'[r] = j /\ Others(r)
  BY <1>2, <1>4, JobTyped
<1> QED
  BY <1>3, <1>5 DEF j

LEMMA StepBegin ==
    ASSUME TypeOK, NEW r \in Renders, Begin(r)
    PROVE  /\ JobsOk' /\ Others(r)
           /\ job'[r].pc = "hash" /\ job'[r].index = job[r].index
           /\ job'[r].template = job[r].template /\ job'[r].embedded = job[r].embedded
           /\ job'[r].seen = source.version /\ job'[r].remembered = job[r].remembered
           /\ job'[r].close = job[r].close
<1>. DEFINE v == source.version
            j == [job[r] EXCEPT !.pc = "hash", !.seen = v]
<1>1. job[r] \in Job /\ job \in [Renders -> Job] /\ v \in 0 .. MaxEdits + 1
  BY JobIs DEF TypeOK, Versions
<1>2. job' = [job EXCEPT ![r] = j]
  BY <1>1 DEF Begin
<1>. HIDE DEF v
<1>3. /\ j \in Job
      /\ j.pc = "hash" /\ j.index = job[r].index /\ j.template = job[r].template
      /\ j.embedded = job[r].embedded /\ j.seen = v /\ j.remembered = job[r].remembered
      /\ j.close = job[r].close
  BY <1>1 DEF Job, States
<1>4. JobOk(j)
  BY <1>3 DEF JobOk
<1>. HIDE DEF j
<1>5. JobsOk' /\ job'[r] = j /\ Others(r)
  BY <1>2, <1>4, JobTyped
<1> QED
  BY <1>3, <1>5 DEF v

LEMMA StepBeginEmbed ==
    ASSUME TypeOK, NEW r \in Renders, BeginEmbed(r)
    PROVE  /\ JobsOk' /\ Others(r)
           /\ job'[r].pc = "hash" /\ job'[r].index = job[r].template.code.embed
           /\ job'[r].template = job[r].template /\ job'[r].embedded = job[r].embedded
           /\ job'[r].seen = job[r].seen /\ job'[r].remembered = job[r].remembered
           /\ job'[r].close = job[r].close
<1>. DEFINE v == job[r].template.code.embed
            j == [job[r] EXCEPT !.pc = "hash", !.index = v, !.code = None]
<1>1. job[r] \in Job /\ job \in [Renders -> Job] /\ v \in Nat
  BY JobIs DEF BeginEmbed
<1>2. job' = [job EXCEPT ![r] = j]
  BY <1>1 DEF BeginEmbed
<1>. HIDE DEF v
<1>3. /\ j \in Job
      /\ j.pc = "hash" /\ j.index = v /\ j.template = job[r].template
      /\ j.embedded = job[r].embedded /\ j.seen = job[r].seen
      /\ j.remembered = job[r].remembered /\ j.close = job[r].close
  BY <1>1 DEF Job, States
<1>4. JobOk(j)
  BY <1>3 DEF JobOk
<1>. HIDE DEF j
<1>5. JobsOk' /\ job'[r] = j /\ Others(r)
  BY <1>2, <1>4, JobTyped
<1> QED
  BY <1>3, <1>5 DEF v

LEMMA StepStat ==
    ASSUME TypeOK, NEW r \in Renders, Stat(r)
    PROVE  /\ JobsOk' /\ Others(r)
           /\ job'[r].pc = "fresh" /\ job'[r].index = job[r].index /\ job'[r].key = job[r].key
           /\ job'[r].time = (IF File(job[r].key) = None THEN 0 ELSE File(job[r].key).mtime)
           /\ job'[r].template = job[r].template /\ job'[r].embedded = job[r].embedded
           /\ job'[r].seen = job[r].seen /\ job'[r].remembered = job[r].remembered
           /\ job'[r].close = job[r].close
<1>. DEFINE k == job[r].key
            v == IF File(k) = None THEN 0 ELSE File(k).mtime
            j == [job[r] EXCEPT !.pc = "fresh", !.time = v]
<1>1. job[r] \in Job /\ job \in [Renders -> Job] /\ k \in Keys
  <2>1. job[r].pc = "stat" => job[r].key # None
    BY JobIs DEF JobOk, States
  <2> QED
    BY <2>1, JobIs, JobFields DEF Stat
<1>2. File(k) \in Files \cup {None}
  BY <1>1 DEF File, TypeOK
<1>3. v \in 0 .. MaxTime
  BY <1>2, ConstantTypes DEF Files
<1>4. job' = [job EXCEPT ![r] = j]
  BY <1>1 DEF Stat
<1>. HIDE DEF v
<1>5. /\ j \in Job
      /\ j.pc = "fresh" /\ j.index = job[r].index /\ j.key = job[r].key /\ j.time = v
      /\ j.template = job[r].template /\ j.embedded = job[r].embedded
      /\ j.seen = job[r].seen /\ j.remembered = job[r].remembered
      /\ j.close = job[r].close
  BY <1>1, <1>3 DEF Job, States
<1>6. JobOk(j)
  BY <1>1, <1>5, ConstantTypes DEF JobOk
<1>. HIDE DEF j
<1>7. JobsOk' /\ job'[r] = j /\ Others(r)
  BY <1>4, <1>6, JobTyped
<1> QED
  BY <1>5, <1>7 DEF v

(* A load gets a module.                                                   *)
LEMMA StepModule ==
    ASSUME TypeOK, NEW r \in Renders, NEW pc \in {"write", "reload", "register"},
           NEW c \in Code, job[r].key # None,
           job' = [job EXCEPT ![r].pc = pc, ![r].code = c]
    PROVE  /\ JobsOk' /\ Others(r)
           /\ job'[r].pc = pc /\ job'[r].index = job[r].index /\ job'[r].key = job[r].key
           /\ job'[r].code = c
           /\ job'[r].template = job[r].template /\ job'[r].embedded = job[r].embedded
           /\ job'[r].seen = job[r].seen /\ job'[r].remembered = job[r].remembered
           /\ job'[r].close = job[r].close
<1>. DEFINE j == [job[r] EXCEPT !.pc = pc, !.code = c]
<1>1. job[r] \in Job /\ job \in [Renders -> Job]
  BY JobIs
<1>2. job' = [job EXCEPT ![r] = j]
  BY <1>1
<1>3. /\ j \in Job
      /\ j.pc = pc /\ j.index = job[r].index /\ j.key = job[r].key /\ j.code = c
      /\ j.template = job[r].template /\ j.embedded = job[r].embedded
      /\ j.seen = job[r].seen /\ j.remembered = job[r].remembered
      /\ j.close = job[r].close
  BY <1>1 DEF Job, States
<1>4. JobOk(j)
  BY <1>3, ConstantTypes DEF JobOk
<1>. HIDE DEF j
<1>5. JobsOk' /\ job'[r] = j /\ Others(r)
  BY <1>2, <1>4, JobTyped
<1> QED
  BY <1>3, <1>5

LEMMA StepWrite ==
    ASSUME TypeOK, NEW r \in Renders, Write(r)
    PROVE  /\ JobsOk' /\ Others(r)
           /\ job'[r].pc = "rename" /\ job'[r].index = job[r].index /\ job'[r].key = job[r].key
           /\ job'[r].time = now /\ job'[r].code = job[r].code
           /\ job'[r].template = job[r].template /\ job'[r].embedded = job[r].embedded
           /\ job'[r].seen = job[r].seen /\ job'[r].remembered = job[r].remembered
           /\ job'[r].close = job[r].close
<1>. DEFINE j == [job[r] EXCEPT !.pc = "rename", !.time = now]
<1>1. job[r] \in Job /\ job \in [Renders -> Job] /\ now \in 0 .. MaxTime
  BY JobIs DEF TypeOK
<1>2. job[r].key # None /\ job[r].code # None
  BY JobIs DEF JobOk, Write, States
<1>3. job' = [job EXCEPT ![r] = j]
  BY <1>1 DEF Write
<1>4. /\ j \in Job
      /\ j.pc = "rename" /\ j.index = job[r].index /\ j.key = job[r].key /\ j.time = now
      /\ j.code = job[r].code
      /\ j.template = job[r].template /\ j.embedded = job[r].embedded
      /\ j.seen = job[r].seen /\ j.remembered = job[r].remembered
      /\ j.close = job[r].close
  BY <1>1 DEF Job, States
<1>5. JobOk(j)
  BY <1>2, <1>4 DEF JobOk
<1>. HIDE DEF j
<1>6. JobsOk' /\ job'[r] = j /\ Others(r)
  BY <1>3, <1>5, JobTyped
<1> QED
  BY <1>4, <1>6

(* The promise of a load is resolved, by the memory or by what it has      *)
(* registered.                                                             *)
LEMMA StepResolved ==
    ASSUME TypeOK, NEW r \in Renders, NEW i \in Job, NEW t \in Template, i.key # None,
           job' = [job EXCEPT ![r] = Resolved(i, t)]
    PROVE  /\ JobsOk' /\ Others(r)
           /\ job'[r].index = i.index /\ job'[r].key = i.key
           /\ job'[r].seen = i.seen /\ job'[r].remembered = i.remembered
           /\ job'[r].close = i.close
           /\ i.index = 0 => /\ job'[r].pc = "rendering"
                             /\ job'[r].template = t /\ job'[r].embedded = i.embedded
           /\ i.index # 0 => /\ job'[r].pc = "done"
                             /\ job'[r].template = i.template /\ job'[r].embedded = t
<1>. DEFINE j == Resolved(i, t)
<1>1. CASE i.index = 0
  <2>1. j = [i EXCEPT !.pc = "rendering", !.template = t]
    BY <1>1 DEF Resolved
  <2>2. /\ j \in Job
        /\ j.pc = "rendering" /\ j.index = i.index /\ j.key = i.key
        /\ j.template = t /\ j.embedded = i.embedded
        /\ j.seen = i.seen /\ j.remembered = i.remembered /\ j.close = i.close
    <3>. HIDE DEF j
    <3> QED
      BY <2>1 DEF Job, States
  <2>3. JobOk(j)
    BY <2>2, ConstantTypes DEF JobOk
  <2>. HIDE DEF j
  <2>4. job' = [job EXCEPT ![r] = j]
    BY DEF j
  <2>5. JobsOk' /\ job'[r] = j /\ Others(r)
    BY <2>3, <2>4, JobTyped
  <2> QED
    BY <1>1, <2>2, <2>5
<1>2. CASE i.index # 0
  <2>1. j = [i EXCEPT !.pc = "done", !.embedded = t]
    BY <1>2 DEF Resolved
  <2>2. /\ j \in Job
        /\ j.pc = "done" /\ j.index = i.index /\ j.key = i.key
        /\ j.template = i.template /\ j.embedded = t
        /\ j.seen = i.seen /\ j.remembered = i.remembered /\ j.close = i.close
    <3>. HIDE DEF j
    <3> QED
      BY <2>1 DEF Job, States
  <2>3. JobOk(j)
    BY <2>2 DEF JobOk
  <2>. HIDE DEF j
  <2>4. job' = [job EXCEPT ![r] = j]
    BY DEF j
  <2>5. JobsOk' /\ job'[r] = j /\ Others(r)
    BY <2>3, <2>4, JobTyped
  <2> QED
    BY <1>2, <2>2, <2>5
<1> QED
  BY <1>1, <1>2

LEMMA LoadedTyped ==
    ASSUME TypeOK, NEW k \in Keys, NEW t \in Loaded(k)
    PROVE  t \in Template
<1>1. \A c \in Code : /\ [code |-> c, index |-> 0] \in Template
                      /\ [code |-> c, index |-> c.embed] \in Template
  BY DEF Template, Code
<1>2. main[k] \in Code \cup {None} /\ embeds[k] \subseteq Code
  BY DEF TypeOK
<1> QED
  BY <1>1, <1>2 DEF Loaded

(* The template is not in memory, ...                                      *)
LEMMA StepMiss ==
    ASSUME TypeOK, NEW r \in Renders, Hash(r),
           {t \in Loaded(TemplateHash) : t.index = job[r].index} = {}
    PROVE  /\ JobsOk' /\ Others(r)
           /\ job'[r].pc = "stat" /\ job'[r].index = job[r].index
           /\ job'[r].key = TemplateHash
           /\ job'[r].template = job[r].template /\ job'[r].embedded = job[r].embedded
           /\ job'[r].seen = job[r].seen /\ job'[r].remembered = job[r].remembered
           /\ job'[r].close = job[r].close
<1>. DEFINE k == TemplateHash
            j == [job[r] EXCEPT !.pc = "stat", !.key = k]
<1>1. job[r] \in Job /\ job \in [Renders -> Job] /\ k \in Keys /\ k # None
  BY JobIs, HashTyped
<1>2. job' = [job EXCEPT ![r] = j]
  BY <1>1 DEF Hash
<1>. HIDE DEF k
<1>3. /\ j \in Job
      /\ j.pc = "stat" /\ j.index = job[r].index /\ j.key = k
      /\ j.template = job[r].template /\ j.embedded = job[r].embedded
      /\ j.seen = job[r].seen /\ j.remembered = job[r].remembered
      /\ j.close = job[r].close
  BY <1>1 DEF Job, States
<1>4. JobOk(j)
  BY <1>1, <1>3 DEF JobOk
<1>. HIDE DEF j
<1>5. JobsOk' /\ job'[r] = j /\ Others(r)
  BY <1>2, <1>4, JobTyped
<1> QED
  BY <1>3, <1>5 DEF k

(* ... or it is.                                                           *)
LEMMA StepHit ==
    ASSUME TypeOK, NEW r \in Renders, Hash(r),
           {t \in Loaded(TemplateHash) : t.index = job[r].index} # {}
    PROVE  \E t \in Loaded(TemplateHash) :
           /\ JobsOk' /\ Others(r) /\ t \in Template /\ t.index = job[r].index
           /\ job'[r].index = job[r].index /\ job'[r].key = TemplateHash
           /\ job'[r].seen = job[r].seen
           /\ job[r].index = 0 => /\ job'[r].pc = "rendering" /\ job'[r].remembered
                                  /\ job'[r].template = t
                                  /\ job'[r].embedded = job[r].embedded
           /\ job[r].index # 0 => /\ job'[r].pc = "done"
                                  /\ job'[r].remembered = job[r].remembered
                                  /\ job'[r].close = job[r].close
                                  /\ job'[r].template = job[r].template
                                  /\ job'[r].embedded = t
<1>. DEFINE k == TemplateHash
            b == job[r].remembered \/ job[r].index = 0
            i == [job[r] EXCEPT !.key = k, !.remembered = b]
<1>1. job[r] \in Job /\ job \in [Renders -> Job] /\ k \in Keys /\ k # None
  BY JobIs, HashTyped
<1>2. PICK t \in Loaded(k) : t.index = job[r].index /\ job' = [job EXCEPT ![r] = Resolved(i, t)]
  BY <1>1 DEF Hash
<1>3. t \in Template
  BY <1>1, LoadedTyped
<1>4. b \in BOOLEAN /\ (job[r].index = 0 => b) /\ (job[r].index # 0 => b = job[r].remembered)
  BY <1>1, JobFields
<1>. HIDE DEF k, b
<1>5. /\ i \in Job /\ i.index = job[r].index /\ i.key = k /\ i.seen = job[r].seen
      /\ i.remembered = b /\ i.close = job[r].close
      /\ i.template = job[r].template /\ i.embedded = job[r].embedded
  BY <1>1, <1>4 DEF Job
<1>. HIDE DEF i
<1>6. /\ JobsOk' /\ Others(r)
      /\ job'[r].index = i.index /\ job'[r].key = i.key
      /\ job'[r].seen = i.seen /\ job'[r].remembered = i.remembered
      /\ job'[r].close = i.close
      /\ i.index = 0 => /\ job'[r].pc = "rendering"
                        /\ job'[r].template = t /\ job'[r].embedded = i.embedded
      /\ i.index # 0 => /\ job'[r].pc = "done"
                        /\ job'[r].template = i.template /\ job'[r].embedded = t
  BY <1>1, <1>2, <1>3, <1>5, StepResolved
<1>7. job[r].index = 0 => job'[r].remembered
  BY <1>4, <1>5, <1>6
<1> QED
  BY <1>2, <1>3, <1>4, <1>5, <1>6, <1>7 DEF k

LEMMA TypeParts ==
    TypeOK <=>
      /\ config \in Configs /\ options \in Options
      /\ source \in [version : Versions, mtime : 0 .. MaxTime]
      /\ now \in 0 .. MaxTime
      /\ disk \in [Keys -> Files \cup {None}]
      /\ main \in [Keys -> Code \cup {None}]
      /\ embeds \in [Keys -> SUBSET Code]
      /\ nextEmbed \in Nat
      /\ JobsOk
      /\ changes \in 0 .. MaxOptionChanges /\ restarts \in 0 .. MaxRestarts
BY DEF TypeOK, JobsOk, JobOk

LEMMA FileTyped ==
    ASSUME TypeOK, NEW k \in Keys, File(k) # None
    PROVE  /\ config.cached /\ File(k) = disk[k] /\ disk[k] # None
           /\ disk[k] \in Files /\ disk[k].code \in Code /\ disk[k].code.embed \in Nat
           /\ disk[k].mtime \in 0 .. MaxTime
<1>1. config.cached /\ File(k) = disk[k]
  BY DEF File
<1>2. disk[k] \in Files
  BY <1>1 DEF TypeOK
<1>3. \A f \in Files : f.code \in Code /\ f.code.embed \in Nat /\ f.mtime \in 0 .. MaxTime
  BY DEF Files, Code
<1> QED
  BY <1>1, <1>2, <1>3

LEMMA KeyOf ==
    ASSUME TypeOK, NEW r \in Renders, Loads(r)
    PROVE  job[r].key \in Keys /\ job[r].key # None
<1>1. job[r].key # None
  BY JobIs DEF JobOk, Loads, States
<1> QED
  BY <1>1, JobIs, JobFields

(* The steps that take a module: from the cache, ...                       *)
LEMMA StepLoad ==
    ASSUME TypeOK, NEW r \in Renders, Load(r) \/ Reload(r)
    PROVE  LET hit == CacheHas(job[r].key, job[r].index)
           IN  /\ JobsOk' /\ Others(r)
               /\ job'[r].pc = (IF hit \/ job[r].pc = "reload" THEN "register" ELSE "read")
               /\ job'[r].index = job[r].index /\ job'[r].key = job[r].key
               /\ job'[r].code = (IF hit THEN disk[job[r].key].code ELSE job[r].code)
               /\ hit => config.cached /\ disk[job[r].key] # None
               /\ job'[r].template = job[r].template /\ job'[r].embedded = job[r].embedded
               /\ job'[r].seen = job[r].seen /\ job'[r].remembered = job[r].remembered
               /\ job'[r].close = job[r].close
<1>. DEFINE k == job[r].key
            hit == CacheHas(k, job[r].index)
<1>1. k \in Keys /\ k # None /\ job[r].pc \in {"load", "reload"}
  BY KeyOf DEF Load, Reload, Loads
<1>2. CASE hit
  <2>. DEFINE c == disk[k].code
  <2>1. File(k) # None
    BY <1>2 DEF CacheHas
  <2>2. c \in Code /\ File(k) = disk[k] /\ config.cached /\ disk[k] # None
    BY <1>1, <2>1, FileTyped
  <2>3. job' = [job EXCEPT ![r].pc = "register", ![r].code = c]
    BY <1>2, <2>2 DEF Load, Reload
  <2>. HIDE DEF c
  <2>4. /\ JobsOk' /\ Others(r)
        /\ job'[r].pc = "register" /\ job'[r].index = job[r].index /\ job'[r].key = job[r].key
        /\ job'[r].code = c
        /\ job'[r].template = job[r].template /\ job'[r].embedded = job[r].embedded
        /\ job'[r].seen = job[r].seen /\ job'[r].remembered = job[r].remembered
        /\ job'[r].close = job[r].close
    BY <1>1, <2>2, <2>3, StepModule
  <2> QED
    BY <1>2, <2>2, <2>4 DEF c
<1>3. CASE ~hit /\ job[r].pc = "reload"
  <2>. DEFINE c == job[r].code
  <2>1. c \in Code
    BY <1>3, JobIs
  <2>2. job' = [job EXCEPT ![r].pc = "register", ![r].code = c]
    BY <1>3 DEF Load, Reload
  <2>. HIDE DEF c
  <2>3. /\ JobsOk' /\ Others(r)
        /\ job'[r].pc = "register" /\ job'[r].index = job[r].index /\ job'[r].key = job[r].key
        /\ job'[r].code = c
        /\ job'[r].template = job[r].template /\ job'[r].embedded = job[r].embedded
        /\ job'[r].seen = job[r].seen /\ job'[r].remembered = job[r].remembered
        /\ job'[r].close = job[r].close
    BY <1>1, <2>1, <2>2, StepModule
  <2> QED
    BY <1>3, <2>3 DEF c
<1>4. CASE ~hit /\ job[r].pc = "load"
  <2>1. Goes(r, "read") /\ "read" \in States
    BY <1>4 DEF Load, Reload, States
  <2>2. /\ JobsOk' /\ Others(r)
        /\ job'[r].pc = "read" /\ job'[r].index = job[r].index /\ job'[r].key = job[r].key
        /\ job'[r].time = job[r].time /\ job'[r].code = job[r].code
        /\ job'[r].template = job[r].template /\ job'[r].embedded = job[r].embedded
        /\ job'[r].seen = job[r].seen /\ job'[r].remembered = job[r].remembered
        /\ job'[r].close = job[r].close
    BY <1>1, <2>1, StepGoes
  <2> QED
    BY <1>4, <2>2
<1> QED
  BY <1>1, <1>2, <1>3, <1>4

(* ... or from the source.                                                 *)
LEMMA StepCompile ==
    ASSUME TypeOK, NEW r \in Renders, Compile(r)
    PROVE  /\ JobsOk' /\ Others(r)
           /\ job'[r].pc = (IF config.cached THEN "write" ELSE "reload")
           /\ job'[r].index = job[r].index /\ job'[r].key = job[r].key
           /\ job'[r].code \in Code
           /\ job'[r].code.version = source.version /\ job'[r].code.options = options
           /\ job'[r].code.embed = nextEmbed
           /\ job'[r].template = job[r].template /\ job'[r].embedded = job[r].embedded
           /\ job'[r].seen = job[r].seen /\ job'[r].remembered = job[r].remembered
           /\ job'[r].close = job[r].close
<1>. DEFINE c == [version |-> source.version, options |-> options, embed |-> nextEmbed]
            pc == IF config.cached THEN "write" ELSE "reload"
<1>1. /\ c \in Code /\ c.version = source.version /\ c.options = options
      /\ c.embed = nextEmbed
  BY DEF TypeOK, Code
<1>2. pc \in {"write", "reload", "register"} /\ job[r].key # None
  BY KeyOf DEF Compile, Loads
<1>3. job' = [job EXCEPT ![r].pc = pc, ![r].code = c]
  BY DEF Compile
<1>. HIDE DEF c, pc
<1>4. /\ JobsOk' /\ Others(r)
      /\ job'[r].pc = pc /\ job'[r].index = job[r].index /\ job'[r].key = job[r].key
      /\ job'[r].code = c
      /\ job'[r].template = job[r].template /\ job'[r].embedded = job[r].embedded
      /\ job'[r].seen = job[r].seen /\ job'[r].remembered = job[r].remembered
      /\ job'[r].close = job[r].close
  BY <1>1, <1>2, <1>3, StepModule
<1> QED
  BY <1>1, <1>4 DEF pc

LEMMA StepFresh ==
    ASSUME TypeOK, NEW r \in Renders, Fresh(r)
    PROVE  /\ JobsOk' /\ Others(r)
           /\ job'[r].pc = (IF Passes(job[r].time) THEN "load" ELSE "read")
           /\ job'[r].index = job[r].index /\ job'[r].key = job[r].key
           /\ job'[r].time = job[r].time /\ job'[r].code = job[r].code
           /\ job'[r].template = job[r].template /\ job'[r].embedded = job[r].embedded
           /\ job'[r].seen = job[r].seen /\ job'[r].remembered = job[r].remembered
           /\ job'[r].close = IsClose(job[r].time)
<1>. DEFINE pc == IF Passes(job[r].time) THEN "load" ELSE "read"
            c == IsClose(job[r].time)
            j == [job[r] EXCEPT !.pc = pc, !.close = c]
<1>1. pc \in States /\ pc \in {"load", "read"} /\ job[r].key # None
  BY KeyOf DEF Fresh, Loads, States
<1>2. job[r] \in Job /\ job \in [Renders -> Job] /\ c \in BOOLEAN
  BY JobIs DEF IsClose
<1>3. job' = [job EXCEPT ![r] = j]
  BY <1>2 DEF Fresh, Passes
<1>. HIDE DEF pc, c
<1>4. /\ j \in Job
      /\ j.pc = pc /\ j.index = job[r].index /\ j.key = job[r].key
      /\ j.time = job[r].time /\ j.code = job[r].code
      /\ j.template = job[r].template /\ j.embedded = job[r].embedded
      /\ j.seen = job[r].seen /\ j.remembered = job[r].remembered
      /\ j.close = c
  BY <1>1, <1>2 DEF Job
<1>5. JobOk(j)
  BY <1>1, <1>4 DEF JobOk
<1>. HIDE DEF j
<1>6. JobsOk' /\ job'[r] = j /\ Others(r)
  BY <1>3, <1>5, JobTyped
<1> QED
  BY <1>4, <1>6 DEF pc, c

LEMMA StepRegister ==
    ASSUME TypeOK, NEW r \in Renders, Register(r)
    PROVE  /\ JobsOk' /\ Others(r) /\ job[r].code \in Code
           /\ job'[r].index = job[r].index
           /\ job'[r].seen = job[r].seen /\ job'[r].remembered = job[r].remembered
           /\ job'[r].close = job[r].close
           /\ job[r].index = 0 => /\ job'[r].pc = "rendering"
                                  /\ job'[r].template # None
                                  /\ job'[r].template.code = job[r].code
                                  /\ job'[r].embedded = job[r].embedded
           /\ job[r].index # 0 => job'[r].pc = "done"
<1>. DEFINE t == [code |-> job[r].code, index |-> 0]
<1>1. job[r].code \in Code /\ job[r] \in Job /\ job[r].key # None
  BY JobIs, KeyOf DEF Register, Loads
<1>2. t \in Template /\ t.code = job[r].code
  BY <1>1 DEF Template
<1>3. job' = [job EXCEPT ![r] = Resolved(job[r], t)]
  BY DEF Register
<1>. HIDE DEF t
<1>4. /\ JobsOk' /\ Others(r)
      /\ job'[r].index = job[r].index
      /\ job'[r].seen = job[r].seen /\ job'[r].remembered = job[r].remembered
      /\ job'[r].close = job[r].close
      /\ job[r].index = 0 => /\ job'[r].pc = "rendering"
                             /\ job'[r].template = t /\ job'[r].embedded = job[r].embedded
      /\ job[r].index # 0 => job'[r].pc = "done"
  BY <1>1, <1>2, <1>3, StepResolved
<1> QED
  BY <1>1, <1>2, <1>4, ConstantTypes

LEMMA EmbedsTyped ==
    ASSUME TypeOK, NEW k \in Keys, NEW c \in Code
    PROVE  EmbedsWith(k, c) \subseteq Code
BY DEF TypeOK, EmbedsWith

LEMMA InitTyped == Init => TypeOK
<1>. SUFFICES ASSUME Init PROVE TypeOK
  OBVIOUS
<1>1. config \in Configs /\ options \in Options /\ now = 1 /\ nextEmbed = 1
      /\ changes = 0 /\ restarts = 0
  BY DEF Init
<1>2. source \in [version : Versions, mtime : 0 .. MaxTime]
  BY ConstantTypes DEF Init
<1>3. /\ disk \in [Keys -> Files \cup {None}] /\ main \in [Keys -> Code \cup {None}]
      /\ embeds \in [Keys -> SUBSET Code]
  BY DEF Init
<1>4. JobsOk
  BY NoJobTyped DEF Init, JobsOk, JobOk
<1> QED
  BY <1>1, <1>2, <1>3, <1>4, ConstantTypes, TypeParts

LEMMA RenderTyped ==
    ASSUME TypeOK, JobsOk',
           UNCHANGED <<config, options, source, now, changes, restarts>>,
           disk' \in [Keys -> Files \cup {None}], main' \in [Keys -> Code \cup {None}],
           embeds' \in [Keys -> SUBSET Code], nextEmbed' \in Nat
    PROVE  TypeOK'
BY TypeParts DEF TypeOK, JobsOk, JobOk

LEMMA NextTyped == TypeOK /\ [Next]_vars => TypeOK'
<1>. SUFFICES ASSUME TypeOK, [Next]_vars PROVE TypeOK'
  OBVIOUS
<1>0. /\ disk \in [Keys -> Files \cup {None}] /\ main \in [Keys -> Code \cup {None}]
      /\ embeds \in [Keys -> SUBSET Code] /\ nextEmbed \in Nat
  BY DEF TypeOK
<1>1. ASSUME NEW r \in Renders, Begin(r) PROVE TypeOK'
  <2>1. JobsOk'
    BY <1>1, StepBegin
  <2> QED
    BY <1>0, <1>1, <2>1, RenderTyped DEF Begin
<1>2. ASSUME NEW r \in Renders, BeginEmbed(r) PROVE TypeOK'
  <2>1. JobsOk'
    BY <1>2, StepBeginEmbed
  <2> QED
    BY <1>0, <1>2, <2>1, RenderTyped DEF BeginEmbed
<1>3. ASSUME NEW r \in Renders, Finish(r) PROVE TypeOK'
  <2>1. JobsOk'
    <3>1. "done" \in States /\ Goes(r, "done") /\ job[r].key # None
      BY <1>3, JobIs DEF Finish, States, JobOk
    <3> QED
      BY <3>1, StepGoes
  <2> QED
    BY <1>0, <1>3, <2>1, RenderTyped DEF Finish
<1>4. ASSUME NEW r \in Renders, Hash(r) PROVE TypeOK'
  <2>1. JobsOk'
    BY <1>4, StepMiss, StepHit
  <2> QED
    BY <1>0, <1>4, <2>1, RenderTyped DEF Hash
<1>5. ASSUME NEW r \in Renders, Stat(r) PROVE TypeOK'
  <2>1. JobsOk'
    BY <1>5, StepStat
  <2> QED
    BY <1>0, <1>5, <2>1, RenderTyped DEF Stat
<1>6. ASSUME NEW r \in Renders, Fresh(r) PROVE TypeOK'
  <2>1. JobsOk'
    BY <1>6, StepFresh
  <2> QED
    BY <1>0, <1>6, <2>1, RenderTyped DEF Fresh
<1>7. ASSUME NEW r \in Renders, Load(r) \/ Reload(r) PROVE TypeOK'
  <2>1. JobsOk'
    BY <1>7, StepLoad
  <2> QED
    BY <1>0, <1>7, <2>1, RenderTyped DEF Load, Reload
<1>8. ASSUME NEW r \in Renders, Compile(r) PROVE TypeOK'
  <2>1. JobsOk'
    BY <1>8, StepCompile
  <2>2. nextEmbed' \in Nat
    BY <1>0, <1>8 DEF Compile
  <2> QED
    BY <1>0, <1>8, <2>1, <2>2, RenderTyped DEF Compile
<1>9. ASSUME NEW r \in Renders, Write(r) PROVE TypeOK'
  <2>1. JobsOk'
    BY <1>9, StepWrite
  <2> QED
    BY <1>0, <1>9, <2>1, RenderTyped DEF Write
<1>10. ASSUME NEW r \in Renders, Rename(r) PROVE TypeOK'
  <2>1. job[r].key \in Keys /\ job[r].key # None /\ job[r].code \in Code
        /\ job[r].time \in 0 .. MaxTime
    BY <1>10, KeyOf, JobIs, JobFields DEF Rename, Loads
  <2>2. JobsOk'
    <3>1. "reload" \in States /\ Goes(r, "reload") /\ job[r].code # None
      BY <1>10, <2>1, ConstantTypes DEF Rename, States
    <3> QED
      BY <2>1, <3>1, StepGoes
  <2>3. disk' \in [Keys -> Files \cup {None}]
    <3>1. [code |-> job[r].code, mtime |-> job[r].time] \in Files
      BY <2>1 DEF Files
    <3> QED
      BY <1>0, <1>10, <3>1 DEF Rename
  <2> QED
    BY <1>0, <1>10, <2>2, <2>3, RenderTyped DEF Rename
<1>11. ASSUME NEW r \in Renders, Fail(r) PROVE TypeOK'
  <2>1. JobsOk'
    BY <1>11, StepGoes DEF Fail, States
  <2> QED
    BY <1>0, <1>11, <2>1, RenderTyped DEF Fail
<1>12. ASSUME NEW r \in Renders, Register(r) PROVE TypeOK'
  <2>1. JobsOk' /\ job[r].code \in Code /\ TemplateHash \in Keys
    BY <1>12, StepRegister, HashTyped
  <2>2. EmbedsWith(TemplateHash, job[r].code) \subseteq Code
    BY <2>1, EmbedsTyped
  <2>3. main' \in [Keys -> Code \cup {None}] /\ embeds' \in [Keys -> SUBSET Code]
    BY <1>0, <1>12, <2>1, <2>2 DEF Register
  <2> QED
    BY <1>0, <1>12, <2>1, <2>3, RenderTyped DEF Register
<1>13. CASE Edit
  <2>1. /\ source' \in [version : Versions, mtime : 0 .. MaxTime]
        /\ UNCHANGED <<config, options, now, disk, main, embeds, nextEmbed, job, changes, restarts>>
    BY <1>13, ConstantTypes DEF Edit, TypeOK, Versions
  <2> QED
    BY <2>1 DEF TypeOK
<1>14. CASE SetOptions
  <2>1. /\ options' \in Options /\ changes' \in 0 .. MaxOptionChanges
        /\ UNCHANGED <<config, source, now, disk, main, embeds, nextEmbed, job, restarts>>
    BY <1>14, ConstantTypes DEF SetOptions, TypeOK
  <2> QED
    BY <2>1 DEF TypeOK
<1>15. CASE Restart
  <2>1. /\ main' \in [Keys -> Code \cup {None}] /\ embeds' \in [Keys -> SUBSET Code]
        /\ nextEmbed' = 1 /\ restarts' \in 0 .. MaxRestarts
        /\ UNCHANGED <<config, options, source, now, disk, changes>>
    BY <1>15, ConstantTypes DEF Restart, TypeOK
  <2>2. JobsOk'
    BY <1>15, NoJobTyped DEF Restart, JobsOk, JobOk
  <2> QED
    BY <2>1, <2>2 DEF TypeOK, JobsOk, JobOk
<1>16. CASE Tick
  <2>1. /\ now' \in 0 .. MaxTime
        /\ UNCHANGED <<config, options, source, disk, main, embeds, nextEmbed, job, changes, restarts>>
    BY <1>16, ConstantTypes DEF Tick, TypeOK
  <2> QED
    BY <2>1 DEF TypeOK
<1>17. CASE UNCHANGED vars
  BY <1>17 DEF vars, TypeOK
<1> QED
  BY <1>1, <1>2, <1>3, <1>4, <1>5, <1>6, <1>7, <1>8, <1>9, <1>10, <1>11, <1>12, <1>13, <1>14,
     <1>15, <1>16, <1>17 DEF Next

(* Whatever changes when, the variables have their types: a load knows its *)
(* key once it has computed it and its module before it registers it, and  *)
(* a render goes on with a template.                                       *)
THEOREM LoadingTyped == Spec => []TypeOK
BY InitTyped, NextTyped, PTL DEF Spec

-----------------------------------------------------------------------------
(* What a step of one render leaves alone *)

(* The files are no older than they were.                                  *)
FilesKept ==
    \A k \in Keys : UpToDate(k) =>
        (disk'[k] # None => disk'[k].code.version = source'.version)

LEMMA SameHash ==
    ASSUME UNCHANGED <<config, options, source>>
    PROVE  /\ TemplateHash' = TemplateHash /\ (Tracked' <=> Tracked)
           /\ \A t : Passes(t)' <=> Passes(t)
BY DEF TemplateHash, Tracked, Passes, IsFresh

LEMMA LoaderIs ==
    ASSUME TypeOK
    PROVE  /\ config.loader \in {"filesystem", "array"}
           /\ config.cached \in BOOLEAN /\ config.autoReload \in BOOLEAN
           /\ source.version \in Nat \ {0} /\ source.mtime \in Nat /\ now \in Nat
           /\ nextEmbed \in Nat
<1>1. config \in Config
  BY LoadingAssumption DEF TypeOK
<1> QED
  BY <1>1, ConstantTypes DEF Config, TypeOK, Versions

(* The other renders know what they knew, as long as the files are no      *)
(* older and the memory keeps what it has.                                 *)
LEMMA OtherKnows ==
    ASSUME TypeOK, NEW r \in Renders, NEW q \in Renders, q # r, Others(r), Knows(q),
           UNCHANGED <<config, options, source, now>>, FilesKept,
           embeds[TemplateHash] \subseteq embeds'[TemplateHash]
    PROVE  Knows(q)'
<1>1. job'[q] = job[q]
  BY DEF Others
<1>2. TemplateHash' = TemplateHash /\ (Tracked' <=> Tracked)
  BY SameHash
<1>3. (FirstLoad(q)' <=> FirstLoad(q)) /\ (Loads(q)' <=> Loads(q)) /\ (Holds(q)' <=> Holds(q))
  BY <1>1 DEF FirstLoad, Loads, Holds
<1>4. HasTemplate(q) => HasTemplate(q)'
  BY <1>1, <1>2 DEF HasTemplate
<1>5. \A c, k : Matches(c, k)' <=> Matches(c, k)
  BY DEF Matches
<1>6. job[q].pc \in {"fresh", "load", "reload"} => job[q].key \in Keys
  BY KeyOf DEF Loads
<1>7. /\ job[q].pc = "fresh" /\ config.loader = "filesystem" /\ source.mtime < job[q].time
           => UpToDate(job[q].key)'
      /\ job[q].pc = "load" /\ config.loader = "filesystem" /\ config.autoReload
           => UpToDate(job[q].key)' \/ job[q].close
      /\ job[q].pc = "reload" => UpToDate(job[q].key)'
  <2>1. job[q].pc \in {"fresh", "load", "reload"} /\ UpToDate(job[q].key)
           => UpToDate(job[q].key)'
    BY <1>1, <1>6 DEF FilesKept, UpToDate
  <2> QED
    BY <2>1 DEF Knows
<1> QED
  BY <1>1, <1>2, <1>3, <1>4, <1>5, <1>7 DEF Knows

LEMMA OthersCurrent ==
    ASSUME NEW r \in Renders, NEW q \in Renders, q # r, Others(r), UNCHANGED config,
           IsCurrent(q), IsItsEmbed(q)
    PROVE  IsCurrent(q)' /\ IsItsEmbed(q)'
BY DEF Others, IsCurrent, IsItsEmbed, Tracked

LEMMA RendersKept ==
    ASSUME TypeOK, RenderInv, NEW r \in Renders, Others(r),
           UNCHANGED <<config, options, source, now>>, FilesKept,
           embeds[TemplateHash] \subseteq embeds'[TemplateHash],
           Knows(r)', IsCurrent(r)', IsItsEmbed(r)'
    PROVE  RenderInv'
<1>1. SUFFICES ASSUME NEW q \in Renders PROVE (Knows(q) /\ IsCurrent(q) /\ IsItsEmbed(q))'
  BY DEF RenderInv
<1>2. CASE q = r
  BY <1>2
<1>3. CASE q # r
  BY <1>3, OtherKnows, OthersCurrent DEF RenderInv
<1> QED
  BY <1>2, <1>3

(* A render that keeps its templates.                                      *)
LEMMA SameTemplates ==
    ASSUME NEW r \in Renders, UNCHANGED config, IsCurrent(r), IsItsEmbed(r),
           job'[r].template = job[r].template, job'[r].embedded = job[r].embedded,
           job'[r].seen = job[r].seen, job'[r].remembered = job[r].remembered,
           job'[r].close = job[r].close,
           job'[r].index = job[r].index
    PROVE  IsCurrent(r)' /\ IsItsEmbed(r)'
BY DEF IsCurrent, IsItsEmbed, Tracked

(* A first load that goes on is one.                                       *)
LEMMA StillFirst ==
    ASSUME NEW r \in Renders, UNCHANGED source, FirstLoad(r),
           job'[r].template = job[r].template, job'[r].embedded = job[r].embedded,
           job'[r].seen = job[r].seen, job'[r].remembered = job[r].remembered,
           job'[r].index = job[r].index
    PROVE  FirstLoad(r)' /\ IsCurrent(r)' /\ IsItsEmbed(r)'
BY DEF FirstLoad, IsCurrent, IsItsEmbed

LEMMA StoresKept ==
    /\ MemoryInv /\ UNCHANGED <<main, embeds>> => MemoryInv'
    /\ DiskInv /\ UNCHANGED <<config, source, now, disk>> => DiskInv' /\ FilesKept
<1>1. ASSUME MemoryInv, UNCHANGED <<main, embeds>> PROVE MemoryInv'
  BY <1>1 DEF MemoryInv, Matches
<1>2. ASSUME DiskInv, UNCHANGED <<config, source, now, disk>> PROVE DiskInv' /\ FilesKept
  BY <1>2 DEF DiskInv, Matches, UpToDate, FilesKept
<1> QED
  BY <1>1, <1>2

-----------------------------------------------------------------------------
(* What each step of a render leaves it knowing *)

LEMMA BeginKeeps ==
    ASSUME LoadingInv, NEW r \in Renders, Begin(r)
    PROVE  RenderInv'
<1>1. TypeOK /\ RenderInv /\ Knows(r) /\ IsCurrent(r) /\ IsItsEmbed(r)
  BY DEF LoadingInv, RenderInv
<1>2. job[r] = NoJob /\ UNCHANGED <<config, options, source, now, disk, embeds>>
  BY <1>1 DEF Begin, Knows
<1>3. /\ Others(r)
      /\ job'[r].pc = "hash" /\ job'[r].index = job[r].index
      /\ job'[r].template = job[r].template /\ job'[r].embedded = job[r].embedded
      /\ job'[r].seen = source.version /\ job'[r].remembered = job[r].remembered
      /\ job'[r].close = job[r].close
  BY <1>1, StepBegin
<1>4. FirstLoad(r)' /\ job'[r].template = None /\ job'[r].embedded = None
  BY <1>2, <1>3 DEF FirstLoad, NoJob
<1>5. Knows(r)'
  BY <1>3, <1>4 DEF Knows, Loads, Holds
<1>6. IsCurrent(r)' /\ IsItsEmbed(r)'
  BY <1>4 DEF IsCurrent, IsItsEmbed
<1> QED
  BY <1>1, <1>2, <1>3, <1>5, <1>6, RendersKept, StoresKept DEF LoadingInv

LEMMA BeginEmbedKeeps ==
    ASSUME LoadingInv, NEW r \in Renders, BeginEmbed(r)
    PROVE  RenderInv'
<1>1. TypeOK /\ RenderInv /\ Knows(r) /\ IsCurrent(r) /\ IsItsEmbed(r)
  BY DEF LoadingInv, RenderInv
<1>2. HasTemplate(r) /\ UNCHANGED <<config, options, source, now, disk, embeds>>
  BY <1>1 DEF BeginEmbed, Knows
<1>3. /\ Others(r)
      /\ job'[r].pc = "hash" /\ job'[r].index = job[r].template.code.embed
      /\ job'[r].template = job[r].template /\ job'[r].embedded = job[r].embedded
      /\ job'[r].seen = job[r].seen /\ job'[r].remembered = job[r].remembered
      /\ job'[r].close = job[r].close
  BY <1>1, StepBeginEmbed
<1>4. HasTemplate(r)' /\ job'[r].index = job'[r].template.code.embed /\ job'[r].embedded = None
  BY <1>2, <1>3, SameHash DEF HasTemplate
<1>5. Knows(r)'
  BY <1>3, <1>4 DEF Knows, Loads, Holds
<1>6. IsCurrent(r)' /\ IsItsEmbed(r)'
  BY <1>1, <1>2, <1>3, <1>4 DEF IsCurrent, IsItsEmbed, Tracked
<1> QED
  BY <1>1, <1>2, <1>3, <1>5, <1>6, RendersKept, StoresKept DEF LoadingInv

(* The render, or its load, ends.                                          *)
LEMMA EndKeeps ==
    ASSUME LoadingInv, NEW r \in Renders, NEW pc \in {"done", "failed"}, Goes(r, pc),
           pc = "done" => job[r].key # None,
           UNCHANGED <<config, options, source, now, disk, embeds>>
    PROVE  RenderInv'
<1>1. TypeOK /\ RenderInv /\ Knows(r) /\ IsCurrent(r) /\ IsItsEmbed(r)
  BY DEF LoadingInv, RenderInv
<1>2. /\ Others(r) /\ job'[r].pc = pc /\ job'[r].index = job[r].index
      /\ job'[r].template = job[r].template /\ job'[r].embedded = job[r].embedded
      /\ job'[r].seen = job[r].seen /\ job'[r].remembered = job[r].remembered
      /\ job'[r].close = job[r].close
  <2>1. pc \in States /\ pc \notin {"write", "rename", "reload", "register", "rendering"}
    BY DEF States
  <2> QED
    BY <1>1, <2>1, StepGoes
<1>3. Knows(r)'
  BY <1>2 DEF Knows, Loads, Holds
<1>4. IsCurrent(r)' /\ IsItsEmbed(r)'
  BY <1>1, <1>2, SameTemplates
<1> QED
  BY <1>1, <1>2, <1>3, <1>4, RendersKept, StoresKept DEF LoadingInv

(* The memory has no template of a first load that misses.                 *)
LEMMA MissIsFirst ==
    ASSUME LoadingInv, NEW r \in Renders, Hash(r),
           {t \in Loaded(TemplateHash) : t.index = job[r].index} = {}
    PROVE  FirstLoad(r) /\ main[TemplateHash] = None /\ embeds[TemplateHash] = {}
<1>. DEFINE k == TemplateHash
<1>1. k \in Keys /\ Knows(r) /\ MemoryInv
  BY HashTyped DEF LoadingInv, RenderInv
<1>2. FirstLoad(r) \/ (HasTemplate(r) /\ job[r].index = job[r].template.code.embed)
  BY <1>1 DEF Knows, Hash
<1>3. ~ HasTemplate(r) \/ job[r].index # job[r].template.code.embed
  <2>1. SUFFICES ASSUME HasTemplate(r), job[r].index = job[r].template.code.embed PROVE FALSE
    OBVIOUS
  <2>. DEFINE c == job[r].template.code
              t == [code |-> c, index |-> c.embed]
  <2>2. c \in embeds[k]
    BY <2>1 DEF HasTemplate
  <2>3. t \in Loaded(k)
    BY <2>2 DEF Loaded
  <2>4. t.index = job[r].index
    BY <2>1
  <2> QED
    BY <2>3, <2>4
<1>4. FirstLoad(r) /\ job[r].index = 0
  BY <1>2, <1>3 DEF FirstLoad
<1>5. main[k] = None
  <2>1. SUFFICES ASSUME main[k] # None PROVE FALSE
    OBVIOUS
  <2>. DEFINE t == [code |-> main[k], index |-> 0]
  <2>2. t \in Loaded(k)
    BY <2>1 DEF Loaded
  <2> QED
    BY <1>4, <2>2
<1> QED
  BY <1>1, <1>4, <1>5 DEF MemoryInv

LEMMA MissKeeps ==
    ASSUME LoadingInv, NEW r \in Renders, Hash(r),
           {t \in Loaded(TemplateHash) : t.index = job[r].index} = {}
    PROVE  RenderInv'
<1>1. TypeOK /\ RenderInv /\ FirstLoad(r)
  BY MissIsFirst DEF LoadingInv
<1>2. UNCHANGED <<config, options, source, now, disk, embeds>>
  BY DEF Hash
<1>3. /\ Others(r) /\ job'[r].pc = "stat" /\ job'[r].index = job[r].index
      /\ job'[r].key = TemplateHash
      /\ job'[r].template = job[r].template /\ job'[r].embedded = job[r].embedded
      /\ job'[r].seen = job[r].seen /\ job'[r].remembered = job[r].remembered
      /\ job'[r].close = job[r].close
  BY <1>1, StepMiss
<1>4. FirstLoad(r)' /\ IsCurrent(r)' /\ IsItsEmbed(r)' /\ TemplateHash' = TemplateHash
  BY <1>1, <1>2, <1>3, StillFirst, SameHash
<1>5. Knows(r)'
  BY <1>3, <1>4 DEF Knows, Loads, Holds
<1> QED
  BY <1>1, <1>2, <1>3, <1>4, <1>5, RendersKept, StoresKept DEF LoadingInv

(* What the memory has under the hash, by its index.                       *)
LEMMA FoundInMemory ==
    ASSUME MemoryInv, NEW k \in Keys, NEW t \in Loaded(k)
    PROVE  /\ t.code \in embeds[k]
           /\ t.index # 0 => t = [code |-> t.code, index |-> t.code.embed]
<1>1. main[k] # None => main[k] \in embeds[k]
  BY DEF MemoryInv
<1>2. CASE main[k] # None /\ t = [code |-> main[k], index |-> 0]
  BY <1>1, <1>2
<1>3. ASSUME NEW c \in embeds[k], t = [code |-> c, index |-> c.embed]
      PROVE  t.code = c /\ t.index = t.code.embed
  BY <1>3
<1>4. (\E c \in embeds[k] : t = [code |-> c, index |-> c.embed])
      \/ (main[k] # None /\ t = [code |-> main[k], index |-> 0])
  BY DEF Loaded
<1> QED
  BY <1>2, <1>3, <1>4

LEMMA HitKeeps ==
    ASSUME LoadingInv, NEW r \in Renders, Hash(r),
           {t \in Loaded(TemplateHash) : t.index = job[r].index} # {}
    PROVE  RenderInv'
<1>. DEFINE k == TemplateHash
<1>1. /\ TypeOK /\ RenderInv /\ MemoryInv /\ k \in Keys
      /\ Knows(r) /\ IsCurrent(r) /\ IsItsEmbed(r)
  BY HashTyped DEF LoadingInv, RenderInv
<1>2. UNCHANGED <<config, options, source, now, disk, embeds>> /\ TemplateHash' = TemplateHash
  BY SameHash DEF Hash
<1>3. PICK t \in Loaded(k) :
        /\ Others(r) /\ t \in Template /\ t.index = job[r].index
        /\ job'[r].index = job[r].index /\ job'[r].key = TemplateHash
        /\ job'[r].seen = job[r].seen
        /\ job[r].index = 0 => /\ job'[r].pc = "rendering" /\ job'[r].remembered
                               /\ job'[r].template = t
                               /\ job'[r].embedded = job[r].embedded
        /\ job[r].index # 0 => /\ job'[r].pc = "done"
                               /\ job'[r].remembered = job[r].remembered
                               /\ job'[r].close = job[r].close
                               /\ job'[r].template = job[r].template
                               /\ job'[r].embedded = t
  BY <1>1, StepHit
<1>4. /\ t.code \in embeds[k] /\ t.code.embed # 0 /\ t # None
      /\ t.index # 0 => t = [code |-> t.code, index |-> t.code.embed]
  <2>1. t.code \in embeds[k] /\ (t.index # 0 => t = [code |-> t.code, index |-> t.code.embed])
    BY <1>1, FoundInMemory
  <2> QED
    BY <1>1, <1>3, <2>1, ConstantTypes DEF MemoryInv
<1>5. FirstLoad(r) \/ (HasTemplate(r) /\ job[r].index = job[r].template.code.embed)
  BY <1>1 DEF Knows, Hash
<1>6. CASE job[r].index = 0
  <2>1. FirstLoad(r)
    BY <1>1, <1>5, <1>6 DEF HasTemplate, MemoryInv
  <2>2. HasTemplate(r)' /\ job'[r].embedded = None
    BY <1>2, <1>3, <1>4, <1>6, <2>1 DEF HasTemplate, FirstLoad
  <2>3. Knows(r)'
    BY <1>3, <1>6, <2>2 DEF Knows, Loads, Holds
  <2>4. IsCurrent(r)' /\ IsItsEmbed(r)'
    BY <1>3, <1>6, <2>2 DEF IsCurrent, IsItsEmbed
  <2> QED
    BY <1>1, <1>2, <1>3, <2>3, <2>4, RendersKept, StoresKept DEF LoadingInv
<1>7. CASE job[r].index # 0
  <2>1. HasTemplate(r) /\ job[r].index = job[r].template.code.embed
    BY <1>5, <1>7 DEF FirstLoad
  <2>2. t.code = job[r].template.code
    <3>1. t.code.embed = job[r].template.code.embed
      BY <1>3, <1>4, <1>7, <2>1
    <3>2. t.code \in embeds[k] /\ job[r].template.code \in embeds[k]
      BY <1>4, <2>1 DEF HasTemplate
    <3> QED
      BY <1>1, <3>1, <3>2 DEF MemoryInv
  <2>3. t = [code |-> job'[r].template.code, index |-> job'[r].index]
    BY <1>3, <1>4, <1>7, <2>1, <2>2
  <2>4. Knows(r)'
    BY <1>3, <1>7 DEF Knows, Loads, Holds
  <2>5. IsItsEmbed(r)'
    BY <1>3, <1>7, <2>3 DEF IsItsEmbed
  <2>6. IsCurrent(r)'
    BY <1>1, <1>2, <1>3, <1>7 DEF IsCurrent, Tracked
  <2> QED
    BY <1>1, <1>2, <1>3, <2>4, <2>5, <2>6, RendersKept, StoresKept DEF LoadingInv
<1> QED
  BY <1>6, <1>7

(* A render that loads, and knows that it does.                            *)
LEMMA LoadFacts ==
    ASSUME LoadingInv, NEW r \in Renders, Loads(r)
    PROVE  /\ TypeOK /\ RenderInv /\ DiskInv /\ Knows(r) /\ FirstLoad(r)
           /\ IsCurrent(r) /\ IsItsEmbed(r)
           /\ job[r].key = TemplateHash /\ TemplateHash \in Keys
           /\ TemplateHash.options = options
           /\ TemplateHash.content \in {0, source.version}
           /\ config.loader = "array" => TemplateHash.content = source.version
<1>1. TypeOK /\ RenderInv /\ DiskInv /\ Knows(r) /\ IsCurrent(r) /\ IsItsEmbed(r)
  BY DEF LoadingInv, RenderInv
<1>2. FirstLoad(r) /\ job[r].key = TemplateHash
  BY <1>1 DEF Knows
<1> QED
  BY <1>1, <1>2, HashTyped DEF TemplateHash

LEMMA StatKeeps ==
    ASSUME LoadingInv, NEW r \in Renders, Stat(r)
    PROVE  RenderInv'
<1>. DEFINE k == TemplateHash
<1>1. Loads(r)
  BY DEF Stat, Loads
<1>2. /\ TypeOK /\ RenderInv /\ DiskInv /\ FirstLoad(r) /\ IsCurrent(r) /\ IsItsEmbed(r)
      /\ job[r].key = k /\ k \in Keys
  BY <1>1, LoadFacts
<1>3. UNCHANGED <<config, options, source, now, disk, embeds>> /\ TemplateHash' = TemplateHash
  BY SameHash DEF Stat
<1>4. /\ Others(r) /\ job'[r].pc = "fresh" /\ job'[r].index = job[r].index
      /\ job'[r].key = job[r].key
      /\ job'[r].time = (IF File(k) = None THEN 0 ELSE File(k).mtime)
      /\ job'[r].template = job[r].template /\ job'[r].embedded = job[r].embedded
      /\ job'[r].seen = job[r].seen /\ job'[r].remembered = job[r].remembered
      /\ job'[r].close = job[r].close
  BY <1>2, StepStat
<1>5. FirstLoad(r)' /\ IsCurrent(r)' /\ IsItsEmbed(r)'
  BY <1>2, <1>3, <1>4, StillFirst
<1>6. config.loader = "filesystem" /\ source.mtime < job'[r].time => UpToDate(k)
  <2>1. CASE File(k) = None
    BY <1>2, <1>4, <2>1, LoaderIs
  <2>2. CASE File(k) # None
    BY <1>2, <1>4, <2>2, FileTyped DEF DiskInv
  <2> QED
    BY <2>1, <2>2
<1>7. config.loader = "filesystem" /\ source.mtime < job'[r].time => UpToDate(job[r].key)'
  BY <1>2, <1>3, <1>4, <1>6 DEF UpToDate
<1>8. Knows(r)'
  BY <1>2, <1>3, <1>4, <1>5, <1>7 DEF Knows, Loads, Holds
<1> QED
  BY <1>2, <1>3, <1>4, <1>5, <1>8, RendersKept, StoresKept

(* What a filesystem loader takes for fresh is older than the module, or   *)
(* too close to it to tell.                                                *)
LEMMA FreshIsOlder ==
    ASSUME TypeOK, NEW time \in 0 .. MaxTime, config.loader = "filesystem",
           IsFresh(time), ~ IsClose(time)
    PROVE  source.mtime < time
<1>. DEFINE s == source.mtime
            g == GetTime[s]
<1>1. s \in 0 .. MaxTime /\ MaxTime \in Nat /\ Millisecond \in Nat
  BY LoadingAssumption DEF TypeOK
<1>2. g \in Nat /\ s < g + Millisecond
  BY <1>1, ClockAssumption
<1>3. g < time
  BY DEF IsFresh
<1>4. time = 0 \/ s \notin time .. time + Millisecond - 1
  BY DEF IsClose
<1>. HIDE DEF s, g
<1>5. s < time
  BY <1>1, <1>2, <1>3, <1>4
<1> QED
  BY <1>5 DEF s

LEMMA FreshKeeps ==
    ASSUME LoadingInv, NEW r \in Renders, Fresh(r)
    PROVE  RenderInv'
<1>. DEFINE k == TemplateHash
            t == job[r].time
<1>1. Loads(r) /\ job[r].pc = "fresh"
  BY DEF Fresh, Loads
<1>2. /\ TypeOK /\ RenderInv /\ DiskInv /\ FirstLoad(r) /\ job[r].key = k /\ Knows(r)
      /\ t \in 0 .. MaxTime
  BY <1>1, LoadFacts, JobIs, JobFields
<1>3. UNCHANGED <<config, options, source, now, disk, embeds>> /\ TemplateHash' = TemplateHash
  BY SameHash DEF Fresh
<1>4. /\ Others(r) /\ job'[r].pc = (IF Passes(t) THEN "load" ELSE "read")
      /\ job'[r].index = job[r].index /\ job'[r].key = job[r].key
      /\ job'[r].template = job[r].template /\ job'[r].embedded = job[r].embedded
      /\ job'[r].seen = job[r].seen /\ job'[r].remembered = job[r].remembered
      /\ job'[r].close = IsClose(t)
  BY <1>2, StepFresh
<1>5. FirstLoad(r)' /\ IsCurrent(r)' /\ IsItsEmbed(r)'
  BY <1>2, <1>3, <1>4, StillFirst
<1>6. job'[r].pc = "load" /\ config.loader = "filesystem" /\ config.autoReload
          => UpToDate(k) \/ job'[r].close
  <2>1. SUFFICES ASSUME Passes(t), config.loader = "filesystem", config.autoReload, ~ IsClose(t)
                 PROVE  UpToDate(k)
    BY <1>4
  <2>2. source.mtime < t
    BY <1>2, <2>1, FreshIsOlder DEF Passes
  <2> QED
    BY <1>1, <1>2, <2>1, <2>2 DEF Knows
<1>7. job'[r].pc = "load" /\ config.loader = "filesystem" /\ config.autoReload
          => UpToDate(job[r].key)' \/ job'[r].close
  BY <1>2, <1>3, <1>4, <1>6 DEF UpToDate
<1>8. job'[r].pc \in {"load", "read"}
  BY <1>4
<1>9. Knows(r)'
  BY <1>2, <1>3, <1>4, <1>5, <1>7, <1>8 DEF Knows, Loads, Holds
<1> QED
  BY <1>2, <1>3, <1>4, <1>5, <1>9, RendersKept, StoresKept

(* The module that a load takes from its cache is the source as it is, or  *)
(* has been too close to it to tell.                                       *)
LEMMA LoadKeeps ==
    ASSUME LoadingInv, NEW r \in Renders, Load(r) \/ Reload(r)
    PROVE  RenderInv'
<1>. DEFINE k == TemplateHash
            hit == CacheHas(k, job[r].index)
<1>1. Loads(r) /\ job[r].pc \in {"load", "reload"}
  BY DEF Load, Reload, Loads
<1>2. /\ TypeOK /\ RenderInv /\ DiskInv /\ FirstLoad(r) /\ job[r].key = k /\ Knows(r) /\ k \in Keys
      /\ config.loader = "array" => k.content = source.version
  BY <1>1, LoadFacts
<1>3. UNCHANGED <<config, options, source, now, disk, embeds>> /\ TemplateHash' = TemplateHash
  BY SameHash DEF Load, Reload
<1>4. /\ Others(r)
      /\ job'[r].pc = (IF hit \/ job[r].pc = "reload" THEN "register" ELSE "read")
      /\ job'[r].index = job[r].index /\ job'[r].key = job[r].key
      /\ job'[r].code = (IF hit THEN disk[k].code ELSE job[r].code)
      /\ hit => config.cached /\ disk[k] # None
      /\ job'[r].template = job[r].template /\ job'[r].embedded = job[r].embedded
      /\ job'[r].seen = job[r].seen /\ job'[r].remembered = job[r].remembered
      /\ job'[r].close = job[r].close
  BY <1>2, StepLoad
<1>. HIDE DEF hit
<1>5. FirstLoad(r)' /\ IsCurrent(r)' /\ IsItsEmbed(r)'
  BY <1>2, <1>3, <1>4, StillFirst
<1>6. ASSUME job'[r].pc = "register"
      PROVE  /\ job'[r].code.embed # 0 /\ Matches(job'[r].code, k)
             /\ Tracked => job'[r].code.version = source.version \/ job[r].close
  <2>1. CASE hit
    <3>1. disk[k].code.embed # 0 /\ Matches(disk[k].code, k) /\ disk[k] # None
      BY <1>2, <1>4, <2>1 DEF DiskInv
    <3>2. config.loader = "array" => disk[k].code.version = source.version
      BY <1>2, <3>1, LoaderIs DEF Matches
    <3>3. job[r].pc = "reload" \/ (config.loader = "filesystem" /\ config.autoReload)
             => disk[k].code.version = source.version \/ job[r].close
      BY <1>1, <1>2, <3>1 DEF Knows, UpToDate
    <3>4. Tracked => disk[k].code.version = source.version \/ job[r].close
      BY <1>2, <1>4, <2>1, <3>2, <3>3, LoaderIs DEF Tracked
    <3> QED
      BY <1>4, <2>1, <3>1, <3>4
  <2>2. CASE ~ hit
    <3>1. job[r].pc = "reload" /\ job'[r].code = job[r].code
      BY <1>4, <1>6, <2>2
    <3> QED
      BY <1>2, <3>1 DEF Knows, Holds
  <2> QED
    BY <2>1, <2>2
<1>7. job'[r].pc = "register" =>
        /\ (job[r].code.embed # 0 /\ Matches(job[r].code, job[r].key))'
        /\ Tracked' => job'[r].code.version = source'.version \/ job'[r].close
  BY <1>2, <1>3, <1>4, <1>6, SameHash DEF Matches
<1>8. job'[r].pc \in {"register", "read"}
  BY <1>4
<1>9. Knows(r)'
  BY <1>2, <1>3, <1>4, <1>5, <1>7, <1>8 DEF Knows, Loads, Holds
<1> QED
  BY <1>2, <1>3, <1>4, <1>5, <1>9, RendersKept, StoresKept

LEMMA CompileKeeps ==
    ASSUME LoadingInv, NEW r \in Renders, Compile(r)
    PROVE  RenderInv'
<1>. DEFINE k == TemplateHash
<1>1. Loads(r) /\ nextEmbed # 0
  BY DEF Compile, Loads, LoadingInv
<1>2. /\ TypeOK /\ RenderInv /\ DiskInv /\ FirstLoad(r) /\ job[r].key = k /\ k \in Keys
      /\ k.options = options /\ k.content \in {0, source.version}
  BY <1>1, LoadFacts
<1>3. UNCHANGED <<config, options, source, now, disk, embeds>> /\ TemplateHash' = TemplateHash
  BY SameHash DEF Compile
<1>4. /\ Others(r) /\ job'[r].pc = (IF config.cached THEN "write" ELSE "reload")
      /\ job'[r].index = job[r].index /\ job'[r].key = job[r].key
      /\ job'[r].code.version = source.version /\ job'[r].code.options = options
      /\ job'[r].code.embed = nextEmbed
      /\ job'[r].template = job[r].template /\ job'[r].embedded = job[r].embedded
      /\ job'[r].seen = job[r].seen /\ job'[r].remembered = job[r].remembered
      /\ job'[r].close = job[r].close
  BY <1>2, StepCompile
<1>5. FirstLoad(r)' /\ IsCurrent(r)' /\ IsItsEmbed(r)'
  BY <1>2, <1>3, <1>4, StillFirst
<1>6. (job[r].code.embed # 0 /\ Matches(job[r].code, job[r].key))'
  BY <1>1, <1>2, <1>4 DEF Matches
<1>7. job'[r].pc = "reload" => UpToDate(job[r].key)'
  BY <1>2, <1>3, <1>4 DEF DiskInv, UpToDate
<1>8. job'[r].pc \in {"write", "reload"} /\ (job'[r].pc = "write" => config'.cached)
  BY <1>3, <1>4
<1>9. Knows(r)'
  BY <1>2, <1>3, <1>4, <1>5, <1>6, <1>7, <1>8 DEF Knows, Loads, Holds
<1> QED
  BY <1>2, <1>3, <1>4, <1>5, <1>9, RendersKept, StoresKept

LEMMA WriteKeeps ==
    ASSUME LoadingInv, NEW r \in Renders, Write(r)
    PROVE  RenderInv'
<1>1. Loads(r) /\ job[r].pc = "write"
  BY DEF Write, Loads
<1>2. /\ TypeOK /\ RenderInv /\ DiskInv /\ FirstLoad(r) /\ Knows(r)
      /\ job[r].key = TemplateHash
  BY <1>1, LoadFacts
<1>3. UNCHANGED <<config, options, source, now, disk, embeds>> /\ TemplateHash' = TemplateHash
  BY SameHash DEF Write
<1>4. /\ Others(r) /\ job'[r].pc = "rename" /\ job'[r].index = job[r].index
      /\ job'[r].key = job[r].key /\ job'[r].time = now /\ job'[r].code = job[r].code
      /\ job'[r].template = job[r].template /\ job'[r].embedded = job[r].embedded
      /\ job'[r].seen = job[r].seen /\ job'[r].remembered = job[r].remembered
      /\ job'[r].close = job[r].close
  BY <1>2, StepWrite
<1>5. FirstLoad(r)' /\ IsCurrent(r)' /\ IsItsEmbed(r)'
  BY <1>2, <1>3, <1>4, StillFirst
<1>6. (job[r].code.embed # 0 /\ Matches(job[r].code, job[r].key))'
      /\ job'[r].code.version = source'.version /\ config'.cached
  BY <1>1, <1>2, <1>3, <1>4 DEF Knows, Holds, Matches
<1>7. job'[r].time <= now'
  BY <1>2, <1>3, <1>4, LoaderIs
<1>8. Knows(r)'
  BY <1>2, <1>3, <1>4, <1>5, <1>6, <1>7 DEF Knows, Loads, Holds
<1> QED
  BY <1>2, <1>3, <1>4, <1>5, <1>8, RendersKept, StoresKept

LEMMA RenameStep ==
    ASSUME LoadingInv, NEW r \in Renders, Rename(r)
    PROVE  /\ Others(r) /\ job'[r].pc = "reload" /\ job'[r].index = job[r].index
           /\ job'[r].key = job[r].key /\ job'[r].code = job[r].code
           /\ job'[r].template = job[r].template /\ job'[r].embedded = job[r].embedded
           /\ job'[r].seen = job[r].seen /\ job'[r].remembered = job[r].remembered
           /\ job'[r].close = job[r].close
           /\ disk'[TemplateHash].code = job[r].code /\ disk'[TemplateHash].mtime = job[r].time
           /\ \A k \in Keys \ {TemplateHash} : disk'[k] = disk[k]
           /\ job[r].code.embed # 0 /\ Matches(job[r].code, TemplateHash)
           /\ job[r].code.version = source.version /\ job[r].time <= now /\ config.cached
<1>1. Loads(r) /\ job[r].pc = "rename"
  BY DEF Rename, Loads
<1>2. TypeOK /\ Knows(r) /\ job[r].key = TemplateHash /\ TemplateHash \in Keys
  BY <1>1, LoadFacts
<1>3. job[r].key # None /\ job[r].code # None /\ "reload" \in States /\ Goes(r, "reload")
  BY <1>1, <1>2, KeyOf, JobIs DEF JobOk, Rename, States
<1>4. /\ Others(r) /\ job'[r].pc = "reload" /\ job'[r].index = job[r].index
      /\ job'[r].key = job[r].key /\ job'[r].code = job[r].code
      /\ job'[r].template = job[r].template /\ job'[r].embedded = job[r].embedded
      /\ job'[r].seen = job[r].seen /\ job'[r].remembered = job[r].remembered
      /\ job'[r].close = job[r].close
  BY <1>2, <1>3, StepGoes
<1>5. /\ disk'[TemplateHash] = [code |-> job[r].code, mtime |-> job[r].time]
      /\ \A k \in Keys \ {TemplateHash} : disk'[k] = disk[k]
  BY <1>2 DEF Rename, TypeOK
<1>6. /\ job[r].code.embed # 0 /\ Matches(job[r].code, TemplateHash)
      /\ job[r].code.version = source.version /\ job[r].time <= now /\ config.cached
  BY <1>1, <1>2 DEF Knows, Holds
<1> QED
  BY <1>4, <1>5, <1>6

LEMMA RenameKeeps ==
    ASSUME LoadingInv, NEW r \in Renders, Rename(r)
    PROVE  RenderInv' /\ DiskInv'
<1>. DEFINE k == TemplateHash
<1>1. Loads(r)
  BY DEF Rename, Loads
<1>2. /\ TypeOK /\ RenderInv /\ DiskInv /\ FirstLoad(r) /\ job[r].key = k /\ k \in Keys
  BY <1>1, LoadFacts
<1>3. UNCHANGED <<config, options, source, now, embeds>> /\ k' = k
  BY SameHash DEF Rename
<1>4. /\ Others(r) /\ job'[r].pc = "reload" /\ job'[r].index = job[r].index
      /\ job'[r].key = job[r].key /\ job'[r].code = job[r].code
      /\ job'[r].template = job[r].template /\ job'[r].embedded = job[r].embedded
      /\ job'[r].seen = job[r].seen /\ job'[r].remembered = job[r].remembered
      /\ job'[r].close = job[r].close
      /\ disk'[k].code = job[r].code /\ disk'[k].mtime = job[r].time
      /\ \A l \in Keys \ {k} : disk'[l] = disk[l]
      /\ job[r].code.embed # 0 /\ Matches(job[r].code, k)
      /\ job[r].code.version = source.version /\ job[r].time <= now /\ config.cached
  BY RenameStep
<1>5. FirstLoad(r)' /\ IsCurrent(r)' /\ IsItsEmbed(r)'
  BY <1>2, <1>3, <1>4, StillFirst
<1>6. UpToDate(job[r].key)'
  BY <1>2, <1>3, <1>4 DEF UpToDate
<1>7. Knows(r)'
  BY <1>2, <1>3, <1>4, <1>5, <1>6 DEF Knows, Loads, Holds, Matches
<1>8. FilesKept
  BY <1>3, <1>4 DEF FilesKept, UpToDate
<1>9. RenderInv'
  BY <1>2, <1>3, <1>4, <1>5, <1>7, <1>8, RendersKept
<1>10. DiskInv'
  <2>1. SUFFICES ASSUME NEW l \in Keys, disk'[l] # None
                 PROVE  /\ config'.cached /\ disk'[l].code.embed # 0
                        /\ Matches(disk'[l].code, l) /\ disk'[l].mtime <= now'
                        /\ config'.loader = "filesystem" /\ source'.mtime < disk'[l].mtime
                             => disk'[l].code.version = source'.version
    BY DEF DiskInv, UpToDate, Matches
  <2>2. CASE l = k
    BY <1>3, <1>4, <2>2 DEF Matches
  <2>3. CASE l # k
    BY <1>2, <1>3, <1>4, <2>1, <2>3 DEF DiskInv, UpToDate, Matches
  <2> QED
    BY <2>2, <2>3
<1> QED
  BY <1>9, <1>10

-----------------------------------------------------------------------------
(* The registration of a module *)

LEMMA HolderFacts ==
    ASSUME LoadingInv, NEW r \in Renders, Register(r)
    PROVE  /\ Loads(r) /\ Holds(r) /\ job[r].code.embed # 0
           /\ Matches(job[r].code, TemplateHash) /\ job[r].code \in Code
           /\ Tracked => job[r].code.version = source.version \/ job[r].close
<1>1. Loads(r) /\ Holds(r) /\ job[r].pc = "register"
  BY DEF Register, Loads, Holds
<1>2. Knows(r) /\ job[r].key = TemplateHash /\ TypeOK
  BY <1>1, LoadFacts
<1> QED
  BY <1>1, <1>2, StepRegister DEF Knows

(* It takes the number of no other module in memory.                       *)
LEMMA NoOtherIsReplaced ==
    ASSUME LoadingInv, NEW r \in Renders, Register(r), NEW c \in embeds[TemplateHash],
           c.embed = job[r].code.embed
    PROVE  c = job[r].code
<1>. DEFINE k == TemplateHash
<1>1. Shared(k) \/ Own(k)
  BY HolderFacts DEF LoadingInv, ModulesInv
<1>2. CASE Shared(k)
  <2>1. c = disk[k].code
    BY <1>2 DEF Shared
  <2>2. job[r].code = disk[k].code
    BY <1>2, HolderFacts DEF Shared, Register
  <2> QED
    BY <2>1, <2>2
<1>3. CASE Own(k)
  <2>1. c \in Pool(k) /\ job[r].code \in Pool(k)
    BY HolderFacts DEF Pool
  <2> QED
    BY <1>3, <2>1 DEF Own
<1> QED
  BY <1>1, <1>2, <1>3

LEMMA Registered ==
    ASSUME LoadingInv, NEW r \in Renders, Register(r)
    PROVE  /\ main'[TemplateHash] = job[r].code
           /\ embeds'[TemplateHash] = embeds[TemplateHash] \cup {job[r].code}
           /\ \A k \in Keys \ {TemplateHash} : main'[k] = main[k] /\ embeds'[k] = embeds[k]
<1>. DEFINE k == TemplateHash
            c == job[r].code
<1>1. TypeOK /\ k \in Keys /\ embeds \in [Keys -> SUBSET Code] /\ main \in [Keys -> Code \cup {None}]
  BY HashTyped DEF LoadingInv, TypeOK
<1>2. /\ main'[k] = c /\ embeds'[k] = EmbedsWith(k, c)
      /\ \A l \in Keys \ {k} : main'[l] = main[l] /\ embeds'[l] = embeds[l]
  BY <1>1 DEF Register
<1>3. \A d \in embeds[k] : d.embed = c.embed => d = c
  BY NoOtherIsReplaced
<1>4. EmbedsWith(k, c) = embeds[k] \cup {c}
  <2>. DEFINE e == embeds[k]
  <2>1. EmbedsWith(k, c) = {d \in e : d.embed # c.embed} \cup {c}
    BY DEF EmbedsWith
  <2>. HIDE DEF e, c
  <2>2. \A d \in e : d.embed = c.embed => d = c
    BY <1>3 DEF e, c
  <2> QED
    BY <2>1, <2>2 DEF e
<1> QED
  BY <1>2, <1>4

LEMMA RegisterKeeps ==
    ASSUME LoadingInv, NEW r \in Renders, Register(r)
    PROVE  RenderInv' /\ MemoryInv'
<1>. DEFINE k == TemplateHash
            c == job[r].code
<1>1. /\ TypeOK /\ RenderInv /\ DiskInv /\ MemoryInv /\ FirstLoad(r) /\ k \in Keys
      /\ IsCurrent(r) /\ IsItsEmbed(r)
  BY HolderFacts, LoadFacts DEF LoadingInv
<1>2. UNCHANGED <<config, options, source, now, disk>> /\ k' = k
  BY SameHash DEF Register
<1>3. /\ c \in Code /\ c.embed # 0 /\ Matches(c, k) /\ (Tracked => c.version = source.version \/ job[r].close)
  BY HolderFacts
<1>4. /\ main'[k] = c /\ embeds'[k] = embeds[k] \cup {c}
      /\ \A l \in Keys \ {k} : main'[l] = main[l] /\ embeds'[l] = embeds[l]
  BY Registered
<1>5. /\ Others(r) /\ job'[r].index = job[r].index
      /\ job'[r].seen = job[r].seen /\ job'[r].remembered = job[r].remembered
      /\ job'[r].close = job[r].close
      /\ job'[r].pc = "rendering" /\ job'[r].template # None /\ job'[r].template.code = c
      /\ job'[r].embedded = job[r].embedded
  BY <1>1, StepRegister DEF FirstLoad
<1>6. \A d \in embeds[k] : d.embed = c.embed => d = c
  BY NoOtherIsReplaced
<1>. HIDE DEF c
<1>7. HasTemplate(r)' /\ job'[r].embedded = None
  BY <1>1, <1>2, <1>4, <1>5 DEF HasTemplate, FirstLoad
<1>8. Knows(r)'
  BY <1>5, <1>7 DEF Knows, Loads, Holds
<1>9. IsCurrent(r)' /\ IsItsEmbed(r)'
  <2>1. Tracked' => job'[r].template.code.version >= job'[r].seen \/ job'[r].close
    BY <1>1, <1>2, <1>3, <1>5, SameHash, LoaderIs DEF FirstLoad
  <2> QED
    BY <1>7, <2>1 DEF IsCurrent, IsItsEmbed
<1>10. RenderInv'
  BY <1>1, <1>2, <1>4, <1>5, <1>8, <1>9, RendersKept, StoresKept
<1>11. MemoryInv'
  <2>1. SUFFICES ASSUME NEW l \in Keys
                 PROVE  /\ main'[l] = None => embeds'[l] = {}
                        /\ main'[l] # None => main'[l] \in embeds'[l]
                        /\ \A d \in embeds'[l] : d.embed # 0 /\ Matches(d, l)
                        /\ \A d \in embeds'[l], e \in embeds'[l] : d.embed = e.embed => d = e
    BY DEF MemoryInv, Matches
  <2>2. CASE l = k
    <3>1. /\ \A d \in embeds[k] : d.embed # 0 /\ Matches(d, k)
          /\ \A d \in embeds[k], e \in embeds[k] : d.embed = e.embed => d = e
      BY <1>1 DEF MemoryInv
    <3>2. main'[l] = c /\ c # None /\ c \in embeds'[l]
      BY <1>3, <1>4, <2>2, ConstantTypes
    <3>3. \A d \in embeds'[l] : d.embed # 0 /\ Matches(d, l)
      BY <1>3, <1>4, <2>2, <3>1
    <3>4. \A d \in embeds'[l], e \in embeds'[l] : d.embed = e.embed => d = e
      BY <1>4, <1>6, <2>2, <3>1
    <3> QED
      BY <3>2, <3>3, <3>4
  <2>3. CASE l # k
    BY <1>1, <1>4, <2>3 DEF MemoryInv
  <2> QED
    BY <2>2, <2>3
<1> QED
  BY <1>10, <1>11

-----------------------------------------------------------------------------
(* The modules that the loads of one hash may register *)

LEMMA ModulesFollow ==
    ASSUME NEW k, k = TemplateHash', Shared(k)' \/ Own(k)'
    PROVE  ModulesInv'
<1>1. CASE Shared(k)'
  <2>1. Shared(TemplateHash)'
    BY <1>1 DEF Shared, Passes, IsFresh
  <2> QED
    BY <2>1 DEF ModulesInv
<1>2. CASE Own(k)'
  <2>1. Pool(TemplateHash)' = Pool(k)'
    BY DEF Pool, Loadable, Passes, IsFresh
  <2>2. Own(TemplateHash)'
    BY <1>2, <2>1 DEF Own
  <2> QED
    BY <2>2 DEF ModulesInv
<1> QED
  BY <1>1, <1>2

(* What a render that loads is at in a shared load.                        *)
SharesIn(j, file) ==
    /\ j.pc \in {"stat", "fresh", "load", "register"}
    /\ j.pc = "fresh" => j.time = file.mtime
    /\ j.pc = "register" => j.code = file.code

LEMMA SharedKept ==
    ASSUME NEW k \in Keys, Shared(k), NEW r \in Renders, Others(r),
           UNCHANGED <<config, source, disk>>, embeds'[k] \subseteq {disk[k].code},
           Loads(r)' => SharesIn(job'[r], disk[k])
    PROVE  Shared(k)'
<1>1. Passes(disk[k].mtime)' <=> Passes(disk[k].mtime)
  BY DEF Passes, IsFresh
<1>2. ASSUME NEW q \in Renders, Loads(q)' PROVE SharesIn(job'[q], disk[k])
  BY <1>2 DEF Shared, SharesIn, Others, Loads
<1> QED
  BY <1>1, <1>2 DEF Shared, SharesIn

LEMMA OwnKept ==
    ASSUME NEW k \in Keys, Own(k), nextEmbed' = nextEmbed, Pool(k)' \subseteq Pool(k)
    PROVE  Own(k)'
BY DEF Own

(* A render that is about to take the file, if it passes for fresh.        *)
Takes(j) == j.pc \in {"load", "reload"} \/ (j.pc = "fresh" /\ Passes(j.time))

LEMMA LoadableIs ==
    ASSUME NEW k \in Keys
    PROVE  Loadable(k) <=> /\ config.cached /\ disk[k] # None
                           /\ Passes(disk[k].mtime) \/ \E r \in Renders : Takes(job[r])
BY DEF Loadable, Takes

LEMMA LoadableKept ==
    ASSUME NEW k \in Keys, NEW r \in Renders, Others(r), UNCHANGED <<config, source, disk>>,
           Takes(job[r])' /\ config.cached /\ disk[k] # None => Loadable(k), Loadable(k)'
    PROVE  Loadable(k)
<1>1. \A t : Passes(t)' <=> Passes(t)
  BY DEF Passes, IsFresh
<1>2. config.cached /\ disk[k] # None
  BY DEF Loadable
<1>3. Passes(disk[k].mtime) \/ \E q \in Renders : Takes(job[q])'
  BY <1>1 DEF Loadable, Takes
<1>4. ASSUME NEW q \in Renders, q # r, Takes(job[q])' PROVE Takes(job[q])
  BY <1>1, <1>4 DEF Takes, Others
<1> QED
  BY <1>2, <1>3, <1>4, LoadableIs

LEMMA PoolIs ==
    ASSUME NEW k \in Keys, NEW c
    PROVE  c \in Pool(k) <=> \/ c \in embeds[k]
                             \/ \E r \in Renders : Holds(r) /\ c = job[r].code
                             \/ Loadable(k) /\ c = disk[k].code
BY DEF Pool

LEMMA PoolKept ==
    ASSUME NEW k \in Keys, NEW r \in Renders, Others(r), embeds'[k] \subseteq Pool(k),
           Holds(r)' => job'[r].code \in Pool(k),
           Loadable(k)' => disk'[k].code \in Pool(k)
    PROVE  Pool(k)' \subseteq Pool(k)
<1>1. SUFFICES ASSUME NEW c \in Pool(k)' PROVE c \in Pool(k)
  OBVIOUS
<1>2. \/ c \in embeds'[k]
      \/ \E q \in Renders : Holds(q)' /\ c = job'[q].code
      \/ Loadable(k)' /\ c = disk'[k].code
  BY <1>1 DEF Pool
<1>3. ASSUME NEW q \in Renders, Holds(q)', c = job'[q].code PROVE c \in Pool(k)
  <2>1. CASE q = r
    BY <1>3, <2>1
  <2>2. CASE q # r
    <3>1. Holds(q) /\ c = job[q].code
      BY <1>3, <2>2 DEF Others, Holds
    <3> QED
      BY <3>1, PoolIs
  <2> QED
    BY <2>1, <2>2
<1> QED
  BY <1>2, <1>3

(* A step that leaves the memory and the files alone.                      *)
LEMMA LoadStepModules ==
    ASSUME LoadingInv, NEW r \in Renders, Others(r), NEW k \in Keys, k = TemplateHash,
           UNCHANGED <<config, options, source, embeds, disk, nextEmbed>>,
           Loads(r) \/ \E q \in Renders : Loads(q),
           Shared(k) /\ Loads(r)' => SharesIn(job'[r], disk[k]),
           Holds(r)' => job'[r].code \in Pool(k),
           Takes(job[r])' /\ config.cached /\ disk[k] # None => Loadable(k)
    PROVE  ModulesInv'
<1>1. k = TemplateHash'
  BY SameHash
<1>2. Shared(k) \/ Own(k)
  BY DEF LoadingInv, ModulesInv
<1>3. CASE Shared(k)
  <2>1. embeds'[k] \subseteq {disk[k].code}
    BY <1>3 DEF Shared
  <2>2. Shared(k)'
    BY <1>3, <2>1, SharedKept
  <2> QED
    BY <1>1, <2>2, ModulesFollow
<1>4. CASE Own(k)
  <2>1. embeds'[k] \subseteq Pool(k)
    BY PoolIs
  <2>2. Loadable(k)' => disk'[k].code \in Pool(k)
    BY LoadableKept, PoolIs
  <2>3. Pool(k)' \subseteq Pool(k)
    BY <2>1, <2>2, PoolKept
  <2>4. Own(k)'
    BY <1>4, <2>3, OwnKept
  <2> QED
    BY <1>1, <2>4, ModulesFollow
<1> QED
  BY <1>2, <1>3, <1>4

(* A step after which the render does not load.                            *)
LEMMA RestModules ==
    ASSUME LoadingInv, NEW r \in Renders, Others(r),
           UNCHANGED <<config, options, source, embeds, disk, nextEmbed>>,
           job'[r].pc \notin {"stat", "fresh", "load", "read", "write", "rename", "reload",
                              "register"}
    PROVE  ModulesInv'
<1>. DEFINE k == TemplateHash
<1>1. k \in Keys
  BY HashTyped DEF LoadingInv
<1>2. ~ Loads(r)' /\ ~ Holds(r)' /\ ~ Takes(job[r])'
  BY DEF Loads, Holds, Takes
<1>3. CASE \E q \in Renders : Loads(q)
  BY <1>1, <1>2, <1>3, LoadStepModules
<1>4. CASE ~ \E q \in Renders : Loads(q)
  <2>1. \A q \in Renders : ~ Loads(q)'
    BY <1>2, <1>4 DEF Loads, Others
  <2> QED
    BY <2>1 DEF ModulesInv
<1> QED
  BY <1>3, <1>4

(* The first render to miss finds the file that they will share, or none.  *)
LEMMA MissModules ==
    ASSUME LoadingInv, NEW r \in Renders, Hash(r),
           {t \in Loaded(TemplateHash) : t.index = job[r].index} = {}
    PROVE  ModulesInv'
<1>. DEFINE k == TemplateHash
<1>1. TypeOK /\ k \in Keys /\ embeds[k] = {}
  BY HashTyped, MissIsFirst DEF LoadingInv
<1>2. UNCHANGED <<config, options, source, embeds, disk, nextEmbed>> /\ k' = k
  BY SameHash DEF Hash
<1>3. Others(r) /\ job'[r].pc = "stat"
  BY <1>1, StepMiss
<1>4. ~ Holds(r)' /\ ~ Takes(job[r])' /\ SharesIn(job'[r], disk[k])
  BY <1>3 DEF Holds, Takes, SharesIn
<1>5. CASE \E q \in Renders : Loads(q)
  BY <1>1, <1>2, <1>3, <1>4, <1>5, LoadStepModules
<1>6. CASE ~ \E q \in Renders : Loads(q)
  <2>1. \A q \in Renders \ {r} : ~ Loads(q)'
    BY <1>3, <1>6 DEF Loads, Others
  <2>2. (Passes(disk[k].mtime)' <=> Passes(disk[k].mtime)) /\ embeds'[k] = {}
    BY <1>1, <1>2 DEF Passes, IsFresh
  <2>3. CASE config.cached /\ disk[k] # None /\ Passes(disk[k].mtime)
    <3>1. /\ config'.cached /\ disk'[k] # None /\ Passes(disk[k].mtime)'
          /\ embeds'[k] \subseteq {disk'[k].code}
      BY <1>2, <2>2, <2>3
    <3>2. \A q \in Renders : Loads(q)' => job'[q].pc = "stat"
      BY <1>3, <2>1
    <3>3. Shared(k)'
      BY <1>2, <3>1, <3>2 DEF Shared
    <3> QED
      BY <1>2, <3>3, ModulesFollow
  <2>4. CASE ~ (config.cached /\ disk[k] # None /\ Passes(disk[k].mtime))
    <3>1. \A q \in Renders : ~ Holds(q)' /\ ~ Takes(job[q])'
      BY <1>4, <2>1 DEF Holds, Takes, Loads
    <3>2. ~ Loadable(k)'
      BY <1>2, <2>2, <2>4, <3>1 DEF Loadable, Takes
    <3>3. Pool(k)' = {}
      BY <1>2, <2>2, <3>1, <3>2 DEF Pool
    <3>4. Own(k)'
      BY <3>3 DEF Own
    <3> QED
      BY <1>2, <3>4, ModulesFollow
  <2> QED
    BY <2>3, <2>4
<1> QED
  BY <1>5, <1>6

LEMMA StatModules ==
    ASSUME LoadingInv, NEW r \in Renders, Stat(r)
    PROVE  ModulesInv'
<1>. DEFINE k == TemplateHash
<1>1. Loads(r)
  BY DEF Stat, Loads
<1>2. TypeOK /\ job[r].key = k /\ k \in Keys
  BY <1>1, LoadFacts
<1>3. UNCHANGED <<config, options, source, embeds, disk, nextEmbed>>
  BY DEF Stat
<1>4. /\ Others(r) /\ job'[r].pc = "fresh"
      /\ job'[r].time = (IF File(k) = None THEN 0 ELSE File(k).mtime)
  BY <1>2, StepStat
<1>5. config.cached /\ disk[k] # None => job'[r].time = disk[k].mtime
  BY <1>4 DEF File
<1>6. Takes(job[r])' /\ config.cached /\ disk[k] # None => Loadable(k)
  BY <1>3, <1>4, <1>5 DEF Takes, Passes, IsFresh, Loadable
<1>7. Shared(k) => SharesIn(job'[r], disk[k])
  BY <1>4, <1>5 DEF Shared, SharesIn
<1>8. ~ Holds(r)'
  BY <1>4 DEF Holds
<1> QED
  BY <1>1, <1>2, <1>3, <1>4, <1>6, <1>7, <1>8, LoadStepModules

LEMMA FreshModules ==
    ASSUME LoadingInv, NEW r \in Renders, Fresh(r)
    PROVE  ModulesInv'
<1>. DEFINE k == TemplateHash
<1>1. Loads(r) /\ job[r].pc = "fresh"
  BY DEF Fresh, Loads
<1>2. TypeOK /\ k \in Keys
  BY <1>1, LoadFacts
<1>3. UNCHANGED <<config, options, source, embeds, disk, nextEmbed>>
  BY DEF Fresh
<1>4. Others(r) /\ job'[r].pc = (IF Passes(job[r].time) THEN "load" ELSE "read")
  BY <1>2, StepFresh
<1>5. job'[r].pc \in {"load", "read"} /\ (job'[r].pc = "load" => Passes(job[r].time))
  BY <1>4
<1>6. Takes(job[r])' /\ config.cached /\ disk[k] # None => Loadable(k)
  BY <1>1, <1>5 DEF Takes, Loadable
<1>7. Shared(k) => SharesIn(job'[r], disk[k])
  BY <1>1, <1>4 DEF Shared, SharesIn
<1>8. ~ Holds(r)'
  BY <1>5 DEF Holds
<1> QED
  BY <1>1, <1>2, <1>3, <1>4, <1>6, <1>7, <1>8, LoadStepModules

LEMMA LoadModules ==
    ASSUME LoadingInv, NEW r \in Renders, Load(r) \/ Reload(r)
    PROVE  ModulesInv'
<1>. DEFINE k == TemplateHash
            hit == CacheHas(k, job[r].index)
<1>1. Loads(r) /\ job[r].pc \in {"load", "reload"}
  BY DEF Load, Reload, Loads
<1>2. TypeOK /\ FirstLoad(r) /\ job[r].key = k /\ k \in Keys
  BY <1>1, LoadFacts
<1>3. UNCHANGED <<config, options, source, embeds, disk, nextEmbed>>
  BY DEF Load, Reload
<1>4. /\ Others(r)
      /\ job'[r].pc = (IF hit \/ job[r].pc = "reload" THEN "register" ELSE "read")
      /\ job'[r].code = (IF hit THEN disk[k].code ELSE job[r].code)
      /\ hit => config.cached /\ disk[k] # None
  BY <1>2, StepLoad
<1>5. Shared(k) => hit
  BY <1>2 DEF Shared, CacheHas, File, Has, FirstLoad
<1>. HIDE DEF hit
<1>6. Shared(k) => SharesIn(job'[r], disk[k])
  BY <1>4, <1>5 DEF SharesIn
<1>7. ~ Takes(job[r])'
  BY <1>4 DEF Takes
<1>8. Holds(r)' => job'[r].code \in Pool(k)
  <2>1. CASE hit
    <3>1. Loadable(k)
      BY <1>1, <1>4, <2>1 DEF Loadable
    <3> QED
      BY <1>2, <1>4, <2>1, <3>1, PoolIs
  <2>2. CASE ~ hit
    <3>1. Holds(r)' => Holds(r)
      BY <1>1, <1>4, <2>2 DEF Holds
    <3> QED
      BY <1>2, <1>4, <2>2, <3>1, PoolIs
  <2> QED
    BY <2>1, <2>2
<1> QED
  BY <1>1, <1>2, <1>3, <1>4, <1>6, <1>7, <1>8, LoadStepModules

LEMMA WriteModules ==
    ASSUME LoadingInv, NEW r \in Renders, Write(r)
    PROVE  ModulesInv'
<1>. DEFINE k == TemplateHash
<1>1. Loads(r) /\ Holds(r) /\ job[r].pc = "write"
  BY DEF Write, Loads, Holds
<1>2. TypeOK /\ k \in Keys
  BY <1>1, LoadFacts
<1>3. UNCHANGED <<config, options, source, embeds, disk, nextEmbed>>
  BY DEF Write
<1>4. Others(r) /\ job'[r].pc = "rename" /\ job'[r].code = job[r].code
  BY <1>2, StepWrite
<1>5. job'[r].code \in Pool(k)
  BY <1>1, <1>2, <1>4, PoolIs
<1>6. ~ Shared(k) /\ ~ Takes(job[r])'
  BY <1>1, <1>4 DEF Shared, Takes
<1> QED
  BY <1>1, <1>2, <1>3, <1>4, <1>5, <1>6, LoadStepModules

LEMMA CompileModules ==
    ASSUME LoadingInv, NEW r \in Renders, Compile(r)
    PROVE  ModulesInv'
<1>. DEFINE k == TemplateHash
<1>1. Loads(r) /\ job[r].pc = "read"
  BY DEF Compile, Loads
<1>2. TypeOK /\ k \in Keys /\ nextEmbed \in Nat
  BY <1>1, LoadFacts, LoaderIs
<1>3. UNCHANGED <<config, options, source, embeds, disk>> /\ k' = k /\ nextEmbed' = nextEmbed + 1
  BY SameHash DEF Compile
<1>4. /\ Others(r) /\ job'[r].pc = (IF config.cached THEN "write" ELSE "reload")
      /\ job'[r].code.embed = nextEmbed
  BY <1>2, StepCompile
<1>5. Own(k)
  BY <1>1 DEF LoadingInv, ModulesInv, Shared
<1>6. Loadable(k)' => disk'[k].code \in Pool(k)
  <2>1. Takes(job[r])' => ~ config.cached
    BY <1>4 DEF Takes
  <2> QED
    BY <1>2, <1>3, <1>4, <2>1, LoadableKept, PoolIs
<1>7. ASSUME NEW c \in Pool(k)' PROVE c \in Pool(k) \/ c = job'[r].code
  <2>1. \/ c \in embeds[k]
        \/ \E q \in Renders : Holds(q)' /\ c = job'[q].code
        \/ Loadable(k)' /\ c = disk'[k].code
    BY <1>3, <1>7 DEF Pool
  <2>2. ASSUME NEW q \in Renders, q # r, Holds(q)', c = job'[q].code PROVE c \in Pool(k)
    <3>1. Holds(q) /\ c = job[q].code
      BY <1>4, <2>2 DEF Others, Holds
    <3> QED
      BY <1>2, <3>1, PoolIs
  <2>3. c \in embeds[k] => c \in Pool(k)
    BY <1>2, PoolIs
  <2> QED
    BY <1>6, <2>1, <2>2, <2>3
<1>8. \A c \in Pool(k) : c \in Code /\ c.embed \in Nat
  <2>1. \A c \in Code : c.embed \in Nat
    BY DEF Code
  <2>2. ASSUME NEW c \in Pool(k) PROVE c \in Code
    <3>1. embeds[k] \subseteq Code /\ disk[k] \in Files \cup {None}
      BY <1>2 DEF TypeOK
    <3>2. \A q \in Renders : Holds(q) => job[q].code \in Code
      BY <1>2, JobIs DEF Holds
    <3>3. Loadable(k) => disk[k].code \in Code
      BY <3>1 DEF Loadable, Files
    <3> QED
      BY <1>2, <2>2, <3>1, <3>2, <3>3, PoolIs
  <2> QED
    BY <2>1, <2>2
<1>9. Own(k)'
  <2>1. \A c \in Pool(k) : c.embed \in Nat /\ c.embed < nextEmbed
    BY <1>5, <1>8 DEF Own
  <2>2. \A c \in Pool(k)' : c.embed < nextEmbed'
    BY <1>2, <1>3, <1>4, <1>7, <2>1
  <2>3. \A c \in Pool(k) : c.embed # job'[r].code.embed
    BY <1>2, <1>4, <2>1
  <2>4. \A c \in Pool(k), d \in Pool(k) : c.embed = d.embed => c = d
    BY <1>5 DEF Own
  <2>5. \A c \in Pool(k)', d \in Pool(k)' : c.embed = d.embed => c = d
    BY <1>7, <2>3, <2>4
  <2> QED
    BY <2>2, <2>5 DEF Own
<1> QED
  BY <1>3, <1>9, ModulesFollow

LEMMA RenameModules ==
    ASSUME LoadingInv, NEW r \in Renders, Rename(r)
    PROVE  ModulesInv'
<1>. PICK k \in Keys : k = TemplateHash
  BY HashTyped DEF LoadingInv
<1>1. Loads(r) /\ Holds(r) /\ job[r].pc = "rename"
  BY DEF Rename, Loads, Holds
<1>2. TypeOK /\ k \in Keys
  BY <1>1, LoadFacts
<1>3. UNCHANGED <<config, options, source, embeds, nextEmbed>> /\ TemplateHash' = k
  BY SameHash DEF Rename
<1>4. Others(r) /\ job'[r].code = job[r].code /\ disk'[k].code = job[r].code
  BY RenameStep
<1>5. Own(k)
  BY <1>1 DEF LoadingInv, ModulesInv, Shared
<1>6. job[r].code \in Pool(k) /\ embeds'[k] \subseteq Pool(k)
  BY <1>1, <1>2, <1>3, PoolIs
<1>7. Pool(k)' \subseteq Pool(k)
  BY <1>2, <1>4, <1>6, PoolKept
<1>8. Own(k)'
  BY <1>2, <1>3, <1>5, <1>7, OwnKept
<1> QED
  BY <1>3, <1>8, ModulesFollow

LEMMA RegisterModules ==
    ASSUME LoadingInv, NEW r \in Renders, Register(r)
    PROVE  ModulesInv'
<1>. PICK k \in Keys : k = TemplateHash
  BY HashTyped DEF LoadingInv
<1>1. Loads(r) /\ Holds(r) /\ job[r].pc = "register"
  BY DEF Register, Loads, Holds
<1>2. TypeOK /\ FirstLoad(r) /\ k \in Keys
  BY <1>1, LoadFacts
<1>3. UNCHANGED <<config, options, source, disk, nextEmbed>> /\ TemplateHash' = k
  BY SameHash DEF Register
<1>4. Others(r) /\ job'[r].pc = "rendering"
  BY <1>2, StepRegister DEF FirstLoad
<1>5. embeds'[k] = embeds[k] \cup {job[r].code}
  BY Registered
<1>6. ~ Loads(r)' /\ ~ Holds(r)' /\ ~ Takes(job[r])'
  BY <1>4 DEF Loads, Holds, Takes
<1>7. Shared(k) \/ Own(k)
  BY <1>1 DEF LoadingInv, ModulesInv
<1>8. CASE Shared(k)
  <2>1. embeds'[k] \subseteq {disk[k].code}
    BY <1>1, <1>5, <1>8 DEF Shared
  <2>2. Shared(k)'
    BY <1>2, <1>3, <1>4, <1>6, <1>8, <2>1, SharedKept
  <2> QED
    BY <1>3, <2>2, ModulesFollow
<1>9. CASE Own(k)
  <2>1. embeds'[k] \subseteq Pool(k)
    BY <1>1, <1>2, <1>5, PoolIs
  <2>2. Loadable(k)' => disk'[k].code \in Pool(k)
    BY <1>2, <1>3, <1>4, <1>6, LoadableKept, PoolIs
  <2>3. Pool(k)' \subseteq Pool(k)
    BY <1>2, <1>4, <1>6, <2>1, <2>2, PoolKept
  <2>4. Own(k)'
    BY <1>2, <1>3, <1>9, <2>3, OwnKept
  <2> QED
    BY <1>3, <2>4, ModulesFollow
<1> QED
  BY <1>7, <1>8, <1>9

-----------------------------------------------------------------------------
(* Every step *)

(* What the renders leave of the invariant.                                *)
LEMMA RenderStepKeeps ==
    ASSUME LoadingInv, TypeOK', NEW r \in Renders,
           \/ Begin(r) \/ BeginEmbed(r) \/ Finish(r) \/ Hash(r) \/ Stat(r)
           \/ Fresh(r) \/ Load(r) \/ Compile(r) \/ Write(r) \/ Rename(r)
           \/ Fail(r) \/ Reload(r) \/ Register(r)
    PROVE  LoadingInv'
<1>1. TypeOK /\ nextEmbed \in Nat \ {0} /\ MemoryInv /\ DiskInv /\ JobOk(job[r])
  BY LoaderIs, JobIs DEF LoadingInv
<1>2. ASSUME UNCHANGED <<config, source, now, disk, main, embeds, nextEmbed>>,
             RenderInv', ModulesInv'
      PROVE  LoadingInv'
  BY <1>1, <1>2, StoresKept DEF LoadingInv
<1>3. CASE Begin(r)
  <2>1. ModulesInv'
    BY <1>1, <1>3, StepBegin, RestModules DEF Begin
  <2> QED
    BY <1>2, <1>3, <2>1, BeginKeeps DEF Begin
<1>4. CASE BeginEmbed(r)
  <2>1. ModulesInv'
    BY <1>1, <1>4, StepBeginEmbed, RestModules DEF BeginEmbed
  <2> QED
    BY <1>2, <1>4, <2>1, BeginEmbedKeeps DEF BeginEmbed
<1>5. ASSUME NEW pc \in {"done", "failed"}, Goes(r, pc), pc = "done" => job[r].key # None,
             UNCHANGED <<config, options, source, now, disk, main, embeds, nextEmbed>>
      PROVE  LoadingInv'
  <2>1. pc \in States /\ pc \notin {"write", "rename", "reload", "register", "rendering"}
    BY DEF States
  <2>2. Others(r) /\ job'[r].pc = pc
    BY <1>1, <1>5, <2>1, StepGoes
  <2>3. ModulesInv'
    BY <1>5, <2>2, RestModules
  <2>4. RenderInv'
    BY <1>5, EndKeeps
  <2> QED
    BY <1>2, <1>5, <2>3, <2>4
<1>6. CASE Finish(r)
  <2>1. job[r].key # None
    BY <1>1, <1>6 DEF Finish, JobOk, States
  <2> QED
    BY <1>5, <1>6, <2>1 DEF Finish
<1>7. CASE Fail(r)
  BY <1>5, <1>7 DEF Fail
<1>8. CASE Hash(r)
  <2>1. CASE {t \in Loaded(TemplateHash) : t.index = job[r].index} = {}
    BY <1>2, <1>8, <2>1, MissKeeps, MissModules DEF Hash
  <2>2. CASE {t \in Loaded(TemplateHash) : t.index = job[r].index} # {}
    <3>1. Others(r) /\ job'[r].pc \in {"rendering", "done"}
      BY <1>1, <1>8, <2>2, StepHit
    <3>2. ModulesInv'
      BY <1>8, <3>1, RestModules DEF Hash
    <3> QED
      BY <1>2, <1>8, <2>2, <3>2, HitKeeps DEF Hash
  <2> QED
    BY <2>1, <2>2
<1>9. CASE Stat(r)
  BY <1>2, <1>9, StatKeeps, StatModules DEF Stat
<1>10. CASE Fresh(r)
  BY <1>2, <1>10, FreshKeeps, FreshModules DEF Fresh
<1>11. CASE Load(r) \/ Reload(r)
  <2>1. UNCHANGED <<config, source, now, disk, main, embeds, nextEmbed>>
    BY <1>11 DEF Load, Reload
  <2> QED
    BY <1>2, <1>11, <2>1, LoadKeeps, LoadModules
<1>12. CASE Compile(r)
  <2>1. nextEmbed' # 0 /\ UNCHANGED <<config, source, now, disk, main, embeds>>
    BY <1>1, <1>12 DEF Compile
  <2>2. MemoryInv' /\ DiskInv'
    BY <1>1, <2>1, StoresKept
  <2>3. RenderInv' /\ ModulesInv'
    BY <1>12, CompileKeeps, CompileModules
  <2> QED
    BY <2>1, <2>2, <2>3 DEF LoadingInv
<1>13. CASE Write(r)
  BY <1>2, <1>13, WriteKeeps, WriteModules DEF Write
<1>14. CASE Rename(r)
  <2>1. nextEmbed' # 0 /\ MemoryInv'
    BY <1>1, <1>14, StoresKept DEF Rename
  <2> QED
    BY <1>14, <2>1, RenameKeeps, RenameModules DEF LoadingInv
<1>15. CASE Register(r)
  <2>1. nextEmbed' # 0 /\ DiskInv'
    BY <1>1, <1>15, StoresKept DEF Register
  <2> QED
    BY <1>15, <2>1, RegisterKeeps, RegisterModules DEF LoadingInv
<1> QED
  BY <1>3, <1>4, <1>6, <1>7, <1>8, <1>9, <1>10, <1>11, <1>12, <1>13, <1>14, <1>15

(* A render that is not in flight knows nothing of the source.             *)
LEMMA AtRest ==
    ASSUME RenderInv, UNCHANGED <<config, job>>, \A r \in Renders : ~ InFlight(r)
    PROVE  RenderInv' /\ ModulesInv'
<1>1. ASSUME NEW r \in Renders
      PROVE  /\ job[r].pc \notin {"hash", "stat", "fresh", "load", "read", "write", "rename",
                                  "reload", "register", "rendering"}
             /\ job[r].pc = "idle" => job[r] = NoJob
             /\ IsCurrent(r) /\ IsItsEmbed(r)
  BY DEF InFlight, RenderInv, Knows
<1>2. ASSUME NEW r \in Renders PROVE Knows(r)' /\ IsCurrent(r)' /\ IsItsEmbed(r)' /\ ~ Loads(r)'
  <2>1. ~ Loads(r)' /\ ~ Holds(r)'
    BY <1>1 DEF Loads, Holds
  <2>2. Knows(r)'
    BY <1>1, <2>1 DEF Knows
  <2>3. IsCurrent(r)' /\ IsItsEmbed(r)'
    BY <1>1 DEF IsCurrent, IsItsEmbed, Tracked
  <2> QED
    BY <2>1, <2>2, <2>3
<1> QED
  BY <1>2 DEF RenderInv, ModulesInv

LEMMA NoJobKnows ==
    ASSUME NEW r \in Renders, job'[r] = NoJob
    PROVE  Knows(r)' /\ IsCurrent(r)' /\ IsItsEmbed(r)' /\ ~ Loads(r)'
<1>1. job'[r].pc = "idle" /\ job'[r].template = None /\ job'[r].embedded = None
  BY DEF NoJob
<1> QED
  BY <1>1 DEF Knows, IsCurrent, IsItsEmbed, Loads, Holds

LEMMA TickKeeps ==
    ASSUME LoadingInv, Tick
    PROVE  RenderInv' /\ ModulesInv' /\ DiskInv'
<1>1. TypeOK /\ RenderInv /\ DiskInv /\ ModulesInv /\ now \in Nat /\ now' = now + 1
  BY LoaderIs DEF LoadingInv, Tick
<1>2. UNCHANGED <<config, options, source, disk, main, embeds, nextEmbed, job>>
  BY DEF Tick
<1>3. /\ TemplateHash' = TemplateHash /\ (Tracked' <=> Tracked)
      /\ \A t : Passes(t)' <=> Passes(t)
  BY <1>2, SameHash
<1>4. DiskInv'
  <2>1. \A k \in Keys : disk[k] # None => disk[k].mtime \in Nat
    BY <1>1 DEF TypeOK, Files
  <2>2. \A k \in Keys : disk[k] # None => disk[k].mtime <= now'
    BY <1>1, <2>1 DEF DiskInv
  <2> QED
    BY <1>1, <1>2, <2>2 DEF DiskInv, UpToDate, Matches
<1>5. RenderInv'
  <2>1. SUFFICES ASSUME NEW r \in Renders PROVE (Knows(r) /\ IsCurrent(r) /\ IsItsEmbed(r))'
    BY DEF RenderInv
  <2>2. Knows(r) /\ IsCurrent(r) /\ IsItsEmbed(r) /\ job[r].time \in Nat
    BY <1>1, JobIs, JobFields DEF RenderInv
  <2>3. job[r].time <= now => job[r].time <= now'
    BY <1>1, <2>2
  <2>4. Knows(r)'
    BY <1>2, <1>3, <2>2, <2>3
       DEF Knows, Loads, Holds, FirstLoad, HasTemplate, UpToDate, Matches
  <2>5. IsCurrent(r)' /\ IsItsEmbed(r)'
    BY <1>2, <2>2 DEF IsCurrent, IsItsEmbed, Tracked
  <2> QED
    BY <2>4, <2>5
<1>6. ModulesInv'
  <2>1. \A k : (Loadable(k)' <=> Loadable(k))
    BY <1>2, <1>3 DEF Loadable
  <2>2. \A k : Pool(k)' = Pool(k)
    BY <1>2, <2>1 DEF Pool, Holds
  <2>3. \A k : (Own(k)' <=> Own(k))
    BY <1>2, <2>2 DEF Own
  <2>4. \A k : (Shared(k)' <=> Shared(k))
    BY <1>2, <1>3 DEF Shared, Loads
  <2>5. (\E r \in Renders : Loads(r)') => \E r \in Renders : Loads(r)
    BY <1>2 DEF Loads
  <2>6. PICK k : k = TemplateHash
    OBVIOUS
  <2>7. (\E r \in Renders : Loads(r)') => Shared(k)' \/ Own(k)'
    BY <1>1, <2>3, <2>4, <2>5, <2>6 DEF ModulesInv
  <2> QED
    BY <1>3, <2>6, <2>7, ModulesFollow DEF ModulesInv
<1> QED
  BY <1>4, <1>5, <1>6

LEMMA LoadingInit == Init => LoadingInv
<1>. SUFFICES ASSUME Init PROVE LoadingInv
  OBVIOUS
<1>1. TypeOK /\ nextEmbed # 0
  BY InitTyped DEF Init
<1>2. MemoryInv /\ DiskInv
  BY DEF Init, MemoryInv, DiskInv
<1>3. ASSUME NEW r \in Renders PROVE Knows(r) /\ IsCurrent(r) /\ IsItsEmbed(r) /\ ~ Loads(r)
  <2>1. /\ job[r] = NoJob /\ job[r].pc = "idle" /\ job[r].template = None
        /\ job[r].embedded = None
    BY DEF Init, NoJob
  <2> QED
    BY <2>1 DEF Knows, IsCurrent, IsItsEmbed, Loads, Holds
<1> QED
  BY <1>1, <1>2, <1>3 DEF LoadingInv, RenderInv, ModulesInv

LEMMA LoadingKeeps == Quiet /\ LoadingInv /\ [Next]_vars => LoadingInv'
<1>. SUFFICES ASSUME Quiet, LoadingInv, [Next]_vars PROVE LoadingInv'
  OBVIOUS
<1>1. /\ TypeOK' /\ TypeOK /\ RenderInv /\ MemoryInv /\ DiskInv
      /\ nextEmbed # 0 /\ source.mtime \in Nat /\ now \in Nat
  BY NextTyped, LoaderIs DEF LoadingInv
<1>2. ASSUME NEW r \in Renders,
             \/ Begin(r) \/ BeginEmbed(r) \/ Finish(r) \/ Hash(r) \/ Stat(r)
             \/ Fresh(r) \/ Load(r) \/ Compile(r) \/ Write(r) \/ Rename(r)
             \/ Fail(r) \/ Reload(r) \/ Register(r)
      PROVE  LoadingInv'
  BY <1>1, <1>2, RenderStepKeeps
<1>3. CASE Edit
  <2>1. RenderInv' /\ ModulesInv'
    BY <1>1, <1>3, AtRest DEF Edit, CanChange
  <2>2. MemoryInv' /\ nextEmbed' # 0
    BY <1>1, <1>3, StoresKept DEF Edit
  <2>3. DiskInv'
    <3>1. UNCHANGED <<config, now, disk>> /\ source'.mtime = now
      BY <1>3 DEF Edit
    <3>2. \A k \in Keys : disk[k] # None => disk[k].mtime \in Nat
      BY <1>1 DEF TypeOK, Files
    <3>3. \A k \in Keys : disk[k] # None => ~ (source'.mtime < disk[k].mtime)
      BY <1>1, <3>1, <3>2 DEF DiskInv
    <3> QED
      BY <1>1, <3>1, <3>3 DEF DiskInv, Matches
  <2> QED
    BY <1>1, <2>1, <2>2, <2>3 DEF LoadingInv
<1>4. CASE SetOptions
  <2>1. RenderInv' /\ ModulesInv'
    BY <1>1, <1>4, AtRest DEF SetOptions, CanChange
  <2>2. MemoryInv' /\ DiskInv' /\ nextEmbed' # 0
    BY <1>1, <1>4, StoresKept DEF SetOptions
  <2> QED
    BY <1>1, <2>1, <2>2 DEF LoadingInv
<1>5. CASE Restart
  <2>1. \A r \in Renders : job'[r] = NoJob
    BY <1>5 DEF Restart
  <2>2. RenderInv' /\ ModulesInv'
    BY <2>1, NoJobKnows DEF RenderInv, ModulesInv
  <2>3. MemoryInv'
    BY <1>5 DEF Restart, MemoryInv
  <2>4. DiskInv' /\ nextEmbed' # 0
    BY <1>1, <1>5, StoresKept DEF Restart
  <2> QED
    BY <1>1, <2>2, <2>3, <2>4 DEF LoadingInv
<1>6. CASE Tick
  <2>1. MemoryInv' /\ nextEmbed' # 0
    BY <1>1, <1>6, StoresKept DEF Tick
  <2> QED
    BY <1>1, <1>6, <2>1, TickKeeps DEF LoadingInv
<1>7. CASE UNCHANGED vars
  <2>1. vars' = vars /\ UNCHANGED <<config, options, source, now, disk, main, embeds, nextEmbed, job>>
    BY <1>7 DEF vars
  <2>2. TemplateHash' = TemplateHash /\ (Tracked' <=> Tracked) /\ \A t : Passes(t)' <=> Passes(t)
    BY <2>1, SameHash
  <2>3. MemoryInv' /\ DiskInv'
    BY <1>1, <2>1, StoresKept
  <2>4. RenderInv'
    BY <1>1, <2>1, <2>2 DEF RenderInv, Knows, Loads, Holds, FirstLoad, HasTemplate, UpToDate,
       Matches, IsCurrent, IsItsEmbed
  <2>5. ModulesInv'
    BY <2>1, <2>2 DEF LoadingInv, ModulesInv, Shared, Own, Pool, Loadable, Loads, Holds
  <2> QED
    BY <1>1, <2>1, <2>3, <2>4, <2>5 DEF LoadingInv
<1> QED
  BY <1>2, <1>3, <1>4, <1>5, <1>6, <1>7 DEF Next

LEMMA LoadingInvariant == Quiet => (Spec => []LoadingInv)
<1>. SUFFICES ASSUME Quiet PROVE Spec => []LoadingInv
  OBVIOUS
<1>1. LoadingInv /\ [Next]_vars => LoadingInv'
  BY LoadingKeeps
<1> QED
  BY <1>1, LoadingInit, PTL DEF Spec

(* Whatever number of renders, restarts and failures: what is stored under *)
(* a hash, in the memory of the environment or on disk, has been compiled  *)
(* from the content and with the options that the hash is computed from,   *)
(* as long as those change between renders only (environment.ts            *)
(* getTemplateHash, loadTemplate).                                         *)
THEOREM QuietStoreMatchesHash == Quiet => (Spec => []StoreMatchesHash)
<1>. SUFFICES ASSUME Quiet PROVE Spec => []StoreMatchesHash
  OBVIOUS
<1>1. LoadingInv => StoreMatchesHash
  BY DEF LoadingInv, MemoryInv, DiskInv, StoreMatchesHash
<1> QED
  BY <1>1, LoadingInvariant, PTL

(* With auto_reload, without a cache or with an array loader, a load that  *)
(* does not answer from the memory of the environment returns no version   *)
(* of the source older than the one it was called with, but when the file  *)
(* of the source is younger than its module by less than a millisecond, so *)
(* that isFresh cannot tell: no other module of another load or of an      *)
(* earlier process is taken for fresh, however Node rounds the time of the *)
(* source (environment.ts loadTemplate, loader/filesystem.ts isFresh).     *)
THEOREM QuietLoadReturnsCurrentSource == Quiet => (Spec => []LoadReturnsCurrentSource)
<1>. SUFFICES ASSUME Quiet PROVE Spec => []LoadReturnsCurrentSource
  OBVIOUS
<1>1. LoadingInv => LoadReturnsCurrentSource
  BY DEF LoadingInv, RenderInv, IsCurrent, Tracked, LoadReturnsCurrentSource
<1> QED
  BY <1>1, LoadingInvariant, PTL

(* The template that an embed tag gets is the one of its own module:       *)
(* renders that load at once never replace a module in memory by another   *)
(* with the same number, whether they share the file of the cache or have  *)
(* each compiled their own (environment.ts loadTemplate, parser.ts         *)
(* embedTemplate).                                                         *)
THEOREM QuietEmbedIsOfItsTemplate == Quiet => (Spec => []EmbedIsOfItsTemplate)
<1>. SUFFICES ASSUME Quiet PROVE Spec => []EmbedIsOfItsTemplate
  OBVIOUS
<1>1. LoadingInv => EmbedIsOfItsTemplate
  BY DEF LoadingInv, RenderInv, IsItsEmbed, EmbedIsOfItsTemplate
<1> QED
  BY <1>1, LoadingInvariant, PTL
=============================================================================
