-------------------------- MODULE FilesystemLoader -------------------------
(***************************************************************************)
(* loader/filesystem.ts: the search of one template through the paths of   *)
(* its namespace, with the two caches of findTemplate, while the paths and *)
(* the files may change.                                                   *)
(*                                                                         *)
(* A lookup stats one directory per step.  It holds on to the ARRAY of     *)
(* paths it found when it began: addPath and prependPath change that array *)
(* in place, setPaths leaves it to the lookup and installs another.  It    *)
(* writes to the caches that the loader has when the lookup ends.          *)
(***************************************************************************)
EXTENDS Naturals, Sequences, SequencesExt

CONSTANTS
    Directories,    \* the directories a program may register
    Missing,        \* those of them that do not exist
    Lookups,        \* the calls of findTemplate
    None,           \* no directory: null, or nothing in the cache
    EmptyPaths,     \* TRUE: setPaths may be called with no path at all
    Quiet,          \* TRUE: the paths change only while no lookup is in flight
    MaxPaths,       \* bound: the paths that are registered
    MaxChanges,     \* bound: how many times the paths change, ...
    MaxFileChanges  \* ... and how many times a file comes or goes

ASSUME LoaderAssumption ==
    /\ Missing \subseteq Directories
    /\ None \notin Directories
    /\ EmptyPaths \in BOOLEAN /\ Quiet \in BOOLEAN
    /\ {MaxPaths, MaxChanges, MaxFileChanges} \subseteq Nat

VARIABLES
    files,          \* the directories that have a file of the template's name
    arrays,         \* the arrays of paths created so far
    current,        \* which of them is paths.get(namespace), or 0
    cache,          \* the directory in this.cache, or None
    errorCache,     \* whether this.errorCache has the name
    lookup,         \* the variables of each lookup
    changes,        \* how many times the paths have changed, ...
    fileChanges     \* ... and the files

vars == <<files, arrays, current, cache, errorCache, lookup, changes, fileChanges>>

(* strict is the parameter throw_ of findTemplate: whether a lookup that   *)
(* finds nothing rejects or resolves with null; exists and resolve are not *)
(* strict, getSourceContext, getCacheKey and isFresh are.  directory is    *)
(* the one the lookup waits for the stat of.                               *)
Lookup == [pc : {"idle", "walking", "exhausted", "resolved", "rejected"},
           array : Nat, index : Nat, strict : BOOLEAN,
           directory : Directories \cup {None}]

NoLookup == [pc |-> "idle", array |-> 0, index |-> 0, strict |-> FALSE,
             directory |-> None]

InFlight(l) == lookup[l].pc \in {"walking", "exhausted"}

Paths == IF current = 0 THEN <<>> ELSE arrays[current]

(* d is what a search of the paths p ought to find: the first of them that *)
(* has the file, or None.                                                  *)
Finds(p, d) ==
    IF d = None THEN \A i \in DOMAIN p : p[i] \notin files
    ELSE \E i \in DOMAIN p :
            /\ p[i] = d /\ d \in files
            /\ \A j \in 1 .. i - 1 : p[j] \notin files

Init ==
    /\ files \in SUBSET (Directories \ Missing)
    /\ arrays = <<>> /\ current = 0
    /\ cache = None /\ errorCache = FALSE
    /\ lookup = [l \in Lookups |-> NoLookup]
    /\ changes = 0 /\ fileChanges = 0

-----------------------------------------------------------------------------
(* The paths.  The caches are replaced before the directory is checked. *)

CanChange ==
    /\ changes < MaxChanges
    /\ Quiet => \A l \in Lookups : ~ InFlight(l)

(* A mutant of Invalidate: one of the two caches is kept.                  *)
InvalidateFound == cache' = None /\ UNCHANGED errorCache

Invalidate == cache' = None /\ errorCache' = FALSE

(* The arrays with the paths p for the namespace; the first path of a      *)
(* namespace creates its array.                                            *)
WithPaths(p) ==
    IF current = 0 THEN arrays' = Append(arrays, p) /\ current' = Len(arrays) + 1
                   ELSE arrays' = [arrays EXCEPT ![current] = p] /\ UNCHANGED current

(* A mutant of AddPath: the directory is not checked.                      *)
AddPathUnchecked(d) ==
    /\ CanChange /\ Len(Paths) < MaxPaths
    /\ changes' = changes + 1
    /\ Invalidate
    /\ WithPaths(Append(Paths, d))
    /\ UNCHANGED <<files, lookup, fileChanges>>

AddPath(d) ==
    /\ CanChange /\ Len(Paths) < MaxPaths
    /\ changes' = changes + 1
    /\ Invalidate
    /\ IF d \in Missing THEN UNCHANGED <<arrays, current>>
                        ELSE WithPaths(Append(Paths, d))
    /\ UNCHANGED <<files, lookup, fileChanges>>

PrependPath(d) ==
    /\ CanChange /\ Len(Paths) < MaxPaths
    /\ changes' = changes + 1
    /\ Invalidate
    /\ IF d \in Missing THEN UNCHANGED <<arrays, current>>
                        ELSE WithPaths(<<d>> \o Paths)
    /\ UNCHANGED <<files, lookup, fileChanges>>

(* A new array, then addPath for each path, up to one that does not exist, *)
(* which throws.  With no path at all the caches are kept.                 *)
SetPaths(paths) ==
    /\ CanChange
    /\ EmptyPaths \/ paths # <<>>
    /\ changes' = changes + 1
    /\ \E n \in 0 .. Len(paths) :
          /\ \A i \in 1 .. n : paths[i] \notin Missing
          /\ n < Len(paths) => paths[n + 1] \in Missing
          /\ arrays' = Append(arrays, SubSeq(paths, 1, n))
    /\ current' = Len(arrays) + 1
    /\ IF paths = <<>> THEN UNCHANGED <<cache, errorCache>> ELSE Invalidate
    /\ UNCHANGED <<files, lookup, fileChanges>>

(* A file is written or removed.                                           *)
ChangeFile(d) ==
    /\ fileChanges < MaxFileChanges
    /\ fileChanges' = fileChanges + 1
    /\ d \notin Missing
    /\ files' = IF d \in files THEN files \ {d} ELSE files \cup {d}
    /\ UNCHANGED <<arrays, current, cache, errorCache, lookup, changes>>

-----------------------------------------------------------------------------
(* findTemplate. *)

(* A lookup resolves with the directory d, or ends without one.            *)
Ended(j, d) ==
    [j EXCEPT !.pc = IF d = None /\ j.strict THEN "rejected" ELSE "resolved",
              !.array = 0, !.index = 0, !.directory = d]

(* A mutant of AtIndex: the last of the paths is not looked into.          *)
AtIndexButLast(j, index) ==
    IF index < Len(arrays[j.array])
    THEN [j EXCEPT !.pc = "walking", !.index = index,
                   !.directory = arrays[j.array][index]]
    ELSE [j EXCEPT !.pc = "exhausted", !.index = 0, !.directory = None]

(* findTemplateInPathAtIndex: the stat of a directory is asked for.        *)
AtIndex(j, index) ==
    IF index <= Len(arrays[j.array])
    THEN [j EXCEPT !.pc = "walking", !.index = index,
                   !.directory = arrays[j.array][index]]
    ELSE [j EXCEPT !.pc = "exhausted", !.index = 0, !.directory = None]

Begin(l, strict) ==
    /\ lookup[l].pc = "idle"
    /\ LET j == [NoLookup EXCEPT !.strict = strict, !.array = current]
       IN  IF cache # None
           THEN /\ lookup' = [lookup EXCEPT ![l] = Ended(j, cache)]
                /\ UNCHANGED errorCache
           ELSE IF errorCache \/ current = 0
           THEN /\ lookup' = [lookup EXCEPT ![l] = Ended(j, None)]
                /\ errorCache' = TRUE
           ELSE /\ lookup' = [lookup EXCEPT ![l] = AtIndex(j, 1)]
                /\ UNCHANGED errorCache
    /\ UNCHANGED <<files, arrays, current, cache, changes, fileChanges>>

(* The callback of the stat.                                               *)
Visit(l) ==
    /\ lookup[l].pc = "walking"
    /\ LET j == lookup[l]
       IN  IF j.directory \in files
           THEN /\ cache' = j.directory
                /\ lookup' = [lookup EXCEPT ![l] = Ended(j, j.directory)]
           ELSE /\ lookup' = [lookup EXCEPT ![l] = AtIndex(j, j.index + 1)]
                /\ UNCHANGED cache
    /\ UNCHANGED <<files, arrays, current, errorCache, changes, fileChanges>>

(* There was no directory left.                                            *)
GiveUp(l) ==
    /\ lookup[l].pc = "exhausted"
    /\ errorCache' = TRUE
    /\ lookup' = [lookup EXCEPT ![l] = Ended(lookup[l], None)]
    /\ UNCHANGED <<files, arrays, current, cache, changes, fileChanges>>

(* The result has been used: the lookup may serve again.                   *)
Forget(l) ==
    /\ lookup[l].pc \in {"resolved", "rejected"}
    /\ lookup' = [lookup EXCEPT ![l] = NoLookup]
    /\ UNCHANGED <<files, arrays, current, cache, errorCache, changes, fileChanges>>

-----------------------------------------------------------------------------

Next ==
    \/ \E d \in Directories : AddPath(d) \/ PrependPath(d) \/ ChangeFile(d)
    \/ \E paths \in SeqOf(Directories, MaxPaths) : SetPaths(paths)
    \/ \E l \in Lookups :
          \/ \E strict \in BOOLEAN : Begin(l, strict)
          \/ Visit(l) \/ GiveUp(l) \/ Forget(l)

Spec == Init /\ [][Next]_vars

-----------------------------------------------------------------------------

(* Type invariant; the paths are existing directories, and a lookup that   *)
(* walks does so through an array that exists.                             *)
TypeOK ==
    /\ files \subseteq Directories \ Missing
    /\ arrays \in Seq(Seq(Directories \ Missing))
    /\ current \in 0 .. Len(arrays)
    /\ cache \in Directories \cup {None} /\ errorCache \in BOOLEAN
    /\ lookup \in [Lookups -> Lookup]
    /\ changes \in 0 .. MaxChanges /\ fileChanges \in 0 .. MaxFileChanges
    /\ \A l \in Lookups : InFlight(l) => lookup[l].array \in DOMAIN arrays

(* As long as the files stay what they are, the caches know of the file    *)
(* what a search of the paths registered now finds: "Twing will first look *)
(* for templates in templateDir1 and if they do not exist, it will         *)
(* fallback" (docs/api.md); addPath and prependPath "invalidate the cache".*)
CachesMatchPaths ==
    fileChanges = 0 =>
        /\ cache # None => Finds(Paths, cache)
        /\ errorCache => Finds(Paths, None)

(* A lookup ends with the first of the paths that has the file, and does   *)
(* not fail unless none has, whatever the other lookups have cached.       *)
LookupFindsFirst ==
    [][ \A l \in Lookups :
            /\ fileChanges = 0
            /\ lookup[l].pc \notin {"resolved", "rejected"}
            /\ lookup'[l].pc \in {"resolved", "rejected"}
            => /\ Finds(Paths, lookup'[l].directory)
               /\ lookup'[l].pc = "rejected" <=>
                      lookup'[l].strict /\ lookup'[l].directory = None ]_vars

=============================================================================
