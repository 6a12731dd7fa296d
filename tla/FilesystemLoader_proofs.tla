---------------------- MODULE FilesystemLoader_proofs ----------------------
(***************************************************************************)
(* Theorems about FilesystemLoader, for every number of directories,       *)
(* lookups and changes: the type invariant, whatever changes when; and the *)
(* correctness of the caches and of the lookups as long as the paths do    *)
(* not change under a lookup (Quiet).                                      *)
(***************************************************************************)
EXTENDS FilesystemLoader, TLAPS

Path == Directories \ Missing

(* The conjuncts of TypeOK, the ones on the lookups apart.                 *)
TypeOfPaths ==
    /\ files \subseteq Path
    /\ arrays \in Seq(Seq(Path))
    /\ current \in 0 .. Len(arrays)
    /\ cache \in Directories \cup {None} /\ errorCache \in BOOLEAN
    /\ changes \in 0 .. MaxChanges /\ fileChanges \in 0 .. MaxFileChanges

TypeOfLookups ==
    /\ lookup \in [Lookups -> Lookup]
    /\ \A l \in Lookups : InFlight(l) => lookup[l].array \in DOMAIN arrays

LEMMA TypeParts == TypeOK <=> TypeOfPaths /\ TypeOfLookups
BY DEF TypeOK, TypeOfPaths, TypeOfLookups, Path

LEMMA PathsType ==
    ASSUME TypeOfPaths
    PROVE  Paths \in Seq(Path)
BY DEF TypeOfPaths, Paths

(* A step of a lookup at the given index of its array leaves a lookup.     *)
LEMMA AtIndexType ==
    ASSUME TypeOfPaths, NEW j \in Lookup, NEW i \in Nat \ {0},
           j.array \in DOMAIN arrays
    PROVE  /\ AtIndex(j, i) \in Lookup
           /\ AtIndex(j, i).array = j.array
           /\ AtIndex(j, i).strict = j.strict
           /\ IF i <= Len(arrays[j.array])
              THEN /\ AtIndex(j, i).pc = "walking"
                   /\ AtIndex(j, i).index = i
                   /\ AtIndex(j, i).directory = arrays[j.array][i]
              ELSE AtIndex(j, i).pc = "exhausted"
<1>1. arrays[j.array] \in Seq(Path)
  BY DEF TypeOfPaths
<1>2. CASE i <= Len(arrays[j.array])
  <2>1. arrays[j.array][i] \in Directories
    BY <1>1, <1>2 DEF Path
  <2> QED
    BY <2>1, <1>2 DEF AtIndex, Lookup
<1>3. CASE ~ (i <= Len(arrays[j.array]))
  BY <1>3 DEF AtIndex, Lookup
<1> QED
  BY <1>2, <1>3

LEMMA EndedType ==
    ASSUME NEW j \in Lookup, NEW d \in Directories \cup {None}
    PROVE  /\ Ended(j, d) \in Lookup
           /\ Ended(j, d).directory = d
           /\ Ended(j, d).strict = j.strict
           /\ Ended(j, d).pc = IF d = None /\ j.strict THEN "rejected"
                                                       ELSE "resolved"
BY DEF Ended, Lookup

LEMMA NoLookupType == NoLookup \in Lookup /\ NoLookup.pc = "idle"
BY DEF NoLookup, Lookup

(* Adding paths leaves the arrays as they were, or longer.                 *)
LEMMA WithPathsType ==
    ASSUME TypeOfPaths, NEW p \in Seq(Path), WithPaths(p)
    PROVE  /\ arrays' \in Seq(Seq(Path))
           /\ current' \in 1 .. Len(arrays')
           /\ Len(arrays) <= Len(arrays')
           /\ arrays'[current'] = p
<1>. DEFINE A == Seq(Path)
<1>1. arrays \in Seq(A) /\ Len(arrays) \in Nat /\ p \in A
  BY DEF TypeOfPaths
<1>. HIDE DEF A
<1>2. CASE current = 0
  <2>1. arrays' = Append(arrays, p) /\ current' = Len(arrays) + 1
    BY <1>2 DEF WithPaths
  <2>2. /\ Append(arrays, p) \in Seq(A)
        /\ Len(Append(arrays, p)) = Len(arrays) + 1
        /\ Append(arrays, p)[Len(arrays) + 1] = p
    BY <1>1
  <2> QED
    BY <2>1, <2>2, <1>1 DEF A
<1>3. CASE current # 0
  <2>1. arrays' = [arrays EXCEPT ![current] = p] /\ current' = current
    BY <1>3 DEF WithPaths
  <2>2. current \in 1 .. Len(arrays)
    BY <1>3, <1>1 DEF TypeOfPaths
  <2>3. /\ [arrays EXCEPT ![current] = p] \in Seq(A)
        /\ Len([arrays EXCEPT ![current] = p]) = Len(arrays)
        /\ [arrays EXCEPT ![current] = p][current] = p
    BY <1>1, <2>2
  <2> QED
    BY <2>1, <2>2, <2>3, <1>1 DEF A
<1> QED
  BY <1>2, <1>3

(* The changes of the paths keep both parts of the type invariant.         *)
LEMMA ChangeType ==
    ASSUME LoaderAssumption, TypeOK,
           \/ \E d \in Directories : AddPath(d) \/ PrependPath(d)
           \/ \E paths \in SeqOf(Directories, MaxPaths) : SetPaths(paths)
    PROVE  TypeOK' /\ Len(arrays) <= Len(arrays') /\ lookup' = lookup
<1>1. TypeOfPaths /\ TypeOfLookups
  BY TypeParts
<1>2. changes' \in 0 .. MaxChanges
  <2>1. changes < MaxChanges /\ changes' = changes + 1
    BY DEF AddPath, PrependPath, SetPaths, CanChange
  <2>2. MaxChanges \in Nat /\ changes \in 0 .. MaxChanges
    BY <1>1 DEF TypeOfPaths, LoaderAssumption
  <2> QED
    BY <2>1, <2>2
<1>3. cache' \in Directories \cup {None} /\ errorCache' \in BOOLEAN
  BY <1>1 DEF AddPath, PrependPath, SetPaths, Invalidate, TypeOfPaths
<1>4. /\ files' = files /\ lookup' = lookup /\ fileChanges' = fileChanges
  BY DEF AddPath, PrependPath, SetPaths
<1>5. /\ arrays' \in Seq(Seq(Path))
      /\ current' \in 0 .. Len(arrays')
      /\ Len(arrays) <= Len(arrays')
  <2>1. CASE \E d \in Directories : AddPath(d)
    <3>1. PICK d \in Directories : AddPath(d)
      BY <2>1
    <3>2. CASE d \in Missing
      BY <3>1, <3>2, <1>1 DEF AddPath, TypeOfPaths
    <3>3. CASE d \notin Missing
      <4>1. Append(Paths, d) \in Seq(Path)
        BY <1>1, PathsType, <3>3 DEF Path
      <4>2. WithPaths(Append(Paths, d))
        BY <3>1, <3>3 DEF AddPath
      <4>3. /\ arrays' \in Seq(Seq(Path))
            /\ current' \in 1 .. Len(arrays')
            /\ Len(arrays) <= Len(arrays')
        BY ONLY <4>1, <4>2, <1>1, WithPathsType
      <4> QED
        BY <4>3
    <3> QED
      BY <3>2, <3>3
  <2>2. CASE \E d \in Directories : PrependPath(d)
    <3>1. PICK d \in Directories : PrependPath(d)
      BY <2>2
    <3>2. CASE d \in Missing
      BY <3>1, <3>2, <1>1 DEF PrependPath, TypeOfPaths
    <3>3. CASE d \notin Missing
      <4>1. <<d>> \o Paths \in Seq(Path)
        BY <1>1, PathsType, <3>3 DEF Path
      <4>2. WithPaths(<<d>> \o Paths)
        BY <3>1, <3>3 DEF PrependPath
      <4>3. /\ arrays' \in Seq(Seq(Path))
            /\ current' \in 1 .. Len(arrays')
            /\ Len(arrays) <= Len(arrays')
        BY ONLY <4>1, <4>2, <1>1, WithPathsType
      <4> QED
        BY <4>3
    <3> QED
      BY <3>2, <3>3
  <2>3. CASE \E paths \in SeqOf(Directories, MaxPaths) : SetPaths(paths)
    <3>1. PICK paths \in SeqOf(Directories, MaxPaths) : SetPaths(paths)
      BY <2>3
    <3>2. paths \in Seq(Directories)
      BY DEF SeqOf, LoaderAssumption
    <3>3. PICK n \in 0 .. Len(paths) :
              /\ \A i \in 1 .. n : paths[i] \notin Missing
              /\ arrays' = Append(arrays, SubSeq(paths, 1, n))
      BY <3>1 DEF SetPaths
    <3>4. SubSeq(paths, 1, n) \in Seq(Path)
      BY <3>2, <3>3 DEF Path
    <3>5. current' = Len(arrays) + 1
      BY <3>1 DEF SetPaths
    <3> QED
      BY <3>3, <3>4, <3>5, <1>1 DEF TypeOfPaths
  <2> QED
    BY <2>1, <2>2, <2>3
<1>6. TypeOfPaths'
  BY <1>1, <1>2, <1>3, <1>4, <1>5 DEF TypeOfPaths
<1>7. TypeOfLookups'
  BY <1>1, <1>4, <1>5 DEF TypeOfLookups, TypeOfPaths, InFlight
<1> QED
  <2>1. TypeOK'
    BY <1>6, <1>7 DEF TypeOK, TypeOfPaths, TypeOfLookups, Path
  <2> QED
    BY <1>4, <1>5, <2>1

(* A step of one lookup, from what it leaves behind.                       *)
LEMMA LookupType ==
    ASSUME TypeOK, NEW l \in Lookups, NEW j \in Lookup,
           lookup' = [lookup EXCEPT ![l] = j],
           UNCHANGED <<files, arrays, current, changes, fileChanges>>,
           cache' \in Directories \cup {None}, errorCache' \in BOOLEAN,
           j.pc \in {"walking", "exhausted"} => j.array \in DOMAIN arrays
    PROVE  TypeOK'
<1>1. TypeOfPaths /\ TypeOfLookups
  BY TypeParts
<1>2. TypeOfPaths'
  BY <1>1 DEF TypeOfPaths
<1>3. TypeOfLookups'
  BY <1>1 DEF TypeOfLookups, InFlight
<1> QED
  BY <1>2, <1>3 DEF TypeOK, TypeOfPaths, TypeOfLookups, Path

(* What a lookup does: the record it leaves behind, and the caches.        *)
LEMMA BeginType ==
    ASSUME TypeOK, NEW l \in Lookups, NEW strict \in BOOLEAN,
           Begin(l, strict)
    PROVE  TypeOK'
<1>. DEFINE j == [NoLookup EXCEPT !.strict = strict, !.array = current]
<1>1. TypeOfPaths /\ TypeOfLookups
  BY TypeParts
<1>2. j \in Lookup /\ j.array = current
  <2>1. current \in Nat
    BY <1>1 DEF TypeOfPaths
  <2> QED
    BY <2>1 DEF NoLookup, Lookup
<1>3. UNCHANGED <<files, arrays, current, cache, changes, fileChanges>>
  BY DEF Begin
<1>. HIDE DEF j
<1>4. CASE cache # None
  <2>1. lookup' = [lookup EXCEPT ![l] = Ended(j, cache)] /\ errorCache' = errorCache
    BY <1>4 DEF Begin, j
  <2>2. Ended(j, cache) \in Lookup /\ Ended(j, cache).pc \in {"resolved", "rejected"}
    BY <1>1, <1>2, EndedType DEF TypeOfPaths
  <2> QED
    BY <1>1, <1>3, <2>1, <2>2, LookupType DEF TypeOfPaths
<1>5. CASE cache = None /\ (errorCache \/ current = 0)
  <2>1. lookup' = [lookup EXCEPT ![l] = Ended(j, None)] /\ errorCache' = TRUE
    BY <1>5 DEF Begin, j
  <2>2. Ended(j, None) \in Lookup /\ Ended(j, None).pc \in {"resolved", "rejected"}
    BY <1>2, EndedType
  <2> QED
    BY <1>1, <1>3, <2>1, <2>2, LookupType DEF TypeOfPaths
<1>6. CASE cache = None /\ ~ (errorCache \/ current = 0)
  <2>1. lookup' = [lookup EXCEPT ![l] = AtIndex(j, 1)] /\ errorCache' = errorCache
    BY <1>6 DEF Begin, j
  <2>2. j.array \in DOMAIN arrays
    BY <1>1, <1>2, <1>6 DEF TypeOfPaths
  <2>3. AtIndex(j, 1) \in Lookup /\ AtIndex(j, 1).array = j.array
    BY <1>1, <1>2, <2>2, AtIndexType
  <2> QED
    BY <1>1, <1>3, <2>1, <2>2, <2>3, LookupType DEF TypeOfPaths
<1> QED
  BY <1>4, <1>5, <1>6

LEMMA VisitType ==
    ASSUME TypeOK, NEW l \in Lookups, Visit(l)
    PROVE  TypeOK'
<1>. DEFINE j == lookup[l]
<1>1. TypeOfPaths /\ TypeOfLookups
  BY TypeParts
<1>2. j \in Lookup /\ j.array \in DOMAIN arrays /\ j.index + 1 \in Nat \ {0}
  BY <1>1 DEF Visit, TypeOfLookups, InFlight, Lookup
<1>3. UNCHANGED <<files, arrays, current, errorCache, changes, fileChanges>>
  BY DEF Visit
<1>. HIDE DEF j
<1>4. CASE j.directory \in files
  <2>1. lookup' = [lookup EXCEPT ![l] = Ended(j, j.directory)] /\ cache' = j.directory
    BY <1>4 DEF Visit, j
  <2>2. j.directory \in Directories \cup {None}
    BY <1>2 DEF Lookup
  <2>3. /\ Ended(j, j.directory) \in Lookup
        /\ Ended(j, j.directory).pc \in {"resolved", "rejected"}
    BY <1>2, <2>2, EndedType
  <2> QED
    BY <1>1, <1>3, <2>1, <2>2, <2>3, LookupType DEF TypeOfPaths
<1>5. CASE j.directory \notin files
  <2>1. lookup' = [lookup EXCEPT ![l] = AtIndex(j, j.index + 1)] /\ cache' = cache
    BY <1>5 DEF Visit, j
  <2>2. /\ AtIndex(j, j.index + 1) \in Lookup
        /\ AtIndex(j, j.index + 1).array = j.array
    BY <1>1, <1>2, AtIndexType
  <2> QED
    BY <1>1, <1>2, <1>3, <2>1, <2>2, LookupType DEF TypeOfPaths
<1> QED
  BY <1>4, <1>5

LEMMA GiveUpType ==
    ASSUME TypeOK, NEW l \in Lookups, GiveUp(l)
    PROVE  TypeOK'
<1>1. TypeOfPaths /\ TypeOfLookups
  BY TypeParts
<1>2. /\ Ended(lookup[l], None) \in Lookup
      /\ Ended(lookup[l], None).pc \in {"resolved", "rejected"}
  BY <1>1, EndedType DEF TypeOfLookups
<1> QED
  BY <1>1, <1>2, LookupType DEF GiveUp, TypeOfPaths

LEMMA ForgetType ==
    ASSUME TypeOK, NEW l \in Lookups, Forget(l)
    PROVE  TypeOK'
<1>1. TypeOfPaths /\ TypeOfLookups
  BY TypeParts
<1> QED
  BY <1>1, NoLookupType, LookupType DEF Forget, TypeOfPaths

LEMMA ChangeFileType ==
    ASSUME LoaderAssumption, TypeOK, NEW d \in Directories, ChangeFile(d)
    PROVE  TypeOK' /\ fileChanges' # 0 /\ lookup' = lookup
<1>1. TypeOfPaths /\ TypeOfLookups
  BY TypeParts
<1>2. MaxFileChanges \in Nat /\ fileChanges \in 0 .. MaxFileChanges
  BY <1>1 DEF TypeOfPaths, LoaderAssumption
<1>3. fileChanges' \in 0 .. MaxFileChanges /\ fileChanges' # 0
  BY <1>2 DEF ChangeFile
<1>4. TypeOfPaths'
  BY <1>1, <1>3 DEF ChangeFile, TypeOfPaths, Path
<1>5. TypeOfLookups'
  BY <1>1 DEF ChangeFile, TypeOfLookups, InFlight
<1> QED
  BY <1>3, <1>4, <1>5 DEF TypeOK, TypeOfPaths, TypeOfLookups, Path, ChangeFile

LEMMA NextType == LoaderAssumption /\ TypeOK /\ [Next]_vars => TypeOK'
<1>. SUFFICES ASSUME LoaderAssumption, TypeOK, [Next]_vars PROVE TypeOK'
  OBVIOUS
<1>1. CASE UNCHANGED vars
  BY <1>1 DEF vars, TypeOK, InFlight
<1>2. CASE Next
  BY <1>2, ChangeType, ChangeFileType, BeginType, VisitType, GiveUpType,
     ForgetType DEF Next
<1> QED
  BY <1>1, <1>2

LEMMA InitType == LoaderAssumption /\ Init => TypeOK
<1>. SUFFICES ASSUME LoaderAssumption, Init PROVE TypeOK
  OBVIOUS
<1>1. MaxChanges \in Nat /\ MaxFileChanges \in Nat
  BY DEF LoaderAssumption
<1>2. TypeOfPaths
  <2>1. <<>> \in Seq(Seq(Path)) /\ Len(<<>>) = 0
    OBVIOUS
  <2>2. arrays \in Seq(Seq(Path)) /\ current \in 0 .. Len(arrays)
    BY <2>1 DEF Init
  <2>3. files \subseteq Path /\ cache \in Directories \cup {None}
    BY DEF Init, Path
  <2>4. errorCache \in BOOLEAN
    BY DEF Init
  <2>5. changes \in 0 .. MaxChanges /\ fileChanges \in 0 .. MaxFileChanges
    BY <1>1 DEF Init
  <2> QED
    BY <2>2, <2>3, <2>4, <2>5 DEF TypeOfPaths
<1>3. TypeOfLookups
  BY NoLookupType DEF Init, TypeOfLookups, InFlight
<1> QED
  BY <1>2, <1>3, TypeParts

(* Whatever changes and when, the state has its type: a lookup never walks *)
(* through an array that is not there, and no path is a directory that is  *)
(* missing (addPath, prependPath, setPaths).                               *)
THEOREM TypeCorrect == Spec => []TypeOK
<1>1. Init => TypeOK
  BY InitType, LoaderAssumption
<1>2. TypeOK /\ [Next]_vars => TypeOK'
  BY NextType, LoaderAssumption
<1> QED
  BY <1>1, <1>2, PTL DEF Spec

-----------------------------------------------------------------------------
(* The inductive invariant.  It says what a lookup in flight has learnt:   *)
(* none of the paths before the one it waits for has the file.  That is    *)
(* why the caches, written when a lookup ends, are right; and it is what a *)
(* change of the paths during a lookup would break.                        *)

Learnt(l) ==
    /\ lookup[l].pc = "walking" =>
           /\ lookup[l].array = current /\ current # 0
           /\ lookup[l].index \in 1 .. Len(Paths)
           /\ lookup[l].directory = Paths[lookup[l].index]
           /\ fileChanges = 0 =>
                  \A i \in 1 .. lookup[l].index - 1 : Paths[i] \notin files
    /\ lookup[l].pc = "exhausted" => (fileChanges = 0 => Finds(Paths, None))

(* A template is not found in a directory that is no longer registered,   *)
(* even while files come and go.                                          *)
FoundInRegistered == cache # None => cache \in ToSet(Paths)

QuietInv ==
    /\ TypeOK
    /\ CachesMatchPaths
    /\ FoundInRegistered
    /\ \A l \in Lookups : Learnt(l)

Quietly == LoaderAssumption /\ Quiet /\ ~ EmptyPaths

LEMMA InitQuiet == Quietly /\ Init => QuietInv
<1>. SUFFICES ASSUME Quietly, Init PROVE QuietInv
  OBVIOUS
<1>1. TypeOK
  BY InitType DEF Quietly
<1>2. CachesMatchPaths /\ FoundInRegistered
  BY DEF Init, CachesMatchPaths, FoundInRegistered
<1>3. \A l \in Lookups : Learnt(l)
  BY NoLookupType DEF Init, Learnt
<1> QED
  BY <1>1, <1>2, <1>3 DEF QuietInv

LEMMA ChangeQuiet ==
    ASSUME Quietly, QuietInv,
           \/ \E d \in Directories : AddPath(d) \/ PrependPath(d)
           \/ \E paths \in SeqOf(Directories, MaxPaths) : SetPaths(paths)
    PROVE  QuietInv'
<1>1. TypeOK' /\ lookup' = lookup
  BY ChangeType DEF QuietInv, Quietly
<1>2. \A l \in Lookups : ~ InFlight(l)
  BY DEF Quietly, AddPath, PrependPath, SetPaths, CanChange
<1>3. cache' = None /\ errorCache' = FALSE
  BY DEF Quietly, AddPath, PrependPath, SetPaths, Invalidate
<1>4. CachesMatchPaths' /\ FoundInRegistered'
  BY <1>3 DEF CachesMatchPaths, FoundInRegistered
<1>5. \A l \in Lookups : Learnt(l)'
  BY <1>1, <1>2 DEF Learnt, InFlight
<1> QED
  BY <1>1, <1>4, <1>5 DEF QuietInv

LEMMA ChangeFileQuiet ==
    ASSUME Quietly, QuietInv, NEW d \in Directories, ChangeFile(d)
    PROVE  QuietInv'
<1>1. TypeOK' /\ fileChanges' # 0 /\ lookup' = lookup
  BY ChangeFileType DEF QuietInv, Quietly
<1>2. Paths' = Paths /\ cache' = cache /\ current' = current
  BY DEF ChangeFile, Paths
<1>3. CachesMatchPaths' /\ FoundInRegistered'
  BY <1>1, <1>2 DEF QuietInv, CachesMatchPaths, FoundInRegistered
<1>4. \A l \in Lookups : Learnt(l)'
  BY <1>1, <1>2 DEF QuietInv, Learnt
<1> QED
  BY <1>1, <1>3, <1>4 DEF QuietInv

(* What the step of a lookup establishes.                                  *)
LEMMA StepQuiet ==
    ASSUME Quietly, QuietInv, TypeOK', NEW l \in Lookups, NEW j \in Lookup,
           lookup' = [lookup EXCEPT ![l] = j],
           UNCHANGED <<files, arrays, current, fileChanges>>,
           CachesMatchPaths', FoundInRegistered',
           j.pc = "walking" =>
               /\ j.array = current /\ current # 0
               /\ j.index \in 1 .. Len(Paths)
               /\ j.directory = Paths[j.index]
               /\ fileChanges = 0 =>
                      \A i \in 1 .. j.index - 1 : Paths[i] \notin files,
           j.pc = "exhausted" => (fileChanges = 0 => Finds(Paths, None))
    PROVE  QuietInv'
<1>1. Paths' = Paths /\ (Finds(Paths, None))' = Finds(Paths, None)
  BY DEF Paths, Finds
<1>2. lookup \in [Lookups -> Lookup]
  BY DEF QuietInv, TypeOK
<1>3. ASSUME NEW m \in Lookups PROVE Learnt(m)'
  <2>1. CASE m = l
    BY <1>1, <1>2, <2>1 DEF Learnt
  <2>2. CASE m # l
    BY <1>1, <1>2, <2>2 DEF QuietInv, Learnt
  <2> QED
    BY <2>1, <2>2
<1> QED
  BY <1>3 DEF QuietInv

(* What a lookup ends with, if the step ends it.                           *)
Outcome(l) ==
    /\ fileChanges = 0
    /\ lookup[l].pc \notin {"resolved", "rejected"}
    /\ lookup'[l].pc \in {"resolved", "rejected"}
    => /\ Finds(Paths, lookup'[l].directory)
       /\ lookup'[l].pc = "rejected" <=>
              lookup'[l].strict /\ lookup'[l].directory = None

LEMMA EndedOutcome ==
    ASSUME TypeOK, NEW l \in Lookups, NEW j \in Lookup,
           NEW d \in Directories \cup {None},
           lookup' = [lookup EXCEPT ![l] = Ended(j, d)],
           fileChanges = 0 => Finds(Paths, d)
    PROVE  Outcome(l)
<1>1. lookup'[l] = Ended(j, d)
  BY DEF TypeOK
<1> QED
  BY <1>1, EndedType DEF Outcome

LEMMA BeginQuiet ==
    ASSUME Quietly, QuietInv, NEW l \in Lookups, NEW strict \in BOOLEAN,
           Begin(l, strict)
    PROVE  QuietInv' /\ Outcome(l)
<1>. DEFINE j == [NoLookup EXCEPT !.strict = strict, !.array = current]
<1>1. TypeOK /\ TypeOK' /\ TypeOfPaths
  BY BeginType, TypeParts DEF QuietInv
<1>2. j \in Lookup /\ j.array = current
  <2>1. current \in Nat
    BY <1>1 DEF TypeOfPaths
  <2> QED
    BY <2>1 DEF NoLookup, Lookup
<1>3. UNCHANGED <<files, arrays, current, cache, changes, fileChanges>>
  BY DEF Begin
<1>4. Paths' = Paths
  BY <1>3 DEF Paths
<1>5. FoundInRegistered'
  BY <1>3, <1>4 DEF QuietInv, FoundInRegistered
<1>. HIDE DEF j
<1>6. CASE cache # None
  <2>1. lookup' = [lookup EXCEPT ![l] = Ended(j, cache)] /\ errorCache' = errorCache
    BY <1>6 DEF Begin, j
  <2>2. /\ Ended(j, cache) \in Lookup
        /\ Ended(j, cache).pc \in {"resolved", "rejected"}
        /\ cache \in Directories \cup {None}
    BY <1>1, <1>2, EndedType DEF TypeOfPaths
  <2>3. CachesMatchPaths'
    BY <1>3, <2>1 DEF QuietInv, CachesMatchPaths, Finds, Paths
  <2>4. fileChanges = 0 => Finds(Paths, cache)
    BY <1>6 DEF QuietInv, CachesMatchPaths
  <2>5. QuietInv'
    BY <1>1, <1>3, <1>5, <2>1, <2>2, <2>3, StepQuiet
  <2> QED
    BY <1>1, <1>2, <2>1, <2>2, <2>4, <2>5, EndedOutcome
<1>7. CASE cache = None /\ (errorCache \/ current = 0)
  <2>1. lookup' = [lookup EXCEPT ![l] = Ended(j, None)] /\ errorCache' = TRUE
    BY <1>7 DEF Begin, j
  <2>2. Ended(j, None) \in Lookup /\ Ended(j, None).pc \in {"resolved", "rejected"}
    BY <1>2, EndedType
  <2>3. fileChanges = 0 => Finds(Paths, None)
    <3>1. CASE errorCache
      BY <3>1 DEF QuietInv, CachesMatchPaths
    <3>2. CASE current = 0
      BY <3>2 DEF Paths, Finds
    <3> QED
      BY <1>7, <3>1, <3>2
  <2>4. CachesMatchPaths'
    BY <1>3, <1>7, <2>3 DEF CachesMatchPaths, Finds, Paths
  <2>5. QuietInv'
    BY <1>1, <1>3, <1>5, <2>1, <2>2, <2>4, StepQuiet
  <2> QED
    BY <1>1, <1>2, <2>1, <2>3, <2>5, EndedOutcome
<1>8. CASE cache = None /\ ~ (errorCache \/ current = 0)
  <2>1. lookup' = [lookup EXCEPT ![l] = AtIndex(j, 1)] /\ errorCache' = errorCache
    BY <1>8 DEF Begin, j
  <2>2. j.array \in DOMAIN arrays /\ Paths = arrays[j.array] /\ Paths \in Seq(Path)
    BY <1>1, <1>2, <1>8, PathsType DEF TypeOfPaths, Paths
  <2>3. CachesMatchPaths'
    BY <1>3, <2>1 DEF QuietInv, CachesMatchPaths, Finds, Paths
  <2>4. CASE 1 <= Len(Paths)
    <3>1. /\ AtIndex(j, 1) \in Lookup /\ AtIndex(j, 1).pc = "walking"
          /\ AtIndex(j, 1).array = current /\ AtIndex(j, 1).index = 1
          /\ AtIndex(j, 1).directory = Paths[1]
      BY <1>1, <1>2, <2>2, <2>4, AtIndexType
    <3>2. QuietInv'
      <4>. DEFINE k == AtIndex(j, 1)
      <4>1. /\ k \in Lookup /\ k.pc = "walking" /\ k.array = current /\ current # 0
            /\ k.index \in 1 .. Len(Paths) /\ k.directory = Paths[k.index]
            /\ \A m \in 1 .. k.index - 1 : Paths[m] \notin files
            /\ lookup' = [lookup EXCEPT ![l] = k]
        BY <1>8, <2>1, <2>2, <2>4, <3>1
      <4>. HIDE DEF k
      <4> QED
        BY <1>1, <1>3, <1>5, <2>3, <4>1, StepQuiet
    <3> QED
      BY <1>1, <2>1, <3>1, <3>2 DEF Outcome, TypeOK
  <2>5. CASE ~ (1 <= Len(Paths))
    <3>1. AtIndex(j, 1) \in Lookup /\ AtIndex(j, 1).pc = "exhausted"
      BY <1>1, <1>2, <2>2, <2>5, AtIndexType
    <3>2. Finds(Paths, None)
      BY <2>2, <2>5 DEF Finds
    <3>3. QuietInv'
      BY <1>1, <1>3, <1>5, <2>1, <2>3, <3>1, <3>2, StepQuiet
    <3> QED
      BY <1>1, <2>1, <3>1, <3>3 DEF Outcome, TypeOK
  <2> QED
    BY <2>4, <2>5
<1> QED
  BY <1>6, <1>7, <1>8

LEMMA VisitQuiet ==
    ASSUME Quietly, QuietInv, NEW l \in Lookups, Visit(l)
    PROVE  QuietInv' /\ Outcome(l)
<1>. DEFINE j == lookup[l]
<1>1. TypeOK /\ TypeOK' /\ TypeOfPaths /\ TypeOfLookups
  BY VisitType, TypeParts DEF QuietInv
<1>2. /\ j \in Lookup /\ j.array = current /\ current # 0
      /\ j.index \in 1 .. Len(Paths) /\ j.directory = Paths[j.index]
      /\ fileChanges = 0 => \A i \in 1 .. j.index - 1 : Paths[i] \notin files
  BY <1>1 DEF Visit, TypeOfLookups, QuietInv, Learnt
<1>3. UNCHANGED <<files, arrays, current, errorCache, changes, fileChanges>>
  BY DEF Visit
<1>4. /\ current \in DOMAIN arrays /\ Paths = arrays[current]
      /\ Paths \in Seq(Path)
  BY <1>1, <1>2, PathsType DEF TypeOfPaths, Paths
<1>5. j.directory \in Directories /\ j.directory # None
  BY <1>2, <1>4 DEF Path, Quietly, LoaderAssumption
<1>. HIDE DEF j
<1>6. CASE j.directory \in files
  <2>1. lookup' = [lookup EXCEPT ![l] = Ended(j, j.directory)] /\ cache' = j.directory
    BY <1>6 DEF Visit, j
  <2>2. /\ Ended(j, j.directory) \in Lookup
        /\ Ended(j, j.directory).pc \in {"resolved", "rejected"}
    BY <1>2, <1>5, EndedType
  <2>3. fileChanges = 0 => Finds(Paths, j.directory)
    BY <1>2, <1>4, <1>5, <1>6 DEF Finds
  <2>4. CachesMatchPaths'
    BY <1>3, <2>1, <2>3 DEF QuietInv, CachesMatchPaths, Finds, Paths
  <2>5. FoundInRegistered'
    <3>1. Paths' = Paths /\ j.index \in DOMAIN Paths
      BY <1>2, <1>3, <1>4 DEF Paths
    <3> QED
      BY <1>2, <2>1, <3>1 DEF FoundInRegistered, ToSet
  <2>6. QuietInv'
    BY <1>1, <1>3, <2>1, <2>2, <2>4, <2>5, StepQuiet
  <2> QED
    BY <1>1, <1>2, <1>5, <2>1, <2>3, <2>6, EndedOutcome
<1>7. CASE j.directory \notin files
  <2>. DEFINE i == j.index + 1
  <2>1. lookup' = [lookup EXCEPT ![l] = AtIndex(j, i)] /\ cache' = cache
    BY <1>7 DEF Visit, j
  <2>2. CachesMatchPaths' /\ FoundInRegistered'
    BY <1>3, <2>1 DEF QuietInv, CachesMatchPaths, FoundInRegistered, Finds, Paths
  <2>3. i \in Nat \ {0} /\ j.array \in DOMAIN arrays /\ arrays[j.array] = Paths
    BY <1>2, <1>4
  <2>4. fileChanges = 0 => \A k \in 1 .. i - 1 : Paths[k] \notin files
    <3>1. \A k \in 1 .. i - 1 : k \in 1 .. j.index - 1 \/ k = j.index
      BY <1>2, <1>4
    <3> QED
      BY <1>2, <1>7, <3>1
  <2>. HIDE DEF i
  <2>5. CASE i <= Len(Paths)
    <3>1. /\ AtIndex(j, i) \in Lookup /\ AtIndex(j, i).pc = "walking"
          /\ AtIndex(j, i).array = current /\ AtIndex(j, i).index = i
          /\ AtIndex(j, i).directory = Paths[i]
      BY <1>1, <1>2, <2>3, <2>5, AtIndexType
    <3>2. i \in 1 .. Len(Paths)
      BY <1>4, <2>3, <2>5
    <3>3. QuietInv'
      <4>. DEFINE k == AtIndex(j, i)
      <4>1. /\ k \in Lookup /\ k.pc = "walking" /\ k.array = current
            /\ k.index \in 1 .. Len(Paths) /\ k.directory = Paths[k.index]
            /\ fileChanges = 0 => \A m \in 1 .. k.index - 1 : Paths[m] \notin files
            /\ lookup' = [lookup EXCEPT ![l] = k]
        BY <2>1, <2>4, <3>1, <3>2
      <4>. HIDE DEF k
      <4> QED
        BY <1>1, <1>2, <1>3, <2>2, <4>1, StepQuiet
    <3> QED
      BY <1>1, <2>1, <3>1, <3>3 DEF Outcome, TypeOK
  <2>6. CASE ~ (i <= Len(Paths))
    <3>1. AtIndex(j, i) \in Lookup /\ AtIndex(j, i).pc = "exhausted"
      BY <1>1, <1>2, <2>3, <2>6, AtIndexType
    <3>2. fileChanges = 0 => Finds(Paths, None)
      <4>1. \A k \in DOMAIN Paths : k \in 1 .. i - 1
        BY <1>4, <2>3, <2>6
      <4> QED
        BY <2>4, <4>1 DEF Finds
    <3>3. QuietInv'
      BY <1>1, <1>3, <2>1, <2>2, <3>1, <3>2, StepQuiet
    <3> QED
      BY <1>1, <2>1, <3>1, <3>3 DEF Outcome, TypeOK
  <2> QED
    BY <2>5, <2>6
<1> QED
  BY <1>6, <1>7

LEMMA GiveUpQuiet ==
    ASSUME Quietly, QuietInv, NEW l \in Lookups, GiveUp(l)
    PROVE  QuietInv' /\ Outcome(l)
<1>1. TypeOK /\ TypeOK' /\ lookup[l] \in Lookup
  BY GiveUpType DEF QuietInv, TypeOK
<1>2. /\ lookup' = [lookup EXCEPT ![l] = Ended(lookup[l], None)]
      /\ errorCache' = TRUE
      /\ UNCHANGED <<files, arrays, current, cache, changes, fileChanges>>
  BY DEF GiveUp
<1>3. /\ Ended(lookup[l], None) \in Lookup
      /\ Ended(lookup[l], None).pc \in {"resolved", "rejected"}
  BY <1>1, EndedType
<1>4. fileChanges = 0 => Finds(Paths, None)
  BY DEF GiveUp, QuietInv, Learnt
<1>5. CachesMatchPaths' /\ FoundInRegistered'
  BY <1>2, <1>4 DEF QuietInv, CachesMatchPaths, FoundInRegistered, Finds, Paths
<1>6. QuietInv'
  BY <1>1, <1>2, <1>3, <1>5, StepQuiet
<1> QED
  BY <1>1, <1>2, <1>4, <1>6, EndedOutcome

LEMMA ForgetQuiet ==
    ASSUME Quietly, QuietInv, NEW l \in Lookups, Forget(l)
    PROVE  QuietInv' /\ Outcome(l)
<1>1. TypeOK /\ TypeOK'
  BY ForgetType DEF QuietInv
<1>2. /\ lookup' = [lookup EXCEPT ![l] = NoLookup]
      /\ lookup[l].pc \in {"resolved", "rejected"}
      /\ UNCHANGED <<files, arrays, current, cache, errorCache, changes, fileChanges>>
  BY DEF Forget
<1>3. CachesMatchPaths' /\ FoundInRegistered'
  BY <1>2 DEF QuietInv, CachesMatchPaths, FoundInRegistered, Finds, Paths
<1>4. QuietInv'
  BY <1>1, <1>2, <1>3, NoLookupType, StepQuiet
<1> QED
  BY <1>2, <1>4 DEF Outcome

LEMMA NextQuiet ==
    ASSUME Quietly, QuietInv, [Next]_vars
    PROVE  QuietInv' /\ \A l \in Lookups : Outcome(l)
<1>1. CASE UNCHANGED vars
  <2>1. QuietInv'
    BY <1>1 DEF vars, QuietInv, TypeOK, InFlight, CachesMatchPaths,
                FoundInRegistered, Learnt, Finds, Paths
  <2>2. \A l \in Lookups : Outcome(l)
    BY <1>1 DEF vars, Outcome
  <2> QED
    BY <2>1, <2>2
<1>2. CASE \/ \E d \in Directories : AddPath(d) \/ PrependPath(d)
           \/ \E paths \in SeqOf(Directories, MaxPaths) : SetPaths(paths)
  <2>1. QuietInv'
    BY <1>2, ChangeQuiet
  <2>2. lookup' = lookup
    BY <1>2 DEF AddPath, PrependPath, SetPaths
  <2> QED
    BY <2>1, <2>2 DEF Outcome
<1>3. CASE \E d \in Directories : ChangeFile(d)
  <2>1. QuietInv'
    BY <1>3, ChangeFileQuiet
  <2>2. lookup' = lookup
    BY <1>3 DEF ChangeFile
  <2> QED
    BY <2>1, <2>2 DEF Outcome
<1>4. ASSUME NEW l \in Lookups,
             \/ \E strict \in BOOLEAN : Begin(l, strict)
             \/ Visit(l) \/ GiveUp(l) \/ Forget(l)
      PROVE  QuietInv' /\ \A m \in Lookups : Outcome(m)
  <2>1. QuietInv' /\ Outcome(l)
    BY <1>4, BeginQuiet, VisitQuiet, GiveUpQuiet, ForgetQuiet
  <2>2. ASSUME NEW m \in Lookups, m # l PROVE lookup'[m] = lookup[m]
    BY <1>4, <2>2 DEF Begin, Visit, GiveUp, Forget, QuietInv, TypeOK
  <2>3. \A m \in Lookups \ {l} : Outcome(m)
    BY <2>2 DEF Outcome
  <2> QED
    BY <2>1, <2>3
<1> QED
  BY <1>1, <1>2, <1>3, <1>4 DEF Next

(* If no path changes while a lookup is in flight, and setPaths is given a *)
(* path at least, then what the caches of findTemplate say of the template *)
(* is what a search of the paths registered now would find, and a template *)
(* is never found in a directory no longer registered.                     *)
THEOREM QuietCachesMatchPaths ==
    Quiet /\ ~ EmptyPaths => (Spec => [](CachesMatchPaths /\ FoundInRegistered))
<1>. SUFFICES ASSUME Quiet, ~ EmptyPaths
              PROVE  Spec => [](CachesMatchPaths /\ FoundInRegistered)
  OBVIOUS
<1>1. Init => QuietInv
  BY InitQuiet, LoaderAssumption DEF Quietly
<1>2. QuietInv /\ [Next]_vars => QuietInv'
  BY NextQuiet, LoaderAssumption DEF Quietly
<1>3. QuietInv => CachesMatchPaths /\ FoundInRegistered
  BY DEF QuietInv
<1> QED
  BY <1>1, <1>2, <1>3, PTL DEF Spec

(* Under the same conditions every lookup ends with the first of the paths *)
(* that has the file, and is rejected only if none has and it was strict:  *)
(* what the lookups share through the caches never changes their answers.  *)
THEOREM QuietLookupFindsFirst == Quiet /\ ~ EmptyPaths => (Spec => LookupFindsFirst)
<1>. SUFFICES ASSUME Quiet, ~ EmptyPaths PROVE Spec => LookupFindsFirst
  OBVIOUS
<1>1. Init => QuietInv
  BY InitQuiet, LoaderAssumption DEF Quietly
<1>2. QuietInv /\ [Next]_vars => QuietInv'
  BY NextQuiet, LoaderAssumption DEF Quietly
<1>3. QuietInv /\ [Next]_vars => \A l \in Lookups : Outcome(l)
  BY NextQuiet, LoaderAssumption DEF Quietly
<1>4. QuietInv /\ [Next]_vars =>
          [ \A l \in Lookups :
              /\ fileChanges = 0
              /\ lookup[l].pc \notin {"resolved", "rejected"}
              /\ lookup'[l].pc \in {"resolved", "rejected"}
              => /\ Finds(Paths, lookup'[l].directory)
                 /\ lookup'[l].pc = "rejected" <=>
                        lookup'[l].strict /\ lookup'[l].directory = None ]_vars
  BY <1>3 DEF Outcome
<1> QED
  BY <1>1, <1>2, <1>4, PTL DEF Spec, LookupFindsFirst

=============================================================================
