---------------------- MODULE BlockInheritance_proofs ----------------------
(***************************************************************************)
(* Theorems about BlockInheritance, for every program whose templates do   *)
(* not extend or use themselves, however long the chains of parents, the   *)
(* lists of uses and of their targets and the stack of calls.              *)
(***************************************************************************)
EXTENDS BlockInheritance, SequenceTheorems, WellFoundedInduction, TLAPS

-----------------------------------------------------------------------------
(* Recursion. *)

(* What is at t rests on what is at the members of deps[t] only, and deps  *)
(* has no cycle.                                                           *)
IsRecursion(T, V, deps, E) ==
    /\ deps \in [T -> SUBSET T]
    /\ \A S \in SUBSET T : S # {} => \E t \in S : deps[t] \cap S = {}
    /\ E \in [T -> [[T -> V] -> V]]
    /\ \A t \in T : \A f, g \in [T -> V] :
          (\A s \in deps[t] : f[s] = g[s]) => E[t][f] = E[t][g]

LEMMA SameStep ==
    ASSUME NEW T, NEW V, NEW deps, NEW E, IsRecursion(T, V, deps, E),
           NEW t \in T, NEW f \in [T -> V], NEW g \in [T -> V],
           \A s \in deps[t] : f[s] = g[s]
    PROVE  E[t][f] = E[t][g]
<1>1. \A x \in T : \A h, k \in [T -> V] :
         (\A s \in deps[x] : h[s] = k[s]) => E[x][h] = E[x][k]
  BY DEF IsRecursion
<1> QED
  BY ONLY t \in T, f \in [T -> V], g \in [T -> V], <1>1,
          \A s \in deps[t] : f[s] = g[s]

(* f is what E makes of it on a set that is closed under deps.             *)
Solves(T, V, deps, E, D, f) ==
    /\ D \in SUBSET T /\ f \in [T -> V]
    /\ \A t \in D : deps[t] \subseteq D /\ f[t] = E[t][f]

LEMMA SolutionsAgree ==
    ASSUME NEW T, NEW V, NEW deps, NEW E, IsRecursion(T, V, deps, E),
           NEW C, NEW D, NEW f, NEW g,
           Solves(T, V, deps, E, C, f), Solves(T, V, deps, E, D, g),
           NEW t \in C \cap D
    PROVE  f[t] = g[t]
<1> DEFINE S == {s \in C \cap D : f[s] # g[s]}
<1>1. S \in SUBSET T
  BY DEF Solves
<1>2. SUFFICES ASSUME S # {} PROVE FALSE
  OBVIOUS
<1>3. PICK s \in S : deps[s] \cap S = {}
  BY <1>1, <1>2 DEF IsRecursion
<1>4. s \in C \cap D /\ f[s] # g[s]
  OBVIOUS
<1>5. deps[s] \subseteq C \cap D /\ f[s] = E[s][f] /\ g[s] = E[s][g]
  <2>. HIDE DEF S
  <2>1. deps[s] \subseteq C /\ f[s] = E[s][f]
    BY <1>4 DEF Solves
  <2>2. deps[s] \subseteq D /\ g[s] = E[s][g]
    BY <1>4 DEF Solves
  <2> QED
    BY <2>1, <2>2
<1>6. \A r \in deps[s] : f[r] = g[r]
  BY <1>3, <1>5
<1>. HIDE DEF S
<1>7. s \in T /\ f \in [T -> V] /\ g \in [T -> V]
  BY <1>4 DEF Solves
<1>8. E[s][f] = E[s][g]
  BY <1>6, <1>7, SameStep
<1> QED
  BY <1>4, <1>5, <1>8

(* Where there is a solution, and the solution there.                      *)
Solved(T, V, deps, E) ==
    {t \in T : \E D, f : t \in D /\ Solves(T, V, deps, E, D, f)}

LEMMA SolvedOnAll ==
    ASSUME NEW T, NEW V, NEW v0 \in V, NEW deps, NEW E, IsRecursion(T, V, deps, E)
    PROVE  \E f : Solves(T, V, deps, E, Solved(T, V, deps, E), f)
<1> DEFINE A == Solved(T, V, deps, E)
           At1(t, v) == \E D, f : t \in D /\ Solves(T, V, deps, E, D, f) /\ v = f[t]
           F == [t \in T |-> IF t \in A THEN CHOOSE v : At1(t, v) ELSE v0]
<1>1. ASSUME NEW D, NEW f, Solves(T, V, deps, E, D, f), NEW t \in D
      PROVE  t \in A /\ t \in T /\ F[t] = f[t] /\ f[t] \in V
  <2>1. t \in T /\ f[t] \in V
    BY <1>1 DEF Solves
  <2>2. t \in A
    BY <1>1, <2>1 DEF Solved
  <2>3. At1(t, f[t])
    BY <1>1
  <2>4. At1(t, CHOOSE v : At1(t, v))
    BY <2>3
  <2>5. F[t] = CHOOSE v : At1(t, v)
    BY <2>1, <2>2
  <2>. HIDE DEF F, A
  <2>6. PICK C, g : t \in C /\ Solves(T, V, deps, E, C, g) /\ F[t] = g[t]
    BY <2>4, <2>5
  <2>7. F[t] = f[t]
    BY <1>1, <2>6, SolutionsAgree
  <2> QED
    BY <2>1, <2>2, <2>7
<1>2. F \in [T -> V]
  <2>1. ASSUME NEW t \in A PROVE F[t] \in V
    <3>1. PICK D, f : t \in D /\ Solves(T, V, deps, E, D, f)
      BY DEF Solved
    <3> QED
      BY ONLY <1>1, <3>1
  <2>2. A \subseteq T
    BY DEF Solved
  <2>3. ASSUME NEW t \in T, t \notin A PROVE F[t] \in V
    BY <2>3
  <2>. HIDE DEF At1
  <2>4. \A t \in T : F[t] \in V
    BY <2>1, <2>3
  <2>5. F = [t \in T |-> F[t]]
    OBVIOUS
  <2> QED
    BY <2>4, <2>5
<1>. HIDE DEF F, A, At1
<1>3. ASSUME NEW t \in A PROVE deps[t] \subseteq A /\ F[t] = E[t][F]
  <2>0. t \in A
    OBVIOUS
  <2>1. PICK D, f : t \in D /\ Solves(T, V, deps, E, D, f)
    BY <1>3 DEF Solved, A
  <2>2. /\ deps[t] \subseteq D /\ f[t] = E[t][f] /\ t \in T
        /\ D \subseteq T /\ f \in [T -> V]
    BY <2>1 DEF Solves
  <2>3. \A s \in D : s \in A /\ F[s] = f[s]
    BY <1>1, <2>1
  <2>4. E[t][f] = E[t][F]
    <3>1. \A s \in deps[t] : f[s] = F[s]
      BY <2>2, <2>3
    <3> QED
      BY <1>2, <2>2, <3>1, SameStep
  <2> QED
    BY <2>1, <2>2, <2>3, <2>4
<1>4. A \in SUBSET T
  BY DEF A, Solved
<1>5. Solves(T, V, deps, E, A, F)
  BY <1>2, <1>3, <1>4 DEF Solves
<1> QED
  BY <1>5 DEF A

(* What a recursive function is defined by determines one.                 *)
LEMMA Recursion ==
    ASSUME NEW T, NEW V, NEW v0 \in V, NEW deps, NEW E, IsRecursion(T, V, deps, E)
    PROVE  \E f \in [T -> V] : \A t \in T : f[t] = E[t][f]
<1> DEFINE A == Solved(T, V, deps, E)
<1>1. PICK F : Solves(T, V, deps, E, A, F)
  BY SolvedOnAll
<1>2. A \subseteq T
  BY DEF Solved
<1>. HIDE DEF A
<1>3. /\ F \in [T -> V]
      /\ \A t \in A : deps[t] \subseteq A /\ F[t] = E[t][F]
  BY <1>1 DEF Solves
<1>4. T \subseteq A
  <2>1. SUFFICES ASSUME T \ A # {} PROVE FALSE
    OBVIOUS
  <2>2. PICK t \in T \ A : deps[t] \cap (T \ A) = {}
    BY <2>1 DEF IsRecursion
  <2> DEFINE G == [s \in T |-> IF s = t THEN E[t][F] ELSE F[s]]
             D == A \cup {t}
  <2>3. E[t][F] \in V
    BY <1>3, <2>2 DEF IsRecursion
  <2>4. G \in [T -> V] /\ G[t] = E[t][F] /\ \A s \in A : G[s] = F[s]
    BY <1>2, <1>3, <2>2, <2>3
  <2>5. deps[t] \subseteq A
    BY <2>2 DEF IsRecursion
  <2>. HIDE DEF G
  <2>6. ASSUME NEW s \in D PROVE deps[s] \subseteq D /\ G[s] = E[s][G]
    <3>1. deps[s] \subseteq A /\ s \in T
      BY <1>2, <1>3, <2>2, <2>5
    <3>2. \A r \in deps[s] : F[r] = G[r]
      BY <2>4, <3>1
    <3>3. E[s][F] = E[s][G]
      BY <1>3, <2>4, <3>1, <3>2, SameStep
    <3>4. G[s] = E[s][F]
      BY <1>3, <2>4
    <3> QED
      BY <3>1, <3>3, <3>4
  <2>7. Solves(T, V, deps, E, D, G)
    BY <1>2, <2>2, <2>4, <2>6 DEF Solves
  <2>8. t \in A
    BY <2>2, <2>7 DEF A, Solved
  <2> QED
    BY <2>2, <2>8
<1> QED
  BY <1>2, <1>3, <1>4

(* A set of naturals that is not empty has a least element, and a last one *)
(* if it has a bound.                                                      *)
LEMMA LeastNat ==
    ASSUME NEW S \in SUBSET Nat, S # {}
    PROVE  \E n \in S : \A m \in S : ~ (m < n)
<1>1. IsWellFoundedOn(OpToRel(<, Nat), Nat)
  BY NatLessThanWellFounded
<1>2. \E n \in S : \A m \in S : ~ (<<m, n>> \in OpToRel(<, Nat))
  BY <1>1, WFMin
<1> QED
  BY <1>2 DEF OpToRel

LEMMA LastOfIs ==
    ASSUME NEW S \in SUBSET Int, NEW k \in S, \A j \in S : j <= k
    PROVE  LastOf(S) = k
<1>1. LastOf(S) \in S /\ \A j \in S : j <= LastOf(S)
  BY DEF LastOf
<1>. HIDE DEF LastOf
<1>2. k <= LastOf(S) /\ LastOf(S) <= k
  BY <1>1
<1>3. LastOf(S) \in Int /\ k \in Int
  BY <1>1
<1> QED
  BY <1>2, <1>3

LEMMA LastOfIn ==
    ASSUME NEW n \in Nat, NEW S \in SUBSET (1 .. n), S # {}
    PROVE  LastOf(S) \in S
<1> DEFINE B == {k \in Nat : \A j \in S : j <= k}
<1>1. n \in B
  OBVIOUS
<1>2. PICK k \in B : \A m \in B : ~ (m < k)
  BY <1>1, LeastNat
<1>3. k \in S
  <2>1. SUFFICES ASSUME k \notin S PROVE FALSE
    OBVIOUS
  <2>2. \A j \in S : j <= k - 1
    BY <1>2, <2>1
  <2>3. k - 1 \in Nat
    <3>1. PICK j \in S : j \in 1 .. n
      OBVIOUS
    <3>2. j <= k /\ j # k /\ k \in Nat
      BY <1>2, <2>1
    <3> QED
      BY <3>1, <3>2
  <2>4. k - 1 \in B
    BY <2>2, <2>3
  <2> QED
    BY <1>2, <2>4
<1> QED
  BY <1>2, <1>3, LastOfIs

(* What is computed from the first member of a list to its last.           *)
IsIteration(n, V, v0, E) == n \in Nat /\ v0 \in V /\ E \in [1 .. n -> [V -> V]]

Iterates(n, V, v0, E, f) ==
    /\ f \in [0 .. n -> V]
    /\ f[0] = v0 /\ \A i \in 1 .. n : f[i] = E[i][f[i - 1]]

LEMMA Iteration ==
    ASSUME NEW n, NEW V, NEW v0, NEW E, IsIteration(n, V, v0, E)
    PROVE  \E f : Iterates(n, V, v0, E, f)
<1> DEFINE T == 0 .. n
           deps == [i \in T |-> IF i = 0 THEN {} ELSE {i - 1}]
           G == [i \in T |-> [f \in [T -> V] |-> IF i = 0 THEN v0 ELSE E[i][f[i - 1]]]]
<1>. n \in Nat /\ v0 \in V /\ E \in [1 .. n -> [V -> V]]
  BY DEF IsIteration
<1>1. deps \in [T -> SUBSET T]
  OBVIOUS
<1>2. ASSUME NEW S \in SUBSET T, S # {} PROVE \E t \in S : deps[t] \cap S = {}
  <2>1. PICK t \in S : \A m \in S : ~ (m < t)
    BY <1>2, LeastNat
  <2>2. t \in T /\ t - 1 \notin S
    BY <2>1
  <2>3. deps[t] \cap S = {}
    BY <2>2
  <2> QED
    BY <2>3
<1>3. ASSUME NEW i \in T, NEW f \in [T -> V]
      PROVE  (IF i = 0 THEN v0 ELSE E[i][f[i - 1]]) \in V
  <2>1. CASE i = 0
    BY <2>1
  <2>2. CASE i # 0
    <3>1. i \in 1 .. n /\ i - 1 \in T
      BY <2>2
    <3>2. E[i] \in [V -> V] /\ f[i - 1] \in V
      BY <3>1
    <3> QED
      BY <2>2, <3>2
  <2> QED
    BY <2>1, <2>2
<1>4. G \in [T -> [[T -> V] -> V]]
  BY <1>3
<1>5. ASSUME NEW i \in T, NEW f \in [T -> V]
      PROVE  G[i][f] = IF i = 0 THEN v0 ELSE E[i][f[i - 1]]
  OBVIOUS
<1>6. ASSUME NEW i \in T, NEW f \in [T -> V], NEW g \in [T -> V],
             \A s \in deps[i] : f[s] = g[s]
      PROVE  G[i][f] = G[i][g]
  <2>1. i # 0 => f[i - 1] = g[i - 1]
    BY <1>6
  <2>. HIDE DEF G
  <2> QED
    BY <1>5, <2>1
<1>. HIDE DEF G, deps
<1>7. IsRecursion(T, V, deps, G)
  BY <1>1, <1>2, <1>4, <1>6 DEF IsRecursion
<1>. HIDE DEF T
<1>8. PICK f \in [T -> V] : \A i \in T : f[i] = G[i][f]
  <2>1. \E f \in [T -> V] : \A i \in T : f[i] = G[i][f]
    BY <1>7, Recursion
  <2> QED
    BY <2>1
<1>. USE DEF T
<1>9. f[0] = v0
  BY <1>5, <1>8
<1>10. \A i \in 1 .. n : f[i] = E[i][f[i - 1]]
  BY <1>5, <1>8
<1> QED
  BY <1>8, <1>9, <1>10 DEF Iterates

-----------------------------------------------------------------------------
(* Maps of blocks. *)

Look(m, n) == IF n \in DOMAIN m THEN m[n] ELSE None

LEMMA MapOf ==
    ASSUME NEW m \in BlockMap
    PROVE  /\ DOMAIN m \subseteq Names /\ m = [n \in DOMAIN m |-> m[n]]
           /\ \A n \in DOMAIN m : m[n] \in Handler
BY DEF BlockMap

LEMMA IsMap ==
    ASSUME NEW D \in SUBSET Names, NEW f, \A n \in D : f[n] \in Handler
    PROVE  [n \in D |-> f[n]] \in BlockMap
BY DEF BlockMap

LEMMA NoneIsNoBlock ==
    /\ None \notin BlockMap /\ None \notin Handler
    /\ None \notin Names /\ None \notin Templates
BY InheritanceAssumption

LEMMA LookType ==
    ASSUME NEW m \in BlockMap, NEW n
    PROVE  /\ Look(m, n) \in Handler \cup {None}
           /\ (Look(m, n) # None) <=> n \in DOMAIN m
           /\ n \in DOMAIN m => Look(m, n) = m[n]
BY MapOf, NoneIsNoBlock DEF Look

LEMMA MergeMaps ==
    ASSUME NEW m1 \in BlockMap, NEW m2 \in BlockMap
    PROVE  /\ Merge(m1, m2) \in BlockMap
           /\ DOMAIN Merge(m1, m2) = DOMAIN m1 \cup DOMAIN m2
           /\ \A n \in DOMAIN m2 : Merge(m1, m2)[n] = m2[n]
           /\ \A n \in DOMAIN m1 \ DOMAIN m2 : Merge(m1, m2)[n] = m1[n]
           /\ \A n : Look(Merge(m1, m2), n)
                        = IF Look(m2, n) # None THEN Look(m2, n) ELSE Look(m1, n)
<1> DEFINE D == DOMAIN m1 \cup DOMAIN m2
           v(n) == IF n \in DOMAIN m2 THEN m2[n] ELSE m1[n]
           g == Merge(m1, m2)
<1>1. g = [n \in D |-> v(n)]
  BY DEF Merge
<1>2. D \in SUBSET Names /\ \A n \in D : v(n) \in Handler
  BY MapOf
<1>3. DOMAIN g = D /\ \A n \in D : g[n] = v(n)
  BY <1>1
<1>4. g \in [D -> Handler]
  BY <1>1, <1>2
<1>5. g \in BlockMap
  BY <1>2, <1>4 DEF BlockMap
<1>. HIDE DEF g
<1>6. ASSUME NEW n
      PROVE  Look(g, n) = IF Look(m2, n) # None THEN Look(m2, n) ELSE Look(m1, n)
  <2>1. CASE n \in DOMAIN m2
    <3>1. Look(g, n) = m2[n]
      BY <1>3, <2>1 DEF Look
    <3> QED
      BY <2>1, <3>1, LookType
  <2>2. CASE n \notin DOMAIN m2
    <3>1. Look(g, n) = Look(m1, n)
      BY <1>3, <2>2 DEF Look
    <3> QED
      BY <2>2, <3>1 DEF Look
  <2> QED
    BY <2>1, <2>2
<1> QED
  BY <1>3, <1>5, <1>6 DEF g

LEMMA RenamedMap ==
    ASSUME NEW m \in BlockMap,
           NEW target \in [name : Names, alias : Names],
           target.alias # target.name, target.name \in DOMAIN m
    PROVE  /\ Renamed(m, target) \in BlockMap
           /\ \A n : Look(Renamed(m, target), n)
                        = IF n = target.name THEN None
                          ELSE IF n = target.alias THEN m[target.name]
                          ELSE Look(m, n)
<1> DEFINE one == [n \in {target.alias} |-> m[target.name]]
           set == Merge(m, one)
           g == [n \in DOMAIN set \ {target.name} |-> set[n]]
<1>1. Renamed(m, target) = g
  BY DEF Renamed
<1>2. one \in BlockMap /\ DOMAIN one = {target.alias} /\ one[target.alias] = m[target.name]
  <2>1. m[target.name] \in Handler /\ target.alias \in Names
    BY MapOf
  <2>2. one \in [{target.alias} -> Handler]
    BY <2>1
  <2> QED
    BY <2>1, <2>2 DEF BlockMap
<1>. HIDE DEF one
<1>3. /\ set \in BlockMap /\ DOMAIN set = DOMAIN m \cup {target.alias}
      /\ set[target.alias] = m[target.name]
      /\ \A n \in DOMAIN m \ {target.alias} : set[n] = m[n]
  <2>1. /\ Merge(m, one) \in BlockMap
        /\ DOMAIN Merge(m, one) = DOMAIN m \cup DOMAIN one
        /\ \A n \in DOMAIN one : Merge(m, one)[n] = one[n]
        /\ \A n \in DOMAIN m \ DOMAIN one : Merge(m, one)[n] = m[n]
    BY <1>2, MergeMaps
  <2> QED
    BY <1>2, <2>1
<1>. HIDE DEF set
<1>4. DOMAIN g = DOMAIN set \ {target.name} /\ \A n \in DOMAIN g : g[n] = set[n]
  OBVIOUS
<1>5. g \in BlockMap
  <2>1. DOMAIN set \subseteq Names /\ \A n \in DOMAIN set : set[n] \in Handler
    BY <1>3, MapOf
  <2> QED
    BY <2>1, IsMap
<1>. HIDE DEF g
<1>6. ASSUME NEW n
      PROVE  Look(g, n) = IF n = target.name THEN None
                          ELSE IF n = target.alias THEN m[target.name]
                          ELSE Look(m, n)
  BY <1>3, <1>4 DEF Look
<1> QED
  BY <1>1, <1>5, <1>6

-----------------------------------------------------------------------------
(* The blocks of a use. *)

(* No target has the name of an alias that an earlier one has set.         *)
InTurn(use) ==
    \A j, k \in DOMAIN use.targets :
        j <= k => use.targets[j].alias # use.targets[k].name

(* NameInTrait once the first i targets are renamed.                       *)
NameAfter(use, i, n) ==
    LET aliased == {j \in 1 .. i : use.targets[j].alias = n}
        renamed == {j \in 1 .. i : use.targets[j].name = n}
    IN  IF aliased # {} THEN use.targets[LastOf(aliased)].name
        ELSE IF renamed # {} THEN None ELSE n

LEMMA UseType ==
    ASSUME NEW use \in Use
    PROVE  /\ Len(use.targets) \in Nat /\ DOMAIN use.targets = 1 .. Len(use.targets)
           /\ \A i \in 1 .. Len(use.targets) :
                 use.targets[i] \in [name : Names, alias : Names]
           /\ use.template \in Templates
<1>1. use.targets \in Seq([name : Names, alias : Names]) /\ use.template \in Templates
  BY DEF Use
<1>. HIDE DEF Use
<1>2. ASSUME NEW T, NEW s \in Seq(T)
      PROVE  Len(s) \in Nat /\ DOMAIN s = 1 .. Len(s) /\ \A i \in 1 .. Len(s) : s[i] \in T
  OBVIOUS
<1> QED
  BY <1>1, <1>2

LEMMA NameAtLast ==
    ASSUME NEW use \in Use, NEW n
    PROVE  NameAfter(use, Len(use.targets), n) = NameInTrait(use, n)
BY UseType DEF NameAfter, NameInTrait

LEMMA NameAtFirst ==
    ASSUME NEW use, NEW n
    PROVE  NameAfter(use, 0, n) = n
<1>1. 1 .. 0 = {}
  OBVIOUS
<1> QED
  BY <1>1 DEF NameAfter

LEMMA NameAfterStep ==
    ASSUME NEW use \in Use, InTurn(use), NEW i \in 1 .. Len(use.targets), NEW n
    PROVE  LET target == use.targets[i]
           IN  NameAfter(use, i, n) = IF n = target.name THEN None
                                      ELSE IF n = target.alias THEN target.name
                                      ELSE NameAfter(use, i - 1, n)
<1> DEFINE target == use.targets[i]
           aliased(k) == {j \in 1 .. k : use.targets[j].alias = n}
           renamed(k) == {j \in 1 .. k : use.targets[j].name = n}
<1>1. Len(use.targets) \in Nat /\ DOMAIN use.targets = 1 .. Len(use.targets)
  BY UseType
<1>2. 1 .. i = (1 .. i - 1) \cup {i}
  BY <1>1
<1>3. CASE n = target.name
  <2>1. aliased(i) = {}
    BY <1>1, <1>3 DEF InTurn
  <2>2. i \in renamed(i)
    BY <1>2, <1>3
  <2> QED
    BY <1>3, <2>1, <2>2 DEF NameAfter
<1>4. CASE n # target.name /\ n = target.alias
  <2>1. i \in aliased(i) /\ aliased(i) \subseteq Int /\ \A j \in aliased(i) : j <= i
    BY <1>1, <1>4
  <2>2. LastOf(aliased(i)) = i
    BY <2>1, LastOfIs
  <2>3. aliased(i) # {}
    BY <2>1
  <2>4. NameAfter(use, i, n) = use.targets[LastOf(aliased(i))].name
    BY <2>3 DEF NameAfter
  <2> QED
    BY <1>4, <2>2, <2>4
<1>5. CASE n # target.name /\ n # target.alias
  <2>1. aliased(i) = aliased(i - 1) /\ renamed(i) = renamed(i - 1)
    BY <1>2, <1>5
  <2> QED
    BY <1>5, <2>1 DEF NameAfter
<1> QED
  BY <1>3, <1>4, <1>5

(* The name of a target is still its own when it is its turn.              *)
LEMMA NameBefore ==
    ASSUME NEW use \in Use, InTurn(use), NEW i \in 1 .. Len(use.targets)
    PROVE  NameAfter(use, i - 1, use.targets[i].name) \in {None, use.targets[i].name}
<1>1. Len(use.targets) \in Nat /\ DOMAIN use.targets = 1 .. Len(use.targets)
  BY UseType
<1>2. {j \in 1 .. i - 1 : use.targets[j].alias = use.targets[i].name} = {}
  BY <1>1 DEF InTurn
<1> QED
  BY <1>2 DEF NameAfter

(* The blocks that a use gives once the first i targets are renamed.       *)
Gives(use, m, i, g) ==
    /\ Traitable(use.template) /\ g \in BlockMap
    /\ \A n \in Names :
          LET name == NameAfter(use, i, n)
          IN  Look(g, n) = IF name = None THEN None ELSE Look(m, name)

LEMMA GivesStep ==
    ASSUME NEW use \in Use, InTurn(use), NEW m \in BlockMap,
           NEW i \in 1 .. Len(use.targets), NEW g, Gives(use, m, i - 1, g),
           use.targets[i].name \in DOMAIN g
    PROVE  Gives(use, m, i, Renamed(g, use.targets[i]))
<1> DEFINE target == use.targets[i]
           h == Renamed(g, target)
<1>1. target \in [name : Names, alias : Names] /\ target.alias # target.name
  BY UseType DEF InTurn
<1>2. g \in BlockMap /\ target.name \in DOMAIN g
  BY DEF Gives
<1>3. /\ h \in BlockMap
      /\ \A n : Look(h, n) = IF n = target.name THEN None
                             ELSE IF n = target.alias THEN g[target.name] ELSE Look(g, n)
  <2>. HIDE DEF target
  <2> QED
    BY <1>1, <1>2, RenamedMap
<1>. HIDE DEF h
<1>4. g[target.name] = Look(m, target.name)
  <2>1. target.name \in Names /\ Look(g, target.name) = g[target.name]
    BY <1>1, <1>2 DEF Look
  <2>2. g[target.name] # None
    BY <1>2, <2>1, LookType
  <2>3. NameAfter(use, i - 1, target.name) = target.name
    BY <2>1, <2>2, NameBefore DEF Gives
  <2> QED
    BY <2>1, <2>3, NoneIsNoBlock DEF Gives
<1>5. ASSUME NEW n \in Names
      PROVE  Look(h, n) = IF NameAfter(use, i, n) = None THEN None
                          ELSE Look(m, NameAfter(use, i, n))
  <2>1. NameAfter(use, i, n) = IF n = target.name THEN None
                               ELSE IF n = target.alias THEN target.name
                               ELSE NameAfter(use, i - 1, n)
    BY NameAfterStep
  <2>2. target.name # None
    BY <1>1, NoneIsNoBlock
  <2>3. Look(g, n) = IF NameAfter(use, i - 1, n) = None THEN None
                     ELSE Look(m, NameAfter(use, i - 1, n))
    BY DEF Gives
  <2>. HIDE DEF target
  <2> QED
    BY <1>3, <1>4, <2>1, <2>2, <2>3
<1>6. Traitable(use.template)
  BY DEF Gives
<1> QED
  BY <1>3, <1>5, <1>6 DEF Gives, h

(* A use that can be imported gives each block under the name it has for   *)
(* NameInTrait, and no other.                                              *)
LEMMA ImportedGives ==
    ASSUME NEW use \in Use, InTurn(use), NEW m \in BlockMap
    PROVE  /\ Imported(use, m) \in BlockMap \cup {None}
           /\ Imported(use, m) # None =>
                 Gives(use, m, Len(use.targets), Imported(use, m))
<1> DEFINE V == BlockMap \cup {None}
           N == Len(use.targets)
           first == IF Traitable(use.template) THEN m ELSE None
           next(i, g) == IF g = None \/ use.targets[i].name \notin DOMAIN g
                         THEN None ELSE Renamed(g, use.targets[i])
           Is(f) == f = [i \in 0 .. N |-> IF i = 0 THEN first ELSE next(i, f[i - 1])]
           E == [i \in 1 .. N |-> [g \in V |-> next(i, g)]]
<1>1. N \in Nat /\ first \in V
  BY UseType
<1>2. ASSUME NEW i \in 1 .. N, NEW g \in V PROVE next(i, g) \in V
  <2>1. CASE g = None \/ use.targets[i].name \notin DOMAIN g
    BY <2>1
  <2>2. CASE ~ (g = None \/ use.targets[i].name \notin DOMAIN g)
    <3>1. /\ use.targets[i] \in [name : Names, alias : Names]
          /\ use.targets[i].alias # use.targets[i].name
      BY UseType DEF InTurn
    <3>2. Renamed(g, use.targets[i]) \in BlockMap
      BY <2>2, <3>1, RenamedMap
    <3> QED
      BY <2>2, <3>2
  <2> QED
    BY <2>1, <2>2
<1>3. E \in [1 .. N -> [V -> V]] /\ \A i \in 1 .. N : \A g \in V : E[i][g] = next(i, g)
  BY <1>2
<1>. HIDE DEF next, first, N, V, E
<1>4. \E f : Is(f)
  <2>1. IsIteration(N, V, first, E)
    BY <1>1, <1>3 DEF IsIteration
  <2>2. PICK f : Iterates(N, V, first, E, f)
    BY <2>1, Iteration
  <2>3. /\ f \in [0 .. N -> V] /\ f[0] = first
        /\ \A i \in 1 .. N : f[i] = E[i][f[i - 1]]
    BY <2>2 DEF Iterates
  <2>4. ASSUME NEW i \in 0 .. N
        PROVE  f[i] = IF i = 0 THEN first ELSE next(i, f[i - 1])
    <3>1. CASE i = 0
      BY <2>3, <3>1
    <3>2. CASE i # 0
      <4>1. i \in 1 .. N /\ i - 1 \in 0 .. N
        BY <1>1, <3>2
      <4> QED
        BY <1>3, <2>3, <3>2, <4>1
    <3> QED
      BY <3>1, <3>2
  <2>5. f = [i \in 0 .. N |-> f[i]]
    BY <2>3
  <2> QED
    BY <2>4, <2>5
<1>5. PICK f : Is(f) /\ Imported(use, m) = f[N]
  <2> DEFINE h == CHOOSE g : Is(g)
  <2>1. Imported(use, m) = h[N]
    BY DEF Imported, next, first, N
  <2>2. Is(h)
    BY <1>4
  <2> QED
    BY <2>1, <2>2
<1>6. f[0] = first /\ \A i \in 1 .. N : f[i] = next(i, f[i - 1])
  <2>1. \A i \in 0 .. N : f[i] = IF i = 0 THEN first ELSE next(i, f[i - 1])
    BY <1>5
  <2> QED
    BY <1>1, <2>1
<1> DEFINE Right(i) == f[i] \in V /\ (f[i] # None => Gives(use, m, i, f[i]))
<1>7. Right(0)
  <2>1. \A n \in Names : NameAfter(use, 0, n) = n /\ n # None
    BY NameAtFirst, NoneIsNoBlock
  <2>2. first # None => first = m /\ Traitable(use.template)
    BY DEF first
  <2> QED
    BY <1>1, <1>6, <2>1, <2>2 DEF Gives
<1>8. ASSUME NEW i \in 1 .. N, Right(i - 1) PROVE Right(i)
  <2>1. f[i] = next(i, f[i - 1]) /\ f[i - 1] \in V
    BY <1>6, <1>8
  <2>2. f[i] \in V
    BY <1>2, <2>1
  <2>3. ASSUME f[i] # None PROVE Gives(use, m, i, f[i])
    <3>1. /\ f[i - 1] # None /\ use.targets[i].name \in DOMAIN f[i - 1]
          /\ f[i] = Renamed(f[i - 1], use.targets[i])
      BY <2>1, <2>3 DEF next
    <3>2. Gives(use, m, i - 1, f[i - 1])
      BY <1>8, <3>1
    <3> QED
      BY <3>1, <3>2, GivesStep DEF N
  <2> QED
    BY <2>2, <2>3
<1>9. Right(N)
  <2> DEFINE S == {i \in 0 .. N : ~ Right(i)}
  <2>. HIDE DEF Right
  <2>1. SUFFICES ASSUME S # {} PROVE FALSE
    BY <1>1
  <2>2. PICK i \in S : \A k \in S : ~ (k < i)
    <3>1. S \in SUBSET Nat
      BY <1>1
    <3>. HIDE DEF S
    <3> QED
      BY <2>1, <3>1, LeastNat
  <2>3. i # 0
    BY <1>7, <2>2
  <2>4. i \in 1 .. N /\ i - 1 \in 0 .. N /\ i - 1 \notin S
    BY <1>1, <2>2, <2>3
  <2>5. Right(i)
    BY <1>8, <2>4
  <2> QED
    BY <2>2, <2>5
<1> QED
  BY <1>5, <1>9 DEF V, N

-----------------------------------------------------------------------------
(* The traits of a template. *)

(* The maps of the first i that have a definition of n.                    *)
Having(imported, i, n) == {j \in 1 .. i : Look(imported[j], n) # None}

(* All of the first i can be imported, and the last of them that has a     *)
(* definition gives it to g.                                               *)
Combines(imported, i, g) ==
    /\ g \in BlockMap
    /\ \A j \in 1 .. i : imported[j] # None
    /\ \A n \in Names :
          LET having == Having(imported, i, n)
          IN  Look(g, n) = IF having = {} THEN None ELSE Look(imported[LastOf(having)], n)

LEMMA CombinesStep ==
    ASSUME NEW imported, NEW i \in Nat \ {0},
           NEW g, Combines(imported, i - 1, g),
           imported[i] \in BlockMap
    PROVE  Combines(imported, i, Merge(g, imported[i]))
<1> DEFINE h == Merge(g, imported[i])
<1>1. 1 .. i = (1 .. i - 1) \cup {i}
  OBVIOUS
<1>2. g \in BlockMap
  BY DEF Combines
<1>3. /\ h \in BlockMap
      /\ \A n : Look(h, n) = IF Look(imported[i], n) # None THEN Look(imported[i], n)
                             ELSE Look(g, n)
  BY <1>2, MergeMaps
<1>. HIDE DEF h
<1>4. \A j \in 1 .. i : imported[j] # None
  BY <1>1, NoneIsNoBlock DEF Combines
<1>5. ASSUME NEW n \in Names
      PROVE  LET having == Having(imported, i, n)
             IN  Look(h, n) = IF having = {} THEN None
                              ELSE Look(imported[LastOf(having)], n)
  <2> DEFINE having == Having(imported, i, n)
             before == Having(imported, i - 1, n)
  <2>1. CASE Look(imported[i], n) # None
    <3>1. i \in having /\ having \subseteq Int /\ \A j \in having : j <= i
      BY <1>1, <2>1 DEF Having
    <3>2. LastOf(having) = i /\ having # {}
      BY <3>1, LastOfIs
    <3> QED
      BY <1>3, <2>1, <3>2
  <2>2. CASE Look(imported[i], n) = None
    <3>1. having = before
      BY <1>1, <2>2 DEF Having
    <3>2. Look(h, n) = Look(g, n)
      BY <1>3, <2>2
    <3> QED
      BY <3>1, <3>2 DEF Combines
  <2> QED
    BY <2>1, <2>2
<1> QED
  BY <1>3, <1>4, <1>5 DEF Combines, h

LEMMA TraitsCombine ==
    ASSUME NEW imported \in Seq(BlockMap \cup {None})
    PROVE  /\ Traits(imported) \in BlockMap \cup {None}
           /\ Traits(imported) # None =>
                 Combines(imported, Len(imported), Traits(imported))
<1> DEFINE V == BlockMap \cup {None}
           N == Len(imported)
           next(i, g) == IF g = None \/ imported[i] = None THEN None
                         ELSE Merge(g, imported[i])
           Is(f) == f = [i \in 0 .. N |-> IF i = 0 THEN NoBlocks ELSE next(i, f[i - 1])]
           E == [i \in 1 .. N |-> [g \in V |-> next(i, g)]]
<1>1. N \in Nat /\ \A i \in 1 .. N : imported[i] \in V
  OBVIOUS
<1>2. NoBlocks \in BlockMap /\ \A n : Look(NoBlocks, n) = None
  <2>1. {} \in SUBSET Names
    OBVIOUS
  <2>2. NoBlocks \in [{} -> Handler]
    BY DEF NoBlocks
  <2> QED
    BY <2>1, <2>2 DEF BlockMap, Look
<1>3. ASSUME NEW i \in 1 .. N, NEW g \in V PROVE next(i, g) \in V
  BY <1>1, MergeMaps
<1>4. E \in [1 .. N -> [V -> V]] /\ \A i \in 1 .. N : \A g \in V : E[i][g] = next(i, g)
  BY <1>3
<1>. HIDE DEF next, N, V, E
<1>5. NoBlocks \in V
  BY <1>2 DEF V
<1>6. \E f : Is(f)
  <2>1. IsIteration(N, V, NoBlocks, E)
    BY <1>1, <1>4, <1>5 DEF IsIteration
  <2>2. PICK f : Iterates(N, V, NoBlocks, E, f)
    BY <2>1, Iteration
  <2>3. /\ f \in [0 .. N -> V] /\ f[0] = NoBlocks
        /\ \A i \in 1 .. N : f[i] = E[i][f[i - 1]]
    BY <2>2 DEF Iterates
  <2>4. ASSUME NEW i \in 0 .. N
        PROVE  f[i] = IF i = 0 THEN NoBlocks ELSE next(i, f[i - 1])
    <3>1. CASE i = 0
      BY <2>3, <3>1
    <3>2. CASE i # 0
      <4>1. i \in 1 .. N /\ i - 1 \in 0 .. N
        BY <1>1, <3>2
      <4> QED
        BY <1>4, <2>3, <3>2, <4>1
    <3> QED
      BY <3>1, <3>2
  <2>5. f = [i \in 0 .. N |-> f[i]]
    BY <2>3
  <2> QED
    BY <2>4, <2>5
<1>7. PICK f : Is(f) /\ Traits(imported) = f[N]
  <2> DEFINE h == CHOOSE g : Is(g)
  <2>1. Traits(imported) = h[N]
    BY DEF Traits, next, N
  <2>2. Is(h)
    BY <1>6
  <2> QED
    BY <2>1, <2>2
<1>8. f[0] = NoBlocks /\ \A i \in 1 .. N : f[i] = next(i, f[i - 1])
  <2>1. \A i \in 0 .. N : f[i] = IF i = 0 THEN NoBlocks ELSE next(i, f[i - 1])
    BY <1>7
  <2> QED
    BY <1>1, <2>1
<1> DEFINE Right(i) == f[i] \in V /\ (f[i] # None => Combines(imported, i, f[i]))
<1>9. Right(0)
  <2>1. 1 .. 0 = {}
    OBVIOUS
  <2> QED
    BY <1>2, <1>5, <1>8, <2>1 DEF Combines, Having
<1>10. ASSUME NEW i \in 1 .. N, Right(i - 1) PROVE Right(i)
  <2>1. f[i] = next(i, f[i - 1]) /\ f[i - 1] \in V
    BY <1>8, <1>10
  <2>2. f[i] \in V
    BY <1>3, <2>1
  <2>3. ASSUME f[i] # None PROVE Combines(imported, i, f[i])
    <3>1. /\ f[i - 1] # None /\ imported[i] # None
          /\ f[i] = Merge(f[i - 1], imported[i])
      BY <2>1, <2>3 DEF next
    <3>2. Combines(imported, i - 1, f[i - 1]) /\ imported[i] \in BlockMap
      BY <1>1, <1>10, <3>1 DEF V
    <3>3. i \in Nat \ {0}
      BY <1>1
    <3> QED
      BY <3>1, <3>2, <3>3, CombinesStep
  <2> QED
    BY <2>2, <2>3
<1>11. Right(N)
  <2> DEFINE S == {i \in 0 .. N : ~ Right(i)}
  <2>. HIDE DEF Right
  <2>1. SUFFICES ASSUME S # {} PROVE FALSE
    BY <1>1
  <2>2. PICK i \in S : \A k \in S : ~ (k < i)
    <3>1. S \in SUBSET Nat
      BY <1>1
    <3>. HIDE DEF S
    <3> QED
      BY <2>1, <3>1, LeastNat
  <2>3. i # 0
    BY <1>9, <2>2
  <2>4. i \in 1 .. N /\ i - 1 \in 0 .. N /\ i - 1 \notin S
    BY <1>1, <2>2, <2>3
  <2>5. Right(i)
    BY <1>10, <2>4
  <2> QED
    BY <2>2, <2>5
<1> QED
  BY <1>7, <1>11 DEF V, N

-----------------------------------------------------------------------------
(* The recursive functions of the model. *)

MaybeBlocks == BlockMap \cup {None}
Definitions == [Names -> Handler \cup {None}]
TemplatesOf(t) == Refers(library, t) \cap Templates
Referring == [t \in Templates |-> TemplatesOf(t)]

LEMMA LibraryType ==
    ASSUME library \in Libraries, NEW t \in Templates
    PROVE  /\ Parent(t) \in Templates \cup {None}
           /\ library.uses[t] \in Seq(Use)
           /\ library.body[t] \in Seq(Reference)
           /\ DOMAIN library.blocks[t] \subseteq Names
           /\ \A n \in DOMAIN library.blocks[t] : library.blocks[t][n] \in Seq(Instruction)
BY InheritanceAssumption DEF LibraryAssumption, IsLibrary, Parent

LEMMA UsesType ==
    ASSUME library \in Libraries, NEW t \in Templates
    PROVE  /\ Len(library.uses[t]) \in Nat
           /\ DOMAIN library.uses[t] = 1 .. Len(library.uses[t])
           /\ \A i \in DOMAIN library.uses[t] :
                 LET use == library.uses[t][i]
                 IN  /\ use \in Use /\ InTurn(use) /\ use.template \in Templates
                     /\ use.template \in Referring[t]
<1>1. library.uses[t] \in Seq(Use)
  BY LibraryType
<1>2. ASSUME NEW i \in DOMAIN library.uses[t]
      PROVE  LET use == library.uses[t][i]
             IN  /\ use \in Use /\ InTurn(use) /\ use.template \in Templates
                 /\ use.template \in Referring[t]
  <2>1. library.uses[t][i] \in Use
    BY <1>1
  <2>2. library.uses[t][i].template \in Templates
    BY <2>1, UseType
  <2>3. InTurn(library.uses[t][i])
    BY InheritanceAssumption DEF LibraryAssumption, InTurn
  <2> QED
    BY <2>1, <2>2, <2>3 DEF Referring, TemplatesOf, Refers
<1> QED
  BY <1>1, <1>2

LEMMA ParentReferred ==
    ASSUME NEW t \in Templates, Parent(t) \in Templates
    PROVE  Parent(t) \in Referring[t]
BY DEF Referring, TemplatesOf, Refers, Parent

LEMMA IsTemplateRecursion ==
    ASSUME library \in Libraries, NEW V,
           NEW E \in [Templates -> [[Templates -> V] -> V]],
           \A t \in Templates : \A f, g \in [Templates -> V] :
              (\A s \in Referring[t] : f[s] = g[s]) => E[t][f] = E[t][g]
    PROVE  IsRecursion(Templates, V, Referring, E)
<1>1. Referring \in [Templates -> SUBSET Templates]
  BY DEF Referring, TemplatesOf
<1>2. ASSUME NEW S \in SUBSET Templates, S # {}
      PROVE  \E t \in S : Referring[t] \cap S = {}
  <2>1. PICK t \in S : Refers(library, t) \cap S = {}
    BY <1>2, InheritanceAssumption DEF LibraryAssumption
  <2>2. Referring[t] \subseteq Refers(library, t)
    BY DEF Referring, TemplatesOf
  <2> QED
    BY <2>1, <2>2
<1> QED
  BY <1>1, <1>2 DEF IsRecursion

(* What is true of a template when it is of those it refers to is true of  *)
(* all.                                                                    *)
LEMMA ReferringInduction ==
    ASSUME library \in Libraries, NEW S \in SUBSET Templates,
           \A t \in Templates : Referring[t] \subseteq S => t \in S
    PROVE  \A t \in Templates : t \in S
<1>1. SUFFICES ASSUME Templates \ S # {} PROVE FALSE
  OBVIOUS
<1>2. PICK t \in Templates \ S : Refers(library, t) \cap (Templates \ S) = {}
  BY <1>1, InheritanceAssumption DEF LibraryAssumption
<1>3. Referring[t] \subseteq S
  BY <1>2 DEF Referring, TemplatesOf
<1> QED
  BY <1>2, <1>3

(* The maps that the uses of t give, given the blocks of all templates.    *)
Given(t, f) ==
    [i \in DOMAIN library.uses[t] |->
        LET use == library.uses[t][i]
        IN  IF f[use.template] = None THEN None ELSE Imported(use, f[use.template])]

LEMMA GivenType ==
    ASSUME library \in Libraries, NEW t \in Templates,
           NEW f \in [Templates -> MaybeBlocks]
    PROVE  /\ Given(t, f) \in Seq(MaybeBlocks)
           /\ Len(Given(t, f)) = Len(library.uses[t])
<1> DEFINE N == Len(library.uses[t])
           g == Given(t, f)
<1>1. N \in Nat /\ DOMAIN library.uses[t] = 1 .. N
  BY UsesType
<1>2. ASSUME NEW i \in 1 .. N PROVE g[i] \in MaybeBlocks
  <2> DEFINE use == library.uses[t][i]
  <2>1. use \in Use /\ InTurn(use) /\ use.template \in Templates
    BY <1>1, UsesType
  <2>2. g[i] = IF f[use.template] = None THEN None ELSE Imported(use, f[use.template])
    BY <1>1 DEF Given
  <2>. HIDE DEF use, g
  <2>3. CASE f[use.template] = None
    BY <2>2, <2>3 DEF MaybeBlocks
  <2>4. CASE f[use.template] # None
    <3>1. f[use.template] \in BlockMap
      BY <2>1, <2>4 DEF MaybeBlocks
    <3>2. Imported(use, f[use.template]) \in BlockMap \cup {None}
      BY <2>1, <3>1, ImportedGives
    <3> QED
      BY <2>2, <2>4, <3>2 DEF MaybeBlocks
  <2> QED
    BY <2>3, <2>4
<1>3. g = [i \in 1 .. N |-> g[i]]
  BY <1>1 DEF Given
<1>. HIDE DEF g, N
<1>4. g \in [1 .. N -> MaybeBlocks]
  BY <1>2, <1>3
<1> QED
  BY <1>1, <1>4 DEF g, N

LEMMA TraitsFromType ==
    ASSUME library \in Libraries, NEW t \in Templates,
           NEW f \in [Templates -> MaybeBlocks]
    PROVE  /\ TraitsFrom(t, f) = Traits(Given(t, f))
           /\ TraitsFrom(t, f) \in MaybeBlocks
<1>1. TraitsFrom(t, f) = Traits(Given(t, f))
  BY DEF TraitsFrom, Given
<1>2. Given(t, f) \in Seq(BlockMap \cup {None})
  BY GivenType DEF MaybeBlocks
<1> QED
  BY <1>1, <1>2, TraitsCombine DEF MaybeBlocks

LEMMA OwnBlocksType ==
    ASSUME library \in Libraries, NEW t \in Templates
    PROVE  /\ OwnBlocks(t) \in BlockMap
           /\ DOMAIN OwnBlocks(t) = DOMAIN library.blocks[t]
           /\ \A n \in DOMAIN library.blocks[t] :
                 OwnBlocks(t)[n] = [template |-> t, name |-> n]
<1>1. DOMAIN library.blocks[t] \subseteq Names
  BY LibraryType
<1>2. OwnBlocks(t) \in [DOMAIN library.blocks[t] -> Handler]
  BY <1>1 DEF OwnBlocks, Handler
<1> QED
  BY <1>1, <1>2 DEF OwnBlocks, BlockMap

(* What getBlocks of t makes of the blocks f of all templates.             *)
GetBlocks(t, f) ==
    IF TraitsFrom(t, f) = None THEN None ELSE Merge(TraitsFrom(t, f), OwnBlocks(t))

LEMMA GetBlocksType ==
    ASSUME library \in Libraries, NEW t \in Templates,
           NEW f \in [Templates -> MaybeBlocks]
    PROVE  GetBlocks(t, f) \in MaybeBlocks
<1>1. TraitsFrom(t, f) \in MaybeBlocks
  BY TraitsFromType
<1>2. CASE TraitsFrom(t, f) = None
  BY <1>2 DEF GetBlocks, MaybeBlocks
<1>3. CASE TraitsFrom(t, f) # None
  <2>1. Merge(TraitsFrom(t, f), OwnBlocks(t)) \in BlockMap
    BY <1>1, <1>3, OwnBlocksType, MergeMaps DEF MaybeBlocks
  <2> QED
    BY <1>3, <2>1 DEF GetBlocks, MaybeBlocks
<1> QED
  BY <1>2, <1>3

LEMMA GetBlocksLocal ==
    ASSUME library \in Libraries, NEW t \in Templates,
           NEW f, NEW g, \A s \in Referring[t] : f[s] = g[s]
    PROVE  GetBlocks(t, f) = GetBlocks(t, g)
<1>1. \A i \in DOMAIN library.uses[t] :
         f[library.uses[t][i].template] = g[library.uses[t][i].template]
  BY UsesType
<1>2. Given(t, f) = Given(t, g)
  BY <1>1 DEF Given
<1>3. TraitsFrom(t, f) = Traits(Given(t, f)) /\ TraitsFrom(t, g) = Traits(Given(t, g))
  BY DEF TraitsFrom, Given
<1>4. TraitsFrom(t, f) = TraitsFrom(t, g)
  BY <1>2, <1>3
<1> QED
  BY <1>4 DEF GetBlocks

LEMMA BlocksOfIs ==
    ASSUME library \in Libraries
    PROVE  /\ BlocksOf \in [Templates -> MaybeBlocks]
           /\ \A t \in Templates : BlocksOf[t] = GetBlocks(t, BlocksOf)
<1> DEFINE V == MaybeBlocks
           E == [t \in Templates |-> [f \in [Templates -> V] |-> GetBlocks(t, f)]]
           Is(f) == f = [t \in Templates |-> GetBlocks(t, f)]
<1>1. E \in [Templates -> [[Templates -> V] -> V]]
  BY GetBlocksType
<1>2. \A t \in Templates : \A f \in [Templates -> V] : E[t][f] = GetBlocks(t, f)
  OBVIOUS
<1>. HIDE DEF E, V
<1>3. \A t \in Templates : \A f, g \in [Templates -> V] :
         (\A s \in Referring[t] : f[s] = g[s]) => E[t][f] = E[t][g]
  BY <1>2, GetBlocksLocal
<1>4. IsRecursion(Templates, V, Referring, E)
  BY <1>1, <1>3, IsTemplateRecursion
<1>5. None \in V
  BY DEF V, MaybeBlocks
<1>6. PICK f \in [Templates -> V] : \A t \in Templates : f[t] = E[t][f]
  <2>1. \E f \in [Templates -> V] : \A t \in Templates : f[t] = E[t][f]
    BY <1>4, <1>5, Recursion
  <2> QED
    BY <2>1
<1>7. Is(f)
  <2>1. \A t \in Templates : f[t] = GetBlocks(t, f)
    BY <1>2, <1>6
  <2> QED
    BY <2>1
<1>8. BlocksOf = CHOOSE g : Is(g)
  BY DEF BlocksOf, GetBlocks
<1>9. Is(BlocksOf)
  BY <1>7, <1>8
<1>10. \A t \in Templates : BlocksOf[t] = GetBlocks(t, BlocksOf)
  BY <1>9
<1>11. \A t \in Templates : BlocksOf[t] \in V
  <2> DEFINE S == {t \in Templates : BlocksOf[t] \in V}
  <2>1. ASSUME NEW t \in Templates, Referring[t] \subseteq S PROVE t \in S
    <3> DEFINE h == [s \in Templates |-> IF s \in S THEN BlocksOf[s] ELSE None]
    <3>1. h \in [Templates -> V]
      BY <1>5
    <3>2. \A s \in Referring[t] : BlocksOf[s] = h[s]
      BY <2>1
    <3>. HIDE DEF h
    <3>3. GetBlocks(t, BlocksOf) = GetBlocks(t, h)
      BY <3>2, GetBlocksLocal
    <3>4. GetBlocks(t, h) \in V
      BY <3>1, GetBlocksType DEF V
    <3> QED
      BY <1>10, <3>3, <3>4
  <2>2. S \in SUBSET Templates
    OBVIOUS
  <2>. HIDE DEF S
  <2>3. \A t \in Templates : t \in S
    BY <2>1, <2>2, ReferringInduction
  <2> QED
    BY <2>3 DEF S
<1>12. BlocksOf = [t \in Templates |-> BlocksOf[t]]
  BY <1>9
<1> QED
  BY <1>10, <1>11, <1>12 DEF V

LEMMA NameInTraitType ==
    ASSUME NEW use \in Use, NEW n \in Names
    PROVE  NameInTrait(use, n) \in Names \cup {None}
<1> DEFINE aliased == {i \in DOMAIN use.targets : use.targets[i].alias = n}
<1>1. /\ Len(use.targets) \in Nat /\ DOMAIN use.targets = 1 .. Len(use.targets)
      /\ \A i \in 1 .. Len(use.targets) : use.targets[i].name \in Names
  BY UseType
<1>2. ASSUME aliased # {} PROVE use.targets[LastOf(aliased)].name \in Names
  <2>1. aliased \in SUBSET (1 .. Len(use.targets))
    BY <1>1
  <2>. HIDE DEF aliased
  <2>2. LastOf(aliased) \in aliased
    BY <1>1, <1>2, <2>1, LastOfIn
  <2> QED
    BY <1>1, <2>1, <2>2
<1> QED
  BY <1>2 DEF NameInTrait

(* What the uses of t define n as, given the definitions of all templates. *)
Gave(t, n, definition) ==
    [i \in DOMAIN library.uses[t] |->
        LET use == library.uses[t][i]
            name == NameInTrait(use, n)
        IN  IF name = None THEN None ELSE definition[use.template][name]]

LEMMA ImportedByGave ==
    ASSUME NEW t, NEW n, NEW definition
    PROVE  ImportedBy(t, n, definition) =
              LET given == Gave(t, n, definition)
                  giving == {i \in DOMAIN given : given[i] # None}
              IN  IF giving = {} THEN None ELSE given[LastOf(giving)]
BY DEF ImportedBy, Gave

LEMMA ImportedByIs ==
    ASSUME library \in Libraries, NEW t \in Templates,
           NEW n \in Names, NEW definition
    PROVE  LET given == Gave(t, n, definition)
               giving == {i \in DOMAIN library.uses[t] : given[i] # None}
           IN  /\ DOMAIN given = DOMAIN library.uses[t]
               /\ giving = {} => ImportedBy(t, n, definition) = None
               /\ giving # {} =>
                     /\ LastOf(giving) \in giving
                     /\ ImportedBy(t, n, definition) = given[LastOf(giving)]
<1> DEFINE given == Gave(t, n, definition)
           giving == {i \in DOMAIN library.uses[t] : given[i] # None}
<1>1. DOMAIN given = DOMAIN library.uses[t]
  BY DEF Gave
<1>2. ImportedBy(t, n, definition) = IF giving = {} THEN None ELSE given[LastOf(giving)]
  <2>. HIDE DEF given
  <2> QED
    BY <1>1, ImportedByGave DEF given
<1>3. giving # {} => LastOf(giving) \in giving
  <2>1. /\ Len(library.uses[t]) \in Nat
        /\ giving \in SUBSET (1 .. Len(library.uses[t]))
    BY UsesType
  <2>. HIDE DEF giving
  <2> QED
    BY <2>1, LastOfIn
<1> QED
  BY <1>1, <1>2, <1>3

LEMMA ImportedByType ==
    ASSUME library \in Libraries, NEW t \in Templates,
           NEW n \in Names, NEW definition \in [Templates -> Definitions]
    PROVE  ImportedBy(t, n, definition) \in Handler \cup {None}
<1> DEFINE given == Gave(t, n, definition)
           giving == {i \in DOMAIN library.uses[t] : given[i] # None}
<1>1. ASSUME NEW i \in DOMAIN library.uses[t] PROVE given[i] \in Handler \cup {None}
  <2> DEFINE use == library.uses[t][i]
  <2>1. use \in Use /\ use.template \in Templates
    BY UsesType
  <2>2. NameInTrait(use, n) \in Names \cup {None}
    BY <2>1, NameInTraitType
  <2>3. given[i] = IF NameInTrait(use, n) = None THEN None
                   ELSE definition[use.template][NameInTrait(use, n)]
    BY DEF Gave
  <2>. HIDE DEF use, given
  <2> QED
    BY <2>1, <2>2, <2>3 DEF Definitions
<1>2. \/ ImportedBy(t, n, definition) = None
      \/ /\ LastOf(giving) \in giving
         /\ ImportedBy(t, n, definition) = given[LastOf(giving)]
  BY ImportedByIs
<1>3. giving \subseteq DOMAIN library.uses[t]
  OBVIOUS
<1>. HIDE DEF giving, given
<1> QED
  BY <1>1, <1>2, <1>3

LEMMA ImportedByLocal ==
    ASSUME library \in Libraries, NEW t \in Templates,
           NEW n, NEW f, NEW g, \A s \in Referring[t] : f[s] = g[s]
    PROVE  ImportedBy(t, n, f) = ImportedBy(t, n, g)
<1>1. \A i \in DOMAIN library.uses[t] :
         f[library.uses[t][i].template] = g[library.uses[t][i].template]
  BY UsesType
<1>2. Gave(t, n, f) = Gave(t, n, g)
  BY <1>1 DEF Gave
<1> QED
  BY <1>2, ImportedByGave

(* What the documentation makes of the definitions of all templates.       *)
Define(t, f) ==
    [n \in Names |-> IF n \in DOMAIN library.blocks[t]
                     THEN [template |-> t, name |-> n] ELSE ImportedBy(t, n, f)]

LEMMA DefineType ==
    ASSUME library \in Libraries, NEW t \in Templates,
           NEW f \in [Templates -> Definitions]
    PROVE  Define(t, f) \in Definitions
<1>1. ASSUME NEW n \in Names
      PROVE  (IF n \in DOMAIN library.blocks[t]
              THEN [template |-> t, name |-> n] ELSE ImportedBy(t, n, f))
                \in Handler \cup {None}
  <2>1. [template |-> t, name |-> n] \in Handler
    BY DEF Handler
  <2>2. ImportedBy(t, n, f) \in Handler \cup {None}
    BY ImportedByType
  <2> QED
    BY <2>1, <2>2
<1> QED
  BY <1>1 DEF Define, Definitions

LEMMA DefineLocal ==
    ASSUME library \in Libraries, NEW t \in Templates,
           NEW f, NEW g, \A s \in Referring[t] : f[s] = g[s]
    PROVE  Define(t, f) = Define(t, g)
<1>1. \A n \in Names : ImportedBy(t, n, f) = ImportedBy(t, n, g)
  BY ImportedByLocal
<1> QED
  BY <1>1 DEF Define

LEMMA DefinitionIs ==
    ASSUME library \in Libraries
    PROVE  /\ Definition \in [Templates -> Definitions]
           /\ \A t \in Templates : Definition[t] = Define(t, Definition)
<1> DEFINE V == Definitions
           E == [t \in Templates |-> [f \in [Templates -> V] |-> Define(t, f)]]
           Is(f) == f = [t \in Templates |-> Define(t, f)]
           none == [n \in Names |-> None]
<1>1. E \in [Templates -> [[Templates -> V] -> V]]
  BY DefineType
<1>2. \A t \in Templates : \A f \in [Templates -> V] : E[t][f] = Define(t, f)
  OBVIOUS
<1>3. none \in V
  BY DEF Definitions
<1>. HIDE DEF E, V, none
<1>4. \A t \in Templates : \A f, g \in [Templates -> V] :
         (\A s \in Referring[t] : f[s] = g[s]) => E[t][f] = E[t][g]
  BY <1>2, DefineLocal
<1>5. IsRecursion(Templates, V, Referring, E)
  BY <1>1, <1>4, IsTemplateRecursion
<1>6. PICK f \in [Templates -> V] : \A t \in Templates : f[t] = E[t][f]
  <2>1. \E f \in [Templates -> V] : \A t \in Templates : f[t] = E[t][f]
    BY <1>3, <1>5, Recursion
  <2> QED
    BY <2>1
<1>7. Is(f)
  <2>1. \A t \in Templates : f[t] = Define(t, f)
    BY <1>2, <1>6
  <2> QED
    BY <2>1
<1>8. Definition = CHOOSE g : Is(g)
  BY DEF Definition, Define
<1>9. Is(Definition)
  BY <1>7, <1>8
<1>10. \A t \in Templates : Definition[t] = Define(t, Definition)
  BY <1>9
<1>11. \A t \in Templates : Definition[t] \in V
  <2> DEFINE S == {t \in Templates : Definition[t] \in V}
  <2>1. ASSUME NEW t \in Templates, Referring[t] \subseteq S PROVE t \in S
    <3> DEFINE h == [s \in Templates |-> IF s \in S THEN Definition[s] ELSE none]
    <3>1. h \in [Templates -> V]
      BY <1>3
    <3>2. \A s \in Referring[t] : Definition[s] = h[s]
      BY <2>1
    <3>. HIDE DEF h
    <3>3. Define(t, Definition) = Define(t, h)
      BY <3>2, DefineLocal
    <3>4. Define(t, h) \in V
      BY <3>1, DefineType DEF V
    <3> QED
      BY <1>10, <3>3, <3>4
  <2>2. S \in SUBSET Templates
    OBVIOUS
  <2>. HIDE DEF S
  <2>3. \A t \in Templates : t \in S
    BY <2>1, <2>2, ReferringInduction
  <2> QED
    BY <2>3 DEF S
<1>12. Definition = [t \in Templates |-> Definition[t]]
  BY <1>9
<1> QED
  BY <1>10, <1>11, <1>12 DEF V

(* What a template makes of the definitions that are inherited by all.     *)
Inherit(t, f) ==
    [n \in Names |-> IF Definition[t][n] # None \/ Parent(t) = None
                     THEN Definition[t][n] ELSE f[Parent(t)][n]]

LEMMA InheritType ==
    ASSUME library \in Libraries, NEW t \in Templates,
           NEW f \in [Templates -> Definitions]
    PROVE  Inherit(t, f) \in Definitions
<1>1. Definition[t] \in Definitions /\ Parent(t) \in Templates \cup {None}
  BY DefinitionIs, LibraryType
<1> QED
  BY <1>1 DEF Inherit, Definitions

LEMMA InheritLocal ==
    ASSUME library \in Libraries, NEW t \in Templates,
           NEW f, NEW g, \A s \in Referring[t] : f[s] = g[s]
    PROVE  Inherit(t, f) = Inherit(t, g)
<1>1. Parent(t) # None => f[Parent(t)] = g[Parent(t)]
  BY LibraryType, ParentReferred
<1> QED
  BY <1>1 DEF Inherit

LEMMA InheritedByIs ==
    ASSUME library \in Libraries
    PROVE  /\ InheritedBy \in [Templates -> Definitions]
           /\ \A t \in Templates : InheritedBy[t] = Inherit(t, InheritedBy)
<1> DEFINE V == Definitions
           E == [t \in Templates |-> [f \in [Templates -> V] |-> Inherit(t, f)]]
           Is(f) == f = [t \in Templates |-> Inherit(t, f)]
           none == [n \in Names |-> None]
<1>1. E \in [Templates -> [[Templates -> V] -> V]]
  BY InheritType
<1>2. \A t \in Templates : \A f \in [Templates -> V] : E[t][f] = Inherit(t, f)
  OBVIOUS
<1>3. none \in V
  BY DEF Definitions
<1>. HIDE DEF E, V, none
<1>4. \A t \in Templates : \A f, g \in [Templates -> V] :
         (\A s \in Referring[t] : f[s] = g[s]) => E[t][f] = E[t][g]
  BY <1>2, InheritLocal
<1>5. IsRecursion(Templates, V, Referring, E)
  BY <1>1, <1>4, IsTemplateRecursion
<1>6. PICK f \in [Templates -> V] : \A t \in Templates : f[t] = E[t][f]
  <2>1. \E f \in [Templates -> V] : \A t \in Templates : f[t] = E[t][f]
    BY <1>3, <1>5, Recursion
  <2> QED
    BY <2>1
<1>7. Is(f)
  <2>1. \A t \in Templates : f[t] = Inherit(t, f)
    BY <1>2, <1>6
  <2> QED
    BY <2>1
<1>8. InheritedBy = CHOOSE g : Is(g)
  BY DEF InheritedBy, Inherit
<1>9. Is(InheritedBy)
  BY <1>7, <1>8
<1>10. \A t \in Templates : InheritedBy[t] = Inherit(t, InheritedBy)
  BY <1>9
<1>11. \A t \in Templates : InheritedBy[t] \in V
  <2> DEFINE S == {t \in Templates : InheritedBy[t] \in V}
  <2>1. ASSUME NEW t \in Templates, Referring[t] \subseteq S PROVE t \in S
    <3> DEFINE h == [s \in Templates |-> IF s \in S THEN InheritedBy[s] ELSE none]
    <3>1. h \in [Templates -> V]
      BY <1>3
    <3>2. \A s \in Referring[t] : InheritedBy[s] = h[s]
      BY <2>1
    <3>. HIDE DEF h
    <3>3. Inherit(t, InheritedBy) = Inherit(t, h)
      BY <3>2, InheritLocal
    <3>4. Inherit(t, h) \in V
      BY <3>1, InheritType DEF V
    <3> QED
      BY <1>10, <3>3, <3>4
  <2>2. S \in SUBSET Templates
    OBVIOUS
  <2>. HIDE DEF S
  <2>3. \A t \in Templates : t \in S
    BY <2>1, <2>2, ReferringInduction
  <2> QED
    BY <2>3 DEF S
<1>12. InheritedBy = [t \in Templates |-> InheritedBy[t]]
  BY <1>9
<1> QED
  BY <1>10, <1>11, <1>12 DEF V

-----------------------------------------------------------------------------
(* A program. *)

(* What a display does not change.                                         *)
Prog == [library |-> library, traits |-> traits, blocks |-> blocks,
         inherited |-> inherited, overridden |-> overridden]

(* A handler is a block that its template has written.                     *)
Good(p, h) ==
    /\ h \in Handler /\ h.name \in DOMAIN p.library.blocks[h.template]
    /\ p.blocks[h.template] # None
    /\ h.name \in DOMAIN p.blocks[h.template]
    /\ p.blocks[h.template][h.name] = h

OrParents(p, t, found, n) ==
    IF found # None \/ p.library.parent[t] = None THEN found
    ELSE p.inherited[p.library.parent[t]][n]

(* The handlers of a template are its own or those of templates without a  *)
(* parent.                                                                 *)
GoodMaps(p, t) ==
    /\ \A n \in DOMAIN p.traits[t] :
          /\ Good(p, p.traits[t][n])
          /\ p.library.parent[p.traits[t][n].template] = None
    /\ \A n \in DOMAIN p.blocks[t] :
          /\ Good(p, p.blocks[t][n])
          /\ \/ p.blocks[t][n].template = t
             \/ p.library.parent[p.blocks[t][n].template] = None

(* What getBlocks and getTraits have computed is what is documented.       *)
Usable(p, t) ==
    /\ p.traits[t] # None
    /\ \A n \in Names :
          /\ p.inherited[t][n] = OrParents(p, t, Look(p.blocks[t], n), n)
          /\ p.overridden[t][n] = OrParents(p, t, Look(p.traits[t], n), n)
    /\ GoodMaps(p, t)

IsProgram(p) ==
    /\ p.library \in Libraries
    /\ p.blocks \in [Templates -> MaybeBlocks]
    /\ p.traits \in [Templates -> MaybeBlocks]
    /\ p.inherited \in [Templates -> Definitions]
    /\ p.overridden \in [Templates -> Definitions]
    /\ \A t \in Templates :
          /\ p.blocks[t] # None => Usable(p, t)
          /\ p.library.parent[t] # None =>
                \A n \in Names : p.inherited[p.library.parent[t]][n] # None =>
                                     p.inherited[t][n] # None

(* Each use of a template that has traits gives what it says.              *)
LEMMA UseGives ==
    ASSUME library \in Libraries, NEW t \in Templates,
           TraitsFrom(t, BlocksOf) # None, NEW i \in DOMAIN library.uses[t]
    PROVE  LET use == library.uses[t][i]
           IN  /\ Traitable(use.template) /\ BlocksOf[use.template] \in BlockMap
               /\ \A n \in Names :
                     Look(Given(t, BlocksOf)[i], n)
                        = IF NameInTrait(use, n) = None THEN None
                          ELSE Look(BlocksOf[use.template], NameInTrait(use, n))
<1> DEFINE use == library.uses[t][i]
           given == Given(t, BlocksOf)
<1>1. use \in Use /\ InTurn(use) /\ use.template \in Templates
  BY UsesType
<1>2. BlocksOf[use.template] \in MaybeBlocks
  BY <1>1, BlocksOfIs
<1>3. given[i] # None
  <2>1. given \in Seq(BlockMap \cup {None}) /\ Len(given) = Len(library.uses[t])
    BY BlocksOfIs, GivenType DEF MaybeBlocks
  <2>2. Traits(given) # None
    BY BlocksOfIs, TraitsFromType
  <2>3. i \in 1 .. Len(given)
    BY <2>1, UsesType
  <2>. HIDE DEF given
  <2> QED
    BY <2>1, <2>2, <2>3, TraitsCombine DEF Combines
<1>4. given[i] = IF BlocksOf[use.template] = None THEN None
                 ELSE Imported(use, BlocksOf[use.template])
  BY DEF Given
<1>. HIDE DEF use, given
<1>5. BlocksOf[use.template] \in BlockMap
  BY <1>2, <1>3, <1>4 DEF MaybeBlocks
<1>6. given[i] = Imported(use, BlocksOf[use.template])
  BY <1>3, <1>4
<1>7. Gives(use, BlocksOf[use.template], Len(use.targets), given[i])
  BY <1>1, <1>3, <1>5, <1>6, ImportedGives
<1>8. \A n \in Names :
         Look(given[i], n) = IF NameInTrait(use, n) = None THEN None
                             ELSE Look(BlocksOf[use.template], NameInTrait(use, n))
  BY <1>1, <1>7, NameAtLast DEF Gives
<1>9. Traitable(use.template)
  BY <1>7 DEF Gives
<1> QED
  BY <1>5, <1>8, <1>9 DEF use, given

(* What the traits of a template are made of.                              *)
LEMMA TraitsAre ==
    ASSUME library \in Libraries, NEW t \in Templates,
           TraitsFrom(t, BlocksOf) # None, NEW n \in Names
    PROVE  LET given == Given(t, BlocksOf)
               giving == {i \in DOMAIN library.uses[t] : Look(given[i], n) # None}
           IN  Look(TraitsFrom(t, BlocksOf), n)
                  = IF giving = {} THEN None ELSE Look(given[LastOf(giving)], n)
<1> DEFINE given == Given(t, BlocksOf)
<1>1. given \in Seq(BlockMap \cup {None}) /\ Len(given) = Len(library.uses[t])
  BY BlocksOfIs, GivenType DEF MaybeBlocks
<1>2. TraitsFrom(t, BlocksOf) = Traits(given)
  BY BlocksOfIs, TraitsFromType
<1>3. DOMAIN library.uses[t] = 1 .. Len(given)
  BY <1>1, UsesType
<1>. HIDE DEF given
<1>4. Combines(given, Len(given), Traits(given))
  BY <1>1, <1>2, TraitsCombine
<1> QED
  BY <1>2, <1>3, <1>4 DEF Combines, Having, given

LEMMA TraitsDefine ==
    ASSUME library \in Libraries, NEW t \in Templates,
           TraitsFrom(t, BlocksOf) # None, NEW n \in Names,
           \A s \in Referring[t] : BlocksOf[s] # None =>
              \A m \in Names : Definition[s][m] = Look(BlocksOf[s], m)
    PROVE  ImportedBy(t, n, Definition) = Look(TraitsFrom(t, BlocksOf), n)
<1> DEFINE given == Given(t, BlocksOf)
           gave == Gave(t, n, Definition)
           D == DOMAIN library.uses[t]
<1>1. ASSUME NEW i \in D PROVE gave[i] = Look(given[i], n)
  <2> DEFINE use == library.uses[t][i]
             name == NameInTrait(use, n)
  <2>1. use \in Use /\ use.template \in Templates /\ use.template \in Referring[t]
    BY UsesType
  <2>2. name \in Names \cup {None}
    BY <2>1, NameInTraitType
  <2>3. /\ BlocksOf[use.template] \in BlockMap
        /\ Look(given[i], n) = IF name = None THEN None
                               ELSE Look(BlocksOf[use.template], name)
    BY UseGives
  <2>4. gave[i] = IF name = None THEN None ELSE Definition[use.template][name]
    BY DEF Gave
  <2>5. BlocksOf[use.template] # None
    BY <2>3, NoneIsNoBlock
  <2>. HIDE DEF use, name, given, gave
  <2> QED
    BY <2>1, <2>2, <2>3, <2>4, <2>5
<1>2. /\ DOMAIN gave = D
      /\ {i \in D : gave[i] # None} = {} => ImportedBy(t, n, Definition) = None
      /\ {i \in D : gave[i] # None} # {} =>
            /\ LastOf({i \in D : gave[i] # None}) \in {i \in D : gave[i] # None}
            /\ ImportedBy(t, n, Definition) = gave[LastOf({i \in D : gave[i] # None})]
  BY ImportedByIs
<1>3. LET giving == {i \in D : Look(given[i], n) # None}
      IN  Look(TraitsFrom(t, BlocksOf), n)
             = IF giving = {} THEN None ELSE Look(given[LastOf(giving)], n)
  BY TraitsAre
<1>. HIDE DEF given, gave, D
<1>4. {i \in D : gave[i] # None} = {i \in D : Look(given[i], n) # None}
  BY <1>1
<1> QED
  BY <1>1, <1>2, <1>3, <1>4

LEMMA DefinitionsMatch ==
    ASSUME library \in Libraries
    PROVE  \A t \in Templates : BlocksOf[t] # None =>
              \A n \in Names : Definition[t][n] = Look(BlocksOf[t], n)
<1> DEFINE Matches(t) == BlocksOf[t] # None =>
                            \A n \in Names : Definition[t][n] = Look(BlocksOf[t], n)
           S == {t \in Templates : Matches(t)}
<1>1. ASSUME NEW t \in Templates, Referring[t] \subseteq S PROVE t \in S
  <2>1. SUFFICES ASSUME BlocksOf[t] # None, NEW n \in Names
                 PROVE  Definition[t][n] = Look(BlocksOf[t], n)
    OBVIOUS
  <2> DEFINE imported == TraitsFrom(t, BlocksOf)
             own == OwnBlocks(t)
  <2>2. imported # None /\ BlocksOf[t] = Merge(imported, own)
    BY <2>1, BlocksOfIs DEF GetBlocks
  <2>3. ImportedBy(t, n, Definition) = Look(imported, n)
    BY <1>1, <2>2, TraitsDefine
  <2>4. imported \in BlockMap
    BY <2>2, BlocksOfIs, TraitsFromType DEF MaybeBlocks
  <2>5. /\ own \in BlockMap /\ DOMAIN own = DOMAIN library.blocks[t]
        /\ \A m \in DOMAIN library.blocks[t] : own[m] = [template |-> t, name |-> m]
    BY OwnBlocksType
  <2>6. Definition[t][n] = IF n \in DOMAIN library.blocks[t]
                           THEN [template |-> t, name |-> n]
                           ELSE ImportedBy(t, n, Definition)
    BY DefinitionIs DEF Define
  <2>. HIDE DEF imported, own
  <2>7. Look(BlocksOf[t], n) = IF Look(own, n) # None THEN Look(own, n)
                               ELSE Look(imported, n)
    <3>1. Look(Merge(imported, own), n)
             = IF Look(own, n) # None THEN Look(own, n) ELSE Look(imported, n)
      BY <2>4, <2>5, MergeMaps
    <3> QED
      BY <2>2, <3>1
  <2>8. CASE n \in DOMAIN library.blocks[t]
    <3>1. Look(own, n) = [template |-> t, name |-> n] /\ Look(own, n) # None
      BY <2>5, <2>8, LookType
    <3> QED
      BY <2>6, <2>7, <2>8, <3>1
  <2>9. CASE n \notin DOMAIN library.blocks[t]
    <3>1. Look(own, n) = None
      BY <2>5, <2>9 DEF Look
    <3> QED
      BY <2>3, <2>6, <2>7, <2>9, <3>1
  <2> QED
    BY <2>8, <2>9
<1>2. S \in SUBSET Templates
  OBVIOUS
<1>. HIDE DEF S, Matches
<1>3. \A t \in Templates : t \in S
  BY <1>1, <1>2, ReferringInduction
<1> QED
  BY <1>3 DEF S, Matches

(* What the maps that a display looks at are when it starts.               *)
LEMMA InitMaps ==
    ASSUME Init, NEW t \in Templates
    PROVE  /\ library \in Libraries
           /\ blocks[t] = BlocksOf[t] /\ traits[t] = TraitsFrom(t, BlocksOf)
           /\ blocks[t] \in MaybeBlocks /\ traits[t] \in MaybeBlocks
           /\ inherited[t] = InheritedBy[t] /\ inherited[t] \in Definitions
           /\ \A n \in Names : overridden[t][n] = Overridden(t, n)
           /\ blocks[t] # None =>
                 traits[t] # None /\ blocks[t] = Merge(traits[t], OwnBlocks(t))
<1>1. library \in Libraries
  BY DEF Init
<1>2. blocks[t] = BlocksOf[t] /\ traits[t] = TraitsFrom(t, BlocksOf)
  BY DEF Init
<1>3. blocks[t] \in MaybeBlocks /\ traits[t] \in MaybeBlocks
  BY <1>1, <1>2, BlocksOfIs, TraitsFromType
<1>4. InheritedBy[t] \in Definitions
  BY <1>1, InheritedByIs
<1>5. inherited[t] = InheritedBy[t]
  <2>1. inherited[t] = [n \in Names |-> InheritedBy[t][n]]
    BY DEF Init
  <2> QED
    BY <1>4, <2>1 DEF Definitions
<1>6. \A n \in Names : overridden[t][n] = Overridden(t, n)
  BY DEF Init
<1>7. blocks[t] # None => traits[t] # None /\ blocks[t] = Merge(traits[t], OwnBlocks(t))
  <2>1. BlocksOf[t] = GetBlocks(t, BlocksOf)
    BY <1>1, BlocksOfIs
  <2> QED
    BY <1>2, <2>1 DEF GetBlocks
<1> QED
  BY <1>1, <1>2, <1>3, <1>4, <1>5, <1>6, <1>7

LEMMA InitMerged ==
    ASSUME Init, NEW t \in Templates, blocks[t] # None
    PROVE  /\ blocks[t] \in BlockMap /\ traits[t] \in BlockMap
           /\ DOMAIN blocks[t] = DOMAIN traits[t] \cup DOMAIN library.blocks[t]
           /\ \A n \in DOMAIN library.blocks[t] :
                 blocks[t][n] = [template |-> t, name |-> n]
           /\ \A n \in DOMAIN traits[t] \ DOMAIN library.blocks[t] :
                 blocks[t][n] = traits[t][n]
<1>1. blocks[t] \in BlockMap /\ traits[t] \in BlockMap
  BY InitMaps DEF MaybeBlocks
<1>2. blocks[t] = Merge(traits[t], OwnBlocks(t))
  BY InitMaps
<1>3. /\ OwnBlocks(t) \in BlockMap /\ DOMAIN OwnBlocks(t) = DOMAIN library.blocks[t]
      /\ \A n \in DOMAIN library.blocks[t] :
            OwnBlocks(t)[n] = [template |-> t, name |-> n]
  BY InitMaps, OwnBlocksType
<1>4. /\ DOMAIN Merge(traits[t], OwnBlocks(t)) = DOMAIN traits[t] \cup DOMAIN OwnBlocks(t)
      /\ \A n \in DOMAIN OwnBlocks(t) : Merge(traits[t], OwnBlocks(t))[n] = OwnBlocks(t)[n]
      /\ \A n \in DOMAIN traits[t] \ DOMAIN OwnBlocks(t) :
            Merge(traits[t], OwnBlocks(t))[n] = traits[t][n]
  BY <1>1, <1>3, MergeMaps
<1> QED
  BY <1>1, <1>2, <1>3, <1>4

LEMMA InitGoodMaps ==
    ASSUME Init
    PROVE  \A t \in Templates : blocks[t] # None => GoodMaps(Prog, t)
<1> DEFINE S == {t \in Templates : blocks[t] # None => GoodMaps(Prog, t)}
<1>0. library \in Libraries
  BY DEF Init
<1>1. ASSUME NEW t \in Templates, Referring[t] \subseteq S PROVE t \in S
  <2>1. SUFFICES ASSUME blocks[t] # None PROVE GoodMaps(Prog, t)
    OBVIOUS
  <2>2. TraitsFrom(t, BlocksOf) # None /\ traits[t] = TraitsFrom(t, BlocksOf)
    BY <2>1, InitMaps
  <2>3. traits[t] \in BlockMap
    BY <2>1, InitMerged
  <2>4. ASSUME NEW n \in DOMAIN traits[t]
        PROVE  Good(Prog, traits[t][n]) /\ Parent(traits[t][n].template) = None
    <3> DEFINE given == Given(t, BlocksOf)
               giving == {i \in DOMAIN library.uses[t] : Look(given[i], n) # None}
               i == LastOf(giving)
               use == library.uses[t][i]
               name == NameInTrait(use, n)
               u == use.template
    <3>1. n \in Names /\ Look(traits[t], n) = traits[t][n] /\ traits[t][n] # None
      BY <2>3, MapOf, LookType
    <3>2. Look(traits[t], n) = IF giving = {} THEN None ELSE Look(given[i], n)
      BY <1>0, <2>2, <3>1, TraitsAre
    <3>3. i \in giving /\ traits[t][n] = Look(given[i], n)
      <4>1. giving # {} /\ giving \in SUBSET (1 .. Len(library.uses[t]))
        BY <1>0, <3>1, <3>2, UsesType
      <4>2. Len(library.uses[t]) \in Nat
        BY <1>0, UsesType
      <4>. HIDE DEF giving
      <4> QED
        BY <3>1, <3>2, <4>1, <4>2, LastOfIn
    <3>4. i \in DOMAIN library.uses[t]
      BY <3>3
    <3>. HIDE DEF giving, i
    <3>5. use \in Use /\ u \in Templates /\ u \in Referring[t]
      BY <1>0, <3>4, UsesType
    <3>6. /\ Traitable(u) /\ BlocksOf[u] \in BlockMap
          /\ Look(given[i], n) = IF name = None THEN None ELSE Look(BlocksOf[u], name)
      BY <1>0, <2>2, <3>1, <3>4, UseGives
    <3>. HIDE DEF given, use, name
    <3>7. /\ blocks[u] \in BlockMap /\ blocks[u] # None
          /\ traits[t][n] = Look(blocks[u], name)
      BY <3>1, <3>3, <3>5, <3>6, InitMaps, NoneIsNoBlock
    <3>8. name \in DOMAIN blocks[u] /\ traits[t][n] = blocks[u][name]
      BY <3>1, <3>7 DEF Look
    <3>9. GoodMaps(Prog, u)
      BY <1>1, <3>5, <3>7
    <3>10. Parent(u) = None
      BY <3>6 DEF Traitable
    <3>11. /\ Good(Prog, blocks[u][name])
           /\ blocks[u][name].template = u \/ Parent(blocks[u][name].template) = None
      BY <3>8, <3>9 DEF GoodMaps, Prog, Parent
    <3> QED
      BY <3>8, <3>10, <3>11
  <2>5. ASSUME NEW n \in DOMAIN blocks[t]
        PROVE  /\ Good(Prog, blocks[t][n])
               /\ blocks[t][n].template = t \/ Parent(blocks[t][n].template) = None
    <3>1. CASE n \in DOMAIN library.blocks[t]
      <4>1. blocks[t][n] = [template |-> t, name |-> n] /\ n \in Names
        BY <1>0, <2>1, <3>1, InitMerged, LibraryType
      <4> QED
        BY <2>1, <2>5, <3>1, <4>1 DEF Good, Prog, Handler
    <3>2. CASE n \notin DOMAIN library.blocks[t]
      <4>1. n \in DOMAIN traits[t] /\ blocks[t][n] = traits[t][n]
        BY <2>1, <2>5, <3>2, InitMerged
      <4> QED
        BY <2>4, <4>1
    <3> QED
      BY <3>1, <3>2
  <2> QED
    BY <2>4, <2>5 DEF GoodMaps, Prog, Parent
<1>2. S \in SUBSET Templates
  OBVIOUS
<1>. HIDE DEF S
<1>3. \A t \in Templates : t \in S
  BY <1>0, <1>1, <1>2, ReferringInduction
<1> QED
  BY <1>3 DEF S

LEMMA InitUsable ==
    ASSUME Init, NEW t \in Templates, blocks[t] # None
    PROVE  Usable(Prog, t)
<1>1. library \in Libraries /\ traits[t] # None
  BY InitMaps
<1>2. GoodMaps(Prog, t)
  BY InitGoodMaps
<1>3. Parent(t) \in Templates \cup {None}
  BY <1>1, LibraryType
<1>4. ASSUME NEW n \in Names
      PROVE  inherited[t][n] = OrParents(Prog, t, Look(blocks[t], n), n)
  <2>1. inherited[t][n] = IF Definition[t][n] # None \/ Parent(t) = None
                          THEN Definition[t][n] ELSE InheritedBy[Parent(t)][n]
    BY <1>1, InitMaps, InheritedByIs DEF Inherit
  <2>2. Definition[t][n] = Look(blocks[t], n)
    BY <1>1, InitMaps, DefinitionsMatch
  <2>3. Parent(t) # None => InheritedBy[Parent(t)] = inherited[Parent(t)]
    BY <1>3, InitMaps
  <2> QED
    BY <2>1, <2>2, <2>3 DEF OrParents, Prog, Parent
<1>5. ASSUME NEW n \in Names
      PROVE  overridden[t][n] = OrParents(Prog, t, Look(traits[t], n), n)
  <2>1. overridden[t][n] = Overridden(t, n)
    BY InitMaps
  <2>2. ImportedBy(t, n, Definition) = Look(traits[t], n)
    <3>1. TraitsFrom(t, BlocksOf) # None /\ traits[t] = TraitsFrom(t, BlocksOf)
      BY <1>1, InitMaps
    <3>2. \A s \in Referring[t] : BlocksOf[s] # None =>
             \A m \in Names : Definition[s][m] = Look(BlocksOf[s], m)
      BY <1>1, DefinitionsMatch DEF Referring, TemplatesOf
    <3> QED
      BY <1>1, <3>1, <3>2, TraitsDefine
  <2>3. Parent(t) # None => InheritedBy[Parent(t)] = inherited[Parent(t)]
    BY <1>3, InitMaps
  <2> QED
    BY <2>1, <2>2, <2>3 DEF OrParents, Prog, Parent, Overridden
<1> QED
  BY <1>1, <1>2, <1>4, <1>5 DEF Usable, Prog

(* A display starts with what is documented.                               *)
LEMMA InitProgram ==
    ASSUME Init
    PROVE  IsProgram(Prog)
<1>1. library \in Libraries
  BY DEF Init
<1>2. blocks \in [Templates -> MaybeBlocks]
  BY <1>1, BlocksOfIs DEF Init
<1>3. traits \in [Templates -> MaybeBlocks]
  BY <1>1, BlocksOfIs, TraitsFromType DEF Init
<1>4. inherited \in [Templates -> Definitions]
  <2>1. \A t \in Templates : inherited[t] \in Definitions
    BY InitMaps
  <2>2. inherited = [t \in Templates |-> inherited[t]]
    BY DEF Init
  <2> QED
    BY <2>1, <2>2
<1>5. overridden \in [Templates -> Definitions]
  <2>1. ASSUME NEW t \in Templates, NEW n \in Names
        PROVE  Overridden(t, n) \in Handler \cup {None}
    <3>1. ImportedBy(t, n, Definition) \in Handler \cup {None}
      BY <1>1, DefinitionIs, ImportedByType
    <3>2. Parent(t) # None => InheritedBy[Parent(t)][n] \in Handler \cup {None}
      BY <1>1, InheritedByIs, LibraryType DEF Definitions
    <3> QED
      BY <3>1, <3>2 DEF Overridden
  <2>2. overridden = [t \in Templates |-> [n \in Names |-> Overridden(t, n)]]
    BY DEF Init
  <2> QED
    BY <2>1, <2>2 DEF Definitions
<1>6. ASSUME NEW t \in Templates, Parent(t) # None,
             NEW n \in Names, inherited[Parent(t)][n] # None
      PROVE  inherited[t][n] # None
  <2>1. Parent(t) \in Templates
    BY <1>1, <1>6, LibraryType
  <2>2. inherited[t][n] = IF Definition[t][n] # None \/ Parent(t) = None
                          THEN Definition[t][n] ELSE inherited[Parent(t)][n]
    BY <1>1, <2>1, InitMaps, InheritedByIs DEF Inherit
  <2> QED
    BY <1>6, <2>2
<1>7. \A t \in Templates : blocks[t] # None => Usable(Prog, t)
  BY InitUsable
<1> QED
  BY <1>1, <1>2, <1>3, <1>4, <1>5, <1>6, <1>7 DEF IsProgram, Prog, Parent

-----------------------------------------------------------------------------
(* A frame. *)

Frames ==
    [kind : Kinds, template : Templates, name : Names \cup {None},
     known : BlockMap, use : BOOLEAN, code : Seq(Instruction),
     root : Displayed \cup {None}, expected : Handler \cup {None, Unclaimed}]

Displays == {"display", "body"}

(* The handlers that a frame knows are blocks that are written.            *)
Knows(p, known) == known \in BlockMap /\ \A n \in DOMAIN known : Good(p, known[n])

(* Its name, its code and the handlers that it knows are there.            *)
Shaped(p, f) ==
    /\ f \in Frames
    /\ f.name = None <=> f.kind \in Displays
    /\ f.kind = "body" => f.code \in Seq(Reference)
    /\ f.kind \in {"body", "handler", "parent"} => p.blocks[f.template] # None
    /\ Knows(p, f.known)

(* r inherits a definition of each block that t does; t has no parent, or  *)
(* that is so.                                                             *)
Covers(p, r, t) ==
    \A n \in Names : p.inherited[t][n] # None => p.inherited[r][n] # None

Within(p, r, t) == p.library.parent[t] = None \/ Covers(p, r, t)

(* The blocks that are known have been resolved for the template r.        *)
Resolved(p, r, known) ==
    \A n \in DOMAIN known :
        known[n] = p.inherited[r][n] /\ Within(p, r, known[n].template)

(* The frames of a template that is displayed know its resolved blocks; on *)
(* the way up, the others are those of the template that has been reached. *)
Rooted(p, f) ==
    /\ f.kind \in Displays =>
          /\ f.root # None /\ Covers(p, f.root, f.template)
          /\ \A n \in Names \ DOMAIN f.known :
                p.inherited[f.root][n] = p.inherited[f.template][n]
    /\ f.kind = "body" => DOMAIN p.blocks[f.template] \subseteq DOMAIN f.known
    /\ f.kind \in {"test", "yes", "no"} => f.root = None
    /\ f.root # None =>
          Within(p, f.root, f.template) /\ Resolved(p, f.root, f.known)
    /\ f.root # None /\ f.kind \notin Displays =>
          \A n \in Names \ DOMAIN f.known : p.inherited[f.root][n] = None

(* What a block or a test will find.                                       *)
Finds(p, f) ==
    IF f.use = TRUE /\ f.name \in DOMAIN f.known THEN f.known[f.name]
    ELSE p.inherited[f.template][f.name]

(* What the frame is to display is what the reference stands for.          *)
Expects(p, f) ==
    /\ f.kind \in Displays => f.expected = Unclaimed
    /\ f.kind = "test" => f.use = TRUE
    /\ f.expected # Unclaimed =>
          /\ f.kind \in {"block", "test"} => f.expected = Finds(p, f)
          /\ f.kind = "handler" =>
                f.expected = [template |-> f.template, name |-> f.name]
          /\ f.kind = "parent" => f.expected = p.overridden[f.template][f.name]
          /\ f.kind = "yes" => f.expected # None
          /\ f.kind = "no" => f.expected = None

FrameOK(p, f) == Shaped(p, f) /\ Rooted(p, f) /\ Expects(p, f)

(* What a stack and the end of the display may be: the template that is    *)
(* displayed is at the bottom, and nothing fails that has a definition.    *)
Stacked(p, s, ended) ==
    /\ s \in Seq(Frames) /\ Len(s) <= MaxDepth
    /\ ended \in {"displaying", "displayed", "failed", "unusable"}
    /\ (s = << >>) <=> (ended = "displayed")
    /\ \A i \in DOMAIN s :
          FrameOK(p, s[i]) /\ (s[i].kind \in Displays <=> i = 1)
    /\ ended = "failed" => Last(s).expected \in {None, Unclaimed}

Inv == IsProgram(Prog) /\ Stacked(Prog, stack, status)

-----------------------------------------------------------------------------
(* What is known when the blocks of a template are merged. *)

LEMMA ProgramType ==
    ASSUME NEW p, IsProgram(p), NEW t \in Templates
    PROVE  /\ p.blocks[t] \in MaybeBlocks /\ p.traits[t] \in MaybeBlocks
           /\ p.inherited[t] \in Definitions /\ p.overridden[t] \in Definitions
           /\ p.library \in Libraries
           /\ p.library.parent[t] \in Templates \cup {None}
           /\ p.library.body[t] \in Seq(Reference)
           /\ \A n \in DOMAIN p.library.blocks[t] :
                 p.library.blocks[t][n] \in Seq(Instruction)
<1>1. p.library \in Libraries
  BY DEF IsProgram
<1>2. /\ p.library.parent[t] \in Templates \cup {None}
      /\ p.library.body[t] \in Seq(Reference)
      /\ \A n \in DOMAIN p.library.blocks[t] :
            p.library.blocks[t][n] \in Seq(Instruction)
  BY <1>1, InheritanceAssumption DEF LibraryAssumption, IsLibrary
<1> QED
  BY <1>1, <1>2 DEF IsProgram

(* The definition of a block for a template that can be displayed.         *)
LEMMA UsableInherits ==
    ASSUME NEW p, IsProgram(p), NEW t \in Templates, p.blocks[t] # None, NEW n \in Names
    PROVE  /\ p.blocks[t] \in BlockMap /\ p.traits[t] \in BlockMap
           /\ n \in DOMAIN p.blocks[t] =>
                 /\ p.inherited[t][n] = p.blocks[t][n]
                 /\ p.inherited[t][n] # None
           /\ n \notin DOMAIN p.blocks[t] =>
                 p.inherited[t][n] = IF p.library.parent[t] = None THEN None
                                     ELSE p.inherited[p.library.parent[t]][n]
           /\ n \in DOMAIN p.traits[t] => p.overridden[t][n] = p.traits[t][n]
           /\ n \notin DOMAIN p.traits[t] =>
                 p.overridden[t][n] = IF p.library.parent[t] = None THEN None
                                      ELSE p.inherited[p.library.parent[t]][n]
<1>1. Usable(p, t)
  BY DEF IsProgram
<1>2. p.blocks[t] \in BlockMap /\ p.traits[t] \in BlockMap
  BY <1>1, ProgramType DEF Usable, MaybeBlocks
<1>3. /\ p.inherited[t][n] = OrParents(p, t, Look(p.blocks[t], n), n)
      /\ p.overridden[t][n] = OrParents(p, t, Look(p.traits[t], n), n)
  BY <1>1 DEF Usable
<1>4. /\ (Look(p.blocks[t], n) # None) <=> n \in DOMAIN p.blocks[t]
      /\ n \in DOMAIN p.blocks[t] => Look(p.blocks[t], n) = p.blocks[t][n]
      /\ (Look(p.traits[t], n) # None) <=> n \in DOMAIN p.traits[t]
      /\ n \in DOMAIN p.traits[t] => Look(p.traits[t], n) = p.traits[t][n]
  BY <1>2, LookType
<1> QED
  BY <1>2, <1>3, <1>4 DEF OrParents

(* A handler is the definition of its block in its template.               *)
LEMMA GoodInherits ==
    ASSUME NEW p, IsProgram(p), NEW h, Good(p, h)
    PROVE  p.inherited[h.template][h.name] = h
<1>. PICK t : t = h.template
  OBVIOUS
<1>. PICK n : n = h.name
  OBVIOUS
<1>1. /\ t \in Templates /\ n \in Names /\ p.blocks[t] # None
      /\ n \in DOMAIN p.blocks[t] /\ p.blocks[t][n] = h
  BY DEF Good, Handler
<1>2. p.inherited[t][n] = p.blocks[t][n]
  BY <1>1, UsableInherits
<1> QED
  BY <1>1, <1>2

MergesTo(p, t, known, m) ==
    /\ IsProgram(p) /\ t \in Templates /\ p.blocks[t] # None
    /\ Knows(p, known) /\ m = Merge(p.blocks[t], known)

Merged(p, t, known, m) ==
    /\ Knows(p, m) /\ DOMAIN m = DOMAIN p.blocks[t] \cup DOMAIN known
    /\ DOMAIN m \subseteq Names
    /\ \A n \in DOMAIN known : m[n] = known[n]
    /\ \A n \in DOMAIN m \ DOMAIN known : m[n] = p.blocks[t][n]

LEMMA MergeGood ==
    ASSUME NEW p, NEW t, NEW known, NEW m, MergesTo(p, t, known, m)
    PROVE  Merged(p, t, known, m)
<1>. /\ IsProgram(p) /\ t \in Templates /\ p.blocks[t] # None
     /\ Knows(p, known) /\ m = Merge(p.blocks[t], known)
  BY DEF MergesTo
<1>1. p.blocks[t] \in BlockMap /\ known \in BlockMap
  BY ProgramType DEF MaybeBlocks, Knows
<1>2. /\ m \in BlockMap /\ DOMAIN m = DOMAIN p.blocks[t] \cup DOMAIN known
      /\ \A n \in DOMAIN known : m[n] = known[n]
      /\ \A n \in DOMAIN p.blocks[t] \ DOMAIN known : m[n] = p.blocks[t][n]
  BY <1>1, MergeMaps
<1>3. \A n \in DOMAIN p.blocks[t] : Good(p, p.blocks[t][n])
  BY DEF IsProgram, Usable, GoodMaps
<1>4. DOMAIN m \subseteq Names
  BY <1>2, MapOf
<1>5. \A n \in DOMAIN m : Good(p, m[n])
  BY <1>2, <1>3 DEF Knows
<1> QED
  BY <1>2, <1>4, <1>5 DEF Knows, Merged

LEMMA MergeResolved ==
    ASSUME NEW p, NEW t, NEW known, NEW m, MergesTo(p, t, known, m), NEW r,
           Resolved(p, r, known), Within(p, r, t),
           \A n \in DOMAIN p.blocks[t] \ DOMAIN known :
              p.blocks[t][n] = p.inherited[r][n]
    PROVE  Resolved(p, r, m)
<1>0. /\ DOMAIN m = DOMAIN p.blocks[t] \cup DOMAIN known
      /\ \A n \in DOMAIN known : m[n] = known[n]
      /\ \A n \in DOMAIN m \ DOMAIN known : m[n] = p.blocks[t][n]
  <2>1. Merged(p, t, known, m)
    BY MergeGood
  <2> QED
    BY <2>1 DEF Merged
<1>. IsProgram(p) /\ t \in Templates /\ p.blocks[t] # None
  BY DEF MergesTo
<1>1. ASSUME NEW n \in DOMAIN m
      PROVE  m[n] = p.inherited[r][n] /\ Within(p, r, m[n].template)
  <2>1. CASE n \in DOMAIN known
    <3>1. m[n] = known[n]
      BY <1>0, <2>1
    <3> QED
      BY <2>1, <3>1 DEF Resolved
  <2>2. CASE n \notin DOMAIN known
    <3>1. n \in DOMAIN p.blocks[t] /\ m[n] = p.blocks[t][n]
      BY <1>0, <2>2
    <3>2. \/ p.blocks[t][n].template = t
          \/ p.library.parent[p.blocks[t][n].template] = None
      BY <3>1 DEF IsProgram, Usable, GoodMaps
    <3>3. Within(p, r, m[n].template)
      BY <3>1, <3>2 DEF Within
    <3> QED
      BY <2>2, <3>1, <3>3
  <2> QED
    BY <2>1, <2>2
<1> QED
  BY <1>1 DEF Resolved

(* What covers a template covers its parent.                               *)
LEMMA CoversParent ==
    ASSUME NEW p, IsProgram(p), NEW t \in Templates, NEW r,
           p.library.parent[t] # None, Covers(p, r, t)
    PROVE  Covers(p, r, p.library.parent[t])
BY DEF IsProgram, Covers

-----------------------------------------------------------------------------
(* What the methods make of a frame. *)

LEMMA FrameType ==
    ASSUME NEW f \in Frames
    PROVE  /\ f.kind \in Kinds /\ f.template \in Templates
           /\ f.name \in Names \cup {None} /\ f.known \in BlockMap
           /\ f.use \in BOOLEAN /\ f.code \in Seq(Instruction)
           /\ f.root \in Displayed \cup {None}
           /\ f.expected \in Handler \cup {None, Unclaimed}
BY DEF Frames

LEMMA ReferenceCode ==
    ASSUME NEW s \in Seq(Reference)
    PROVE  s \in Seq(Instruction)
<1>1. Reference \subseteq Instruction
  BY DEF Instruction
<1>. HIDE DEF Reference, Instruction
<1> QED
  BY <1>1

(* display: the blocks of the template are known, below those of its       *)
(* children.                                                               *)
LEMMA DisplayStep ==
    ASSUME NEW p, IsProgram(p), NEW f, FrameOK(p, f), f.kind = "display",
           p.blocks[f.template] # None,
           NEW g, g = [f EXCEPT !.kind = "body",
                                !.known = Merge(p.blocks[f.template], f.known),
                                !.code = p.library.body[f.template]]
    PROVE  FrameOK(p, g) /\ g.kind = "body"
<1> DEFINE t == f.template
           r == f.root
           m == Merge(p.blocks[t], f.known)
<1>1. f \in Frames /\ f.name = None /\ Knows(p, f.known) /\ t \in Templates
  BY DEF FrameOK, Shaped, Displays, Frames
<1>2. /\ r # None /\ Covers(p, r, t) /\ Within(p, r, t) /\ Resolved(p, r, f.known)
      /\ \A n \in Names \ DOMAIN f.known : p.inherited[r][n] = p.inherited[t][n]
  BY DEF FrameOK, Rooted, Displays
<1>3. f.expected = Unclaimed
  BY DEF FrameOK, Expects, Displays
<1>4. MergesTo(p, t, f.known, m)
  BY <1>1 DEF MergesTo
<1>5. Merged(p, t, f.known, m)
  BY <1>4, MergeGood
<1>6. /\ Knows(p, m) /\ m \in BlockMap
      /\ DOMAIN m = DOMAIN p.blocks[t] \cup DOMAIN f.known /\ DOMAIN m \subseteq Names
  BY <1>5 DEF Merged, Knows
<1>7. p.library.body[t] \in Seq(Reference) /\ p.library.body[t] \in Seq(Instruction)
  BY <1>1, ProgramType, ReferenceCode
<1>8. \A n \in DOMAIN p.blocks[t] \ DOMAIN f.known : p.blocks[t][n] = p.inherited[r][n]
  <2>1. ASSUME NEW n \in DOMAIN p.blocks[t] \ DOMAIN f.known
        PROVE  p.blocks[t][n] = p.inherited[r][n]
    <3>1. n \in Names
      BY <1>6
    <3>2. p.inherited[t][n] = p.blocks[t][n]
      BY <1>1, <3>1, UsableInherits
    <3> QED
      BY <1>2, <3>1, <3>2
  <2> QED
    BY <2>1
<1>. HIDE DEF m, t
<1>9. Resolved(p, r, m)
  BY <1>2, <1>4, <1>8, MergeResolved
<1>10. /\ g \in Frames /\ g.kind = "body" /\ g.template = t /\ g.name = None
       /\ g.known = m /\ g.code = p.library.body[t]
       /\ g.root = r /\ g.expected = Unclaimed
  BY <1>1, <1>3, <1>6, <1>7 DEF Frames, Kinds, m, t
<1>11. Shaped(p, g)
  BY <1>6, <1>7, <1>10 DEF Shaped, Displays, t
<1>12. Rooted(p, g)
  BY <1>2, <1>6, <1>9, <1>10 DEF Rooted, Displays
<1>13. Expects(p, g)
  BY <1>10 DEF Expects, Displays
<1> QED
  BY <1>10, <1>11, <1>12, <1>13 DEF FrameOK

(* doDisplay, after the body: the parent is displayed with what is known.  *)
LEMMA EndBodyStep ==
    ASSUME NEW p, IsProgram(p), NEW f, FrameOK(p, f), f.kind = "body",
           NEW up, up = p.library.parent[f.template], up # None,
           NEW g, g = [f EXCEPT !.kind = "display", !.template = up,
                                !.known = Merge(p.blocks[f.template], f.known)]
    PROVE  FrameOK(p, g) /\ g.kind = "display"
<1> DEFINE t == f.template
           r == f.root
           m == Merge(p.blocks[t], f.known)
<1>1. /\ f \in Frames /\ f.name = None /\ Knows(p, f.known) /\ t \in Templates
      /\ p.blocks[t] # None /\ f.known \in BlockMap
  BY DEF FrameOK, Shaped, Displays, Frames
<1>2. /\ r # None /\ Covers(p, r, t) /\ Within(p, r, t) /\ Resolved(p, r, f.known)
      /\ \A n \in Names \ DOMAIN f.known : p.inherited[r][n] = p.inherited[t][n]
      /\ DOMAIN p.blocks[t] \subseteq DOMAIN f.known
  BY DEF FrameOK, Rooted, Displays
<1>3. f.expected = Unclaimed
  BY DEF FrameOK, Expects, Displays
<1>4. MergesTo(p, t, f.known, m)
  BY <1>1 DEF MergesTo
<1>5. Merged(p, t, f.known, m)
  BY <1>4, MergeGood
<1>6. Knows(p, m) /\ m \in BlockMap /\ DOMAIN m = DOMAIN f.known
  BY <1>2, <1>5 DEF Merged, Knows
<1>7. up \in Templates
  BY <1>1, ProgramType
<1>. HIDE DEF m, t
<1>8. Resolved(p, r, m)
  BY <1>2, <1>4, MergeResolved
<1>9. /\ Covers(p, r, up) /\ Within(p, r, up)
      /\ \A n \in Names \ DOMAIN m : p.inherited[r][n] = p.inherited[up][n]
  <2>1. Covers(p, r, up)
    BY <1>1, <1>2, CoversParent DEF t
  <2>2. ASSUME NEW n \in Names \ DOMAIN m PROVE p.inherited[r][n] = p.inherited[up][n]
    <3>1. n \in Names /\ n \notin DOMAIN p.blocks[t] /\ n \notin DOMAIN f.known
      BY <1>2, <1>6
    <3>2. p.inherited[t][n] = p.inherited[up][n]
      BY <1>1, <3>1, UsableInherits DEF t
    <3> QED
      BY <1>2, <3>1, <3>2
  <2> QED
    BY <2>1, <2>2 DEF Within
<1>10. /\ g \in Frames /\ g.kind = "display" /\ g.template = up /\ g.name = None
       /\ g.known = m /\ g.root = r /\ g.expected = Unclaimed
  BY <1>1, <1>3, <1>6, <1>7 DEF Frames, Kinds, m, t
<1>11. Shaped(p, g)
  BY <1>6, <1>10 DEF Shaped, Displays
<1>12. Rooted(p, g)
  BY <1>2, <1>8, <1>9, <1>10 DEF Rooted, Displays
<1>13. Expects(p, g)
  BY <1>10 DEF Expects, Displays
<1> QED
  BY <1>10, <1>11, <1>12, <1>13 DEF FrameOK

(* What displayBlock finds: among the blocks it is given, or in its        *)
(* template.                                                               *)
FoundIn(p, f) ==
    IF f.use = TRUE /\ f.name \in DOMAIN f.known THEN f.known[f.name]
    ELSE IF f.name \in DOMAIN p.blocks[f.template] THEN p.blocks[f.template][f.name]
    ELSE None

LEMMA FoundIsGood ==
    ASSUME NEW p, IsProgram(p), NEW f, FrameOK(p, f), f.kind = "block",
           p.blocks[f.template] # None, NEW h, h = FoundIn(p, f)
    PROVE  /\ h # None => Good(p, h) /\ h = Finds(p, f)
           /\ h # None /\ f.root # None => Within(p, f.root, h.template)
           /\ h = None =>
                 Finds(p, f) = IF p.library.parent[f.template] = None THEN None
                               ELSE p.inherited[p.library.parent[f.template]][f.name]
<1> DEFINE t == f.template
           up == p.library.parent[t]
<1>1. /\ f \in Frames /\ f.name \in Names /\ Knows(p, f.known) /\ t \in Templates
  BY DEF FrameOK, Shaped, Displays, Frames
<1>2. f.root # None => Within(p, f.root, t) /\ Resolved(p, f.root, f.known)
  BY DEF FrameOK, Rooted
<1>3. /\ f.name \in DOMAIN p.blocks[t] => p.inherited[t][f.name] = p.blocks[t][f.name]
      /\ f.name \notin DOMAIN p.blocks[t] =>
            p.inherited[t][f.name] = IF up = None THEN None ELSE p.inherited[up][f.name]
  BY <1>1, UsableInherits
<1>4. /\ \A n \in DOMAIN f.known : Good(p, f.known[n])
      /\ \A n \in DOMAIN p.blocks[t] :
            /\ Good(p, p.blocks[t][n])
            /\ p.blocks[t][n].template = t \/ p.library.parent[p.blocks[t][n].template] = None
  BY <1>1 DEF IsProgram, Usable, GoodMaps, Knows
<1>5. \A i : Good(p, i) => i # None
  BY NoneIsNoBlock DEF Good
<1>. HIDE DEF t, up
<1>6. CASE f.use = TRUE /\ f.name \in DOMAIN f.known
  <2>1. h = f.known[f.name] /\ Finds(p, f) = h
    BY <1>6 DEF FoundIn, Finds
  <2>2. Good(p, h) /\ h # None
    BY <1>4, <1>5, <1>6, <2>1
  <2>3. f.root # None => Within(p, f.root, h.template)
    BY <1>2, <1>6, <2>1 DEF Resolved
  <2> QED
    BY <2>1, <2>2, <2>3
<1>7. CASE ~ (f.use = TRUE /\ f.name \in DOMAIN f.known)
  <2>1. Finds(p, f) = p.inherited[t][f.name]
    BY <1>7 DEF Finds, t
  <2>2. CASE f.name \in DOMAIN p.blocks[t]
    <3>1. h = p.blocks[t][f.name] /\ Good(p, h) /\ h # None
      BY <1>4, <1>5, <1>7, <2>2 DEF FoundIn, t
    <3>2. f.root # None => Within(p, f.root, h.template)
      BY <1>2, <1>4, <2>2, <3>1 DEF Within
    <3> QED
      BY <1>3, <2>1, <2>2, <3>1, <3>2
  <2>3. CASE f.name \notin DOMAIN p.blocks[t]
    <3>1. h = None
      BY <1>7, <2>3 DEF FoundIn, t
    <3> QED
      BY <1>3, <2>1, <2>3, <3>1 DEF t, up
  <2> QED
    BY <2>2, <2>3
<1> QED
  BY <1>6, <1>7

(* The frames that the methods go on in.                                   *)
Handled(p, f, h) ==
    [f EXCEPT !.kind = "handler", !.template = h.template, !.name = h.name,
              !.code = p.library.blocks[h.template][h.name]]

AskedUp(p, f, up) ==
    [f EXCEPT !.template = up, !.use = FALSE,
              !.known = Merge(p.blocks[f.template], f.known)]

ImportedBlock(f, h) ==
    [f EXCEPT !.kind = "block", !.use = FALSE,
              !.template = h.template, !.name = h.name]

ParentBlock(f, up) ==
    [f EXCEPT !.kind = "block", !.use = FALSE, !.template = up]

Answered(f, answer) ==
    [f EXCEPT !.kind = answer]

TestUp(f, up) ==
    [f EXCEPT !.template = up, !.known = NoBlocks]

(* displayBlock: the handler that is found runs.                           *)
LEMMA HandlerStep ==
    ASSUME NEW p, IsProgram(p), NEW f, FrameOK(p, f), f.kind = "block",
           p.blocks[f.template] # None, NEW h, h = FoundIn(p, f), h # None,
           NEW g, g = Handled(p, f, h)
    PROVE  FrameOK(p, g) /\ g.kind = "handler"
<1>1. /\ f \in Frames /\ f.name # None /\ Knows(p, f.known)
  BY DEF FrameOK, Shaped, Displays
<1>2. f.root # None =>
         /\ Resolved(p, f.root, f.known)
         /\ \A n \in Names \ DOMAIN f.known : p.inherited[f.root][n] = None
  BY DEF FrameOK, Rooted, Displays
<1>3. f.expected # Unclaimed => f.expected = Finds(p, f)
  BY DEF FrameOK, Expects
<1>4. /\ Good(p, h) /\ h = Finds(p, f)
      /\ f.root # None => Within(p, f.root, h.template)
  BY FoundIsGood
<1>5. /\ h.template \in Templates /\ h.name \in Names /\ p.blocks[h.template] # None
      /\ h = [template |-> h.template, name |-> h.name]
      /\ h.name \in DOMAIN p.library.blocks[h.template]
  BY <1>4 DEF Good, Handler
<1>6. p.library.blocks[h.template][h.name] \in Seq(Instruction)
  BY <1>5, ProgramType
<1>7. h.name # None
  BY <1>5, NoneIsNoBlock
<1>8. /\ g \in Frames /\ g.kind = "handler" /\ g.template = h.template
      /\ g.name = h.name /\ g.known = f.known /\ g.root = f.root
      /\ g.expected = f.expected
  BY <1>1, <1>5, <1>6 DEF Frames, Kinds, Handled
<1>9. Shaped(p, g)
  BY <1>1, <1>5, <1>7, <1>8 DEF Shaped, Displays
<1>10. Rooted(p, g)
  BY <1>2, <1>4, <1>8 DEF Rooted, Displays
<1>11. Expects(p, g)
  BY <1>3, <1>4, <1>5, <1>8 DEF Expects, Displays
<1> QED
  BY <1>8, <1>9, <1>10, <1>11 DEF FrameOK

(* displayBlock: the parent is asked, with the blocks of the template.     *)
LEMMA BlockUpStep ==
    ASSUME NEW p, IsProgram(p), NEW f, FrameOK(p, f), f.kind = "block",
           p.blocks[f.template] # None, FoundIn(p, f) = None,
           NEW up, up = p.library.parent[f.template], up # None,
           NEW g, g = AskedUp(p, f, up)
    PROVE  FrameOK(p, g) /\ g.kind = "block"
<1> DEFINE t == f.template
           r == f.root
           m == Merge(p.blocks[t], f.known)
<1>1. /\ f \in Frames /\ f.name \in Names /\ f.name # None /\ Knows(p, f.known)
      /\ t \in Templates /\ f.known \in BlockMap
  BY DEF FrameOK, Shaped, Displays, Frames
<1>2. r # None =>
         /\ Within(p, r, t) /\ Resolved(p, r, f.known)
         /\ \A n \in Names \ DOMAIN f.known : p.inherited[r][n] = None
  BY DEF FrameOK, Rooted, Displays
<1>3. f.expected # Unclaimed => f.expected = Finds(p, f)
  BY DEF FrameOK, Expects
<1>4. MergesTo(p, t, f.known, m)
  BY <1>1 DEF MergesTo
<1>5. Merged(p, t, f.known, m)
  BY <1>4, MergeGood
<1>6. /\ Knows(p, m) /\ m \in BlockMap
      /\ DOMAIN m = DOMAIN p.blocks[t] \cup DOMAIN f.known /\ DOMAIN m \subseteq Names
  BY <1>5 DEF Merged, Knows
<1>7. up \in Templates
  BY <1>1, ProgramType
<1>8. f.expected # Unclaimed => f.expected = p.inherited[up][f.name]
  BY <1>3, FoundIsGood
<1>. HIDE DEF m, t
<1>9. r # None => Within(p, r, up) /\ Resolved(p, r, m)
  <2>1. SUFFICES ASSUME r # None PROVE Within(p, r, up) /\ Resolved(p, r, m)
    OBVIOUS
  <2>2. Covers(p, r, t)
    BY <1>2, <2>1 DEF Within, t
  <2>3. Covers(p, r, up)
    BY <1>1, <2>2, CoversParent DEF t
  <2>4. ASSUME NEW n \in DOMAIN p.blocks[t] \ DOMAIN f.known PROVE FALSE
    <3>1. n \in Names /\ p.blocks[t] # None
      BY <1>6 DEF t
    <3>2. p.inherited[t][n] # None
      BY <1>1, <3>1, UsableInherits
    <3>3. p.inherited[r][n] = None
      BY <1>2, <2>1, <3>1
    <3> QED
      BY <2>2, <3>1, <3>2, <3>3 DEF Covers
  <2>5. \A n \in DOMAIN p.blocks[t] \ DOMAIN f.known : p.blocks[t][n] = p.inherited[r][n]
    BY <2>4
  <2>6. Resolved(p, r, m)
    BY <1>2, <1>4, <2>1, <2>5, MergeResolved
  <2> QED
    BY <2>3, <2>6 DEF Within
<1>10. /\ g \in Frames /\ g.kind = "block" /\ g.template = up /\ g.use = FALSE
       /\ g.name = f.name /\ g.known = m /\ g.root = r /\ g.expected = f.expected
  BY <1>1, <1>6, <1>7 DEF Frames, Kinds, m, t, AskedUp
<1>11. Shaped(p, g)
  BY <1>1, <1>6, <1>10 DEF Shaped, Displays
<1>12. Rooted(p, g)
  BY <1>2, <1>6, <1>9, <1>10 DEF Rooted, Displays
<1>13. Expects(p, g)
  BY <1>8, <1>10 DEF Expects, Displays, Finds
<1> QED
  BY <1>10, <1>11, <1>12, <1>13 DEF FrameOK

(* displayParentBlock: the block that the template has imported.           *)
LEMMA ParentImportedStep ==
    ASSUME NEW p, IsProgram(p), NEW f, FrameOK(p, f), f.kind = "parent",
           f.name \in DOMAIN p.traits[f.template],
           NEW h, h = p.traits[f.template][f.name],
           NEW g, g = ImportedBlock(f, h)
    PROVE  FrameOK(p, g) /\ g.kind = "block"
<1> DEFINE t == f.template
<1>1. /\ f \in Frames /\ f.name \in Names /\ Knows(p, f.known)
      /\ t \in Templates /\ p.blocks[t] # None
  BY DEF FrameOK, Shaped, Displays, Frames
<1>2. f.root # None =>
         /\ Resolved(p, f.root, f.known)
         /\ \A n \in Names \ DOMAIN f.known : p.inherited[f.root][n] = None
  BY DEF FrameOK, Rooted, Displays
<1>3. f.expected # Unclaimed => f.expected = p.overridden[t][f.name]
  BY DEF FrameOK, Expects
<1>4. Good(p, h) /\ p.library.parent[h.template] = None
  BY <1>1 DEF IsProgram, Usable, GoodMaps
<1>5. p.overridden[t][f.name] = h
  BY <1>1, UsableInherits
<1>6. /\ h.template \in Templates /\ h.name \in Names
      /\ p.blocks[h.template] # None /\ h.name \in DOMAIN p.blocks[h.template]
      /\ p.blocks[h.template][h.name] = h
  BY <1>4 DEF Good, Handler
<1>7. p.inherited[h.template][h.name] = h
  BY <1>4, GoodInherits
<1>8. h.name # None
  BY <1>6, NoneIsNoBlock
<1>. HIDE DEF t
<1>9. /\ g \in Frames /\ g.kind = "block" /\ g.template = h.template /\ g.use = FALSE
      /\ g.name = h.name /\ g.known = f.known /\ g.root = f.root
      /\ g.expected = f.expected
  BY <1>1, <1>6 DEF Frames, Kinds, ImportedBlock
<1>10. Shaped(p, g)
  BY <1>1, <1>8, <1>9 DEF Shaped, Displays
<1>11. Rooted(p, g)
  BY <1>2, <1>4, <1>9 DEF Rooted, Displays, Within
<1>12. Expects(p, g)
  BY <1>3, <1>5, <1>7, <1>9 DEF Expects, Displays, Finds
<1> QED
  BY <1>9, <1>10, <1>11, <1>12 DEF FrameOK

(* displayParentBlock: the block of the parent.                            *)
LEMMA ParentUpStep ==
    ASSUME NEW p, IsProgram(p), NEW f, FrameOK(p, f), f.kind = "parent",
           f.name \notin DOMAIN p.traits[f.template],
           NEW up, up = p.library.parent[f.template], up # None,
           NEW g, g = ParentBlock(f, up)
    PROVE  FrameOK(p, g) /\ g.kind = "block"
<1> DEFINE t == f.template
<1>1. /\ f \in Frames /\ f.name \in Names /\ f.name # None /\ Knows(p, f.known)
      /\ t \in Templates /\ p.blocks[t] # None
  BY DEF FrameOK, Shaped, Displays, Frames
<1>2. f.root # None =>
         /\ Within(p, f.root, t) /\ Resolved(p, f.root, f.known)
         /\ \A n \in Names \ DOMAIN f.known : p.inherited[f.root][n] = None
  BY DEF FrameOK, Rooted, Displays
<1>3. f.expected # Unclaimed => f.expected = p.overridden[t][f.name]
  BY DEF FrameOK, Expects
<1>4. up \in Templates
  BY <1>1, ProgramType
<1>5. p.overridden[t][f.name] = p.inherited[up][f.name]
  BY <1>1, UsableInherits
<1>6. f.root # None => Within(p, f.root, up)
  <2>1. f.root # None => Covers(p, f.root, t)
    BY <1>2 DEF Within
  <2>2. f.root # None => Covers(p, f.root, up)
    BY <1>1, <2>1, CoversParent
  <2> QED
    BY <2>2 DEF Within
<1>. HIDE DEF t
<1>7. /\ g \in Frames /\ g.kind = "block" /\ g.template = up /\ g.use = FALSE
      /\ g.name = f.name /\ g.known = f.known /\ g.root = f.root
      /\ g.expected = f.expected
  BY <1>1, <1>4 DEF Frames, Kinds, ParentBlock
<1>8. Shaped(p, g)
  BY <1>1, <1>7 DEF Shaped, Displays
<1>9. Rooted(p, g)
  BY <1>2, <1>6, <1>7 DEF Rooted, Displays
<1>10. Expects(p, g)
  BY <1>3, <1>5, <1>7 DEF Expects, Displays, Finds
<1> QED
  BY <1>7, <1>8, <1>9, <1>10 DEF FrameOK

(* What fails has no definition.                                           *)
LEMMA FailStep ==
    ASSUME NEW p, IsProgram(p), NEW f, FrameOK(p, f),
           p.library.parent[f.template] = None,
           \/ /\ f.kind = "block" /\ p.blocks[f.template] # None
              /\ FoundIn(p, f) = None
           \/ f.kind = "parent" /\ f.name \notin DOMAIN p.traits[f.template]
    PROVE  f.expected \in {None, Unclaimed}
<1>1. CASE /\ f.kind = "block" /\ p.blocks[f.template] # None
           /\ FoundIn(p, f) = None
  <2>1. f.expected # Unclaimed => f.expected = Finds(p, f)
    BY <1>1 DEF FrameOK, Expects
  <2>2. Finds(p, f) = None
    BY <1>1, FoundIsGood
  <2> QED
    BY <2>1, <2>2
<1>2. CASE f.kind = "parent" /\ f.name \notin DOMAIN p.traits[f.template]
  <2>1. f.expected # Unclaimed => f.expected = p.overridden[f.template][f.name]
    BY <1>2 DEF FrameOK, Expects
  <2>2. /\ f.name \in Names /\ f.template \in Templates
        /\ p.blocks[f.template] # None
    BY <1>2 DEF FrameOK, Shaped, Displays, Frames
  <2>3. p.overridden[f.template][f.name] = None
    BY <1>2, <2>2, UsableInherits
  <2> QED
    BY <2>1, <2>3
<1> QED
  BY <1>1, <1>2

(* hasBlock: the answer, or the question to the parent.                    *)
Answers(p, f, answer) ==
    \/ answer = "yes" /\ f.name \in DOMAIN f.known
    \/ /\ answer = "yes" /\ p.blocks[f.template] # None
       /\ f.name \notin DOMAIN f.known
       /\ f.name \in DOMAIN p.blocks[f.template]
    \/ /\ answer = "no" /\ p.blocks[f.template] # None
       /\ f.name \notin DOMAIN f.known
       /\ f.name \notin DOMAIN p.blocks[f.template]
       /\ p.library.parent[f.template] = None

LEMMA AnswerStep ==
    ASSUME NEW p, IsProgram(p), NEW f, FrameOK(p, f), f.kind = "test",
           NEW answer,
           Answers(p, f, answer),
           NEW g, g = Answered(f, answer)
    PROVE  FrameOK(p, g) /\ g.kind = answer
<1> DEFINE t == f.template
<1>1. /\ f \in Frames /\ f.name \in Names /\ f.name # None /\ Knows(p, f.known)
      /\ t \in Templates
  BY DEF FrameOK, Shaped, Displays, Frames
<1>2. f.root = None
  BY DEF FrameOK, Rooted
<1>3. /\ f.expected # Unclaimed => f.expected = Finds(p, f)
      /\ f.use = TRUE
  BY DEF FrameOK, Expects
<1>4. answer \in {"yes", "no"}
  BY DEF Answers
<1>5. /\ answer = "yes" => Finds(p, f) # None
      /\ answer = "no" => Finds(p, f) = None
  <2>1. CASE answer = "yes" /\ f.name \in DOMAIN f.known
    <3>1. Good(p, f.known[f.name])
      BY <1>1, <2>1 DEF Knows
    <3> QED
      BY <1>3, <2>1, <3>1, NoneIsNoBlock DEF Finds, Good
  <2>2. CASE /\ p.blocks[f.template] # None
             /\ f.name \notin DOMAIN f.known
             /\ \/ answer = "yes" /\ f.name \in DOMAIN p.blocks[f.template]
                \/ /\ answer = "no" /\ f.name \notin DOMAIN p.blocks[f.template]
                   /\ p.library.parent[f.template] = None
    <3>1. Finds(p, f) = p.inherited[t][f.name]
      BY <2>2 DEF Finds
    <3>2. /\ f.name \in DOMAIN p.blocks[t] => p.inherited[t][f.name] # None
          /\ f.name \notin DOMAIN p.blocks[t] =>
                p.inherited[t][f.name] = IF p.library.parent[t] = None THEN None
                                         ELSE p.inherited[p.library.parent[t]][f.name]
      BY <1>1, <2>2, UsableInherits
    <3> QED
      BY <2>2, <3>1, <3>2
  <2> QED
    BY <2>1, <2>2 DEF Answers
<1>. HIDE DEF t
<1>6. /\ g \in Frames /\ g.kind = answer /\ g.template = f.template
      /\ g.name = f.name /\ g.known = f.known /\ g.root = f.root
      /\ g.expected = f.expected
  BY <1>1, <1>4 DEF Frames, Kinds, Answered
<1>7. Shaped(p, g)
  BY <1>1, <1>4, <1>6 DEF Shaped, Displays
<1>8. Rooted(p, g)
  BY <1>2, <1>4, <1>6 DEF Rooted, Displays
<1>9. Expects(p, g)
  BY <1>3, <1>4, <1>5, <1>6 DEF Expects, Displays
<1> QED
  BY <1>6, <1>7, <1>8, <1>9 DEF FrameOK

LEMMA TestUpStep ==
    ASSUME NEW p, IsProgram(p), NEW f, FrameOK(p, f), f.kind = "test",
           p.blocks[f.template] # None, f.name \notin DOMAIN f.known,
           f.name \notin DOMAIN p.blocks[f.template],
           NEW up, up = p.library.parent[f.template], up # None,
           NEW g, g = TestUp(f, up)
    PROVE  FrameOK(p, g) /\ g.kind = "test"
<1>1. /\ f \in Frames /\ f.name \in Names /\ f.name # None /\ f.template \in Templates
  BY DEF FrameOK, Shaped, Displays, Frames
<1>2. f.root = None
  BY DEF FrameOK, Rooted
<1>3. /\ f.expected # Unclaimed => f.expected = Finds(p, f)
      /\ f.use = TRUE
  BY DEF FrameOK, Expects
<1>4. up \in Templates
  BY <1>1, ProgramType
<1>5. Finds(p, f) = p.inherited[up][f.name]
  <2>1. p.inherited[f.template][f.name] = p.inherited[up][f.name]
    BY <1>1, UsableInherits
  <2> QED
    BY <2>1 DEF Finds
<1>6. Knows(p, NoBlocks) /\ NoBlocks \in BlockMap /\ DOMAIN NoBlocks = {}
  <2>1. NoBlocks \in [{} -> Handler] /\ {} \in SUBSET Names
    BY DEF NoBlocks
  <2> QED
    BY <2>1 DEF Knows, BlockMap
<1>7. /\ g \in Frames /\ g.kind = "test" /\ g.template = up /\ g.use = TRUE
      /\ g.name = f.name /\ g.known = NoBlocks /\ g.root = f.root
      /\ g.expected = f.expected
  BY <1>1, <1>3, <1>4, <1>6 DEF Frames, Kinds, TestUp
<1>8. Shaped(p, g)
  BY <1>1, <1>6, <1>7 DEF Shaped, Displays
<1>9. Rooted(p, g)
  BY <1>2, <1>7 DEF Rooted, Displays
<1>10. Expects(p, g)
  BY <1>3, <1>5, <1>6, <1>7 DEF Expects, Displays, Finds
<1> QED
  BY <1>7, <1>8, <1>9, <1>10 DEF FrameOK

-----------------------------------------------------------------------------
(* What the instructions make of a frame. *)

LEMMA InstructionType ==
    ASSUME NEW s \in Seq(Instruction), s # << >>
    PROVE  /\ Tail(s) \in Seq(Instruction)
           /\ Head(s).op \in {"block", "test", "from"} => Head(s).name \in Names
           /\ Head(s).op = "from" => Head(s).template \in Templates
           /\ s \in Seq(Reference) =>
                 /\ Tail(s) \in Seq(Reference)
                 /\ Head(s).op \notin {"parent", "parentText"}
<1>1. ASSUME NEW S, s \in Seq(S) PROVE Tail(s) \in Seq(S) /\ Head(s) \in S
  BY <1>1
<1>2. ASSUME NEW i \in Reference
      PROVE  /\ i.op \in {"block", "test", "from"} /\ i.name \in Names
             /\ i.op = "from" => i.template \in Templates
  BY DEF Reference
<1>3. ASSUME NEW i \in Instruction, i \notin Reference
      PROVE  i.op \in {"parent", "parentText"}
  BY <1>3 DEF Instruction
<1>. HIDE DEF Instruction, Reference
<1>4. Tail(s) \in Seq(Instruction) /\ Head(s) \in Instruction
  BY <1>1
<1>5. s \in Seq(Reference) => Tail(s) \in Seq(Reference) /\ Head(s) \in Reference
  BY <1>1
<1> QED
  BY <1>2, <1>3, <1>4, <1>5

(* The code goes on.                                                       *)
LEMMA CodeStep ==
    ASSUME NEW p, NEW f, FrameOK(p, f), f.kind \in {"body", "handler"}, f.code # << >>,
           NEW g, g = [f EXCEPT !.code = Tail(f.code)]
    PROVE  FrameOK(p, g) /\ g.kind = f.kind
<1>1. f \in Frames /\ f.code \in Seq(Instruction) /\ f.kind \in Kinds
  BY DEF FrameOK, Shaped, Frames
<1>2. f.kind = "body" => f.code \in Seq(Reference)
  BY DEF FrameOK, Shaped
<1>3. /\ Tail(f.code) \in Seq(Instruction)
      /\ f.kind = "body" => Tail(f.code) \in Seq(Reference)
  BY <1>1, <1>2, InstructionType
<1>4. /\ g \in Frames /\ g.kind = f.kind /\ g.template = f.template
      /\ g.name = f.name /\ g.known = f.known /\ g.root = f.root
      /\ g.expected = f.expected /\ g.code = Tail(f.code) /\ g.use = f.use
  BY <1>1, <1>3 DEF Frames
<1>5. Shaped(p, g)
  BY <1>3, <1>4 DEF FrameOK, Shaped
<1>6. Rooted(p, g)
  BY <1>4 DEF FrameOK, Rooted
<1>7. Expects(p, g)
  BY <1>4 DEF FrameOK, Expects, Finds
<1> QED
  BY <1>4, <1>5, <1>6, <1>7 DEF FrameOK

(* What is claimed of a reference, and for whom.                           *)
Claim(p, f, n) ==
    IF f.root = None THEN Unclaimed
    ELSE IF p.inherited[f.root][n] # None THEN p.inherited[f.root][n]
    ELSE p.inherited[f.template][n]

Below(p, f) ==
    IF f.kind = "body" /\ p.library.parent[f.template] # None THEN None ELSE f.root

(* The claim is that a block is found as it is where the reference is.     *)
LEMMA ClaimIs ==
    ASSUME NEW p, IsProgram(p), NEW f, FrameOK(p, f), f.kind \in {"body", "handler"},
           NEW n \in Names
    PROVE  /\ Claim(p, f, n) \in Handler \cup {None, Unclaimed}
           /\ f.root # None =>
                 Claim(p, f, n) = IF n \in DOMAIN f.known THEN f.known[n]
                                  ELSE p.inherited[f.template][n]
<1> DEFINE t == f.template
           r == f.root
<1>1. /\ Knows(p, f.known) /\ t \in Templates /\ p.blocks[t] # None
      /\ r \in Displayed \cup {None}
  BY DEF FrameOK, Shaped, Frames
<1>2. CASE r = None
  BY <1>2 DEF Claim
<1>3. CASE r # None
  <2>1. /\ Resolved(p, r, f.known)
        /\ \A m \in Names \ DOMAIN f.known :
              p.inherited[r][m] = IF f.kind = "body" THEN p.inherited[t][m] ELSE None
    BY <1>3 DEF FrameOK, Rooted, Displays
  <2>2. r \in Templates
    BY <1>1, <1>3, InheritanceAssumption
  <2>3. /\ p.inherited[r][n] \in Handler \cup {None}
        /\ p.inherited[t][n] \in Handler \cup {None}
    BY <1>1, <2>2, ProgramType DEF Definitions
  <2>4. n \in DOMAIN f.known => p.inherited[r][n] = f.known[n] /\ f.known[n] # None
    BY <1>1, <2>1, NoneIsNoBlock DEF Resolved, Knows, Good
  <2> QED
    BY <1>3, <2>1, <2>3, <2>4 DEF Claim
<1> QED
  BY <1>2, <1>3

(* A frame that is called.                                                 *)
Opens(k, t, n, m, r, e, g) ==
    /\ k \in Kinds /\ t \in Templates /\ n \in Names \cup {None} /\ m \in BlockMap
    /\ r \in Displayed \cup {None} /\ e \in Handler \cup {None, Unclaimed}
    /\ \/ g = [Frame(k, t, n, m) EXCEPT !.root = r, !.expected = e]
       \/ r = None /\ g = [Frame(k, t, n, m) EXCEPT !.expected = e]
       \/ e = Unclaimed /\ g = [Frame(k, t, n, m) EXCEPT !.root = r]

Opened(k, t, n, m, r, e, g) ==
    /\ g \in Frames /\ g.kind = k /\ g.template = t /\ g.name = n
    /\ g.known = m /\ g.use = TRUE /\ g.code = << >>
    /\ g.root = r /\ g.expected = e

LEMMA FrameIs ==
    ASSUME NEW k, NEW t, NEW n, NEW m, NEW r, NEW e, NEW g, Opens(k, t, n, m, r, e, g)
    PROVE  Opened(k, t, n, m, r, e, g)
<1>1. << >> \in Seq(Instruction)
  <2>. HIDE DEF Instruction
  <2> QED
    OBVIOUS
<1>2. g = [kind |-> k, template |-> t, name |-> n, known |-> m, use |-> TRUE,
           code |-> << >>, root |-> r, expected |-> e]
  BY DEF Frame, Opens
<1>. HIDE DEF Instruction, Kinds, Handler, BlockMap
<1>3. /\ k \in Kinds /\ t \in Templates /\ n \in Names \cup {None} /\ m \in BlockMap
      /\ r \in Displayed \cup {None} /\ e \in Handler \cup {None, Unclaimed}
  BY DEF Opens
<1> QED
  BY <1>1, <1>2, <1>3 DEF Frames, Opened

(* block(n): the blocks that are known here are given to displayBlock.     *)
LEMMA ReferStep ==
    ASSUME NEW p, IsProgram(p), NEW f, FrameOK(p, f), f.kind \in {"body", "handler"},
           NEW n \in Names,
           NEW g, g = [Frame("block", f.template, n, f.known) EXCEPT
                          !.root = Below(p, f), !.expected = Claim(p, f, n)]
    PROVE  FrameOK(p, g) /\ g.kind = "block"
<1> DEFINE t == f.template
           r == Below(p, f)
<1>1. /\ f \in Frames /\ Knows(p, f.known) /\ f.known \in BlockMap
      /\ t \in Templates /\ p.blocks[t] # None /\ f.root \in Displayed \cup {None}
  BY DEF FrameOK, Shaped, Frames
<1>2. n # None
  BY NoneIsNoBlock
<1>3. Claim(p, f, n) \in Handler \cup {None, Unclaimed}
  BY ClaimIs
<1>4. Claim(p, f, n) # Unclaimed =>
         Claim(p, f, n) = IF n \in DOMAIN f.known THEN f.known[n] ELSE p.inherited[t][n]
  BY ClaimIs DEF Claim
<1>5. r # None => /\ Within(p, r, t) /\ Resolved(p, r, f.known)
                  /\ \A m \in Names \ DOMAIN f.known : p.inherited[r][m] = None
  <2>1. SUFFICES ASSUME r # None
                 PROVE  /\ Within(p, r, t) /\ Resolved(p, r, f.known)
                        /\ \A m \in Names \ DOMAIN f.known : p.inherited[r][m] = None
    OBVIOUS
  <2>2. r = f.root /\ (f.kind = "body" => p.library.parent[t] = None)
    BY <2>1 DEF Below
  <2>3. Within(p, r, t) /\ Resolved(p, r, f.known)
    BY <2>1, <2>2 DEF FrameOK, Rooted
  <2>4. CASE f.kind = "handler"
    BY <2>1, <2>2, <2>3, <2>4 DEF FrameOK, Rooted, Displays
  <2>5. CASE f.kind = "body"
    <3>1. /\ DOMAIN p.blocks[t] \subseteq DOMAIN f.known
          /\ \A m \in Names \ DOMAIN f.known : p.inherited[r][m] = p.inherited[t][m]
      BY <2>2, <2>5 DEF FrameOK, Rooted, Displays
    <3>2. \A m \in Names \ DOMAIN f.known : p.inherited[t][m] = None
      BY <1>1, <2>2, <2>5, <3>1, UsableInherits
    <3> QED
      BY <2>3, <3>1, <3>2
  <2> QED
    BY <2>4, <2>5
<1>6. r \in Displayed \cup {None}
  BY <1>1 DEF Below
<1>. HIDE DEF t, r
<1>7. /\ g \in Frames /\ g.kind = "block" /\ g.template = t /\ g.use = TRUE
      /\ g.name = n /\ g.known = f.known /\ g.root = r
      /\ g.expected = Claim(p, f, n)
  <2>1. Opens("block", t, n, f.known, r, Claim(p, f, n), g)
    BY <1>1, <1>3, <1>6 DEF Opens, Kinds, t, r
  <2>2. Opened("block", t, n, f.known, r, Claim(p, f, n), g)
    BY <2>1, FrameIs
  <2> QED
    BY <2>2 DEF Opened
<1>8. Shaped(p, g)
  BY <1>1, <1>2, <1>7 DEF Shaped, Displays
<1>9. Rooted(p, g)
  BY <1>5, <1>7 DEF Rooted, Displays
<1>10. Expects(p, g)
  BY <1>4, <1>7 DEF Expects, Displays, Finds
<1> QED
  BY <1>7, <1>8, <1>9, <1>10 DEF FrameOK

(* block(n) is defined: the same of hasBlock.                              *)
LEMMA TestStep ==
    ASSUME NEW p, IsProgram(p), NEW f, FrameOK(p, f), f.kind \in {"body", "handler"},
           NEW n \in Names,
           NEW g, g = [Frame("test", f.template, n, f.known) EXCEPT
                          !.expected = Claim(p, f, n)]
    PROVE  FrameOK(p, g) /\ g.kind = "test"
<1> DEFINE t == f.template
<1>1. /\ f \in Frames /\ Knows(p, f.known) /\ f.known \in BlockMap /\ t \in Templates
  BY DEF FrameOK, Shaped, Frames
<1>2. n # None
  BY NoneIsNoBlock
<1>3. Claim(p, f, n) \in Handler \cup {None, Unclaimed}
  BY ClaimIs
<1>4. Claim(p, f, n) # Unclaimed =>
         Claim(p, f, n) = IF n \in DOMAIN f.known THEN f.known[n] ELSE p.inherited[t][n]
  BY ClaimIs DEF Claim
<1>. HIDE DEF t
<1>5. /\ g \in Frames /\ g.kind = "test" /\ g.template = t /\ g.use = TRUE
      /\ g.name = n /\ g.known = f.known /\ g.root = None
      /\ g.expected = Claim(p, f, n)
  <2>1. Opens("test", t, n, f.known, None, Claim(p, f, n), g)
    BY <1>1, <1>3 DEF Opens, Kinds, t
  <2>2. Opened("test", t, n, f.known, None, Claim(p, f, n), g)
    BY <2>1, FrameIs
  <2> QED
    BY <2>2 DEF Opened
<1>6. Shaped(p, g)
  BY <1>1, <1>2, <1>5 DEF Shaped, Displays
<1>7. Rooted(p, g)
  BY <1>5 DEF Rooted, Displays
<1>8. Expects(p, g)
  BY <1>4, <1>5 DEF Expects, Displays, Finds
<1> QED
  BY <1>5, <1>6, <1>7, <1>8 DEF FrameOK

LEMMA KnowsNoBlocks ==
    ASSUME NEW p
    PROVE  Knows(p, NoBlocks) /\ NoBlocks \in BlockMap /\ DOMAIN NoBlocks = {}
<1>1. NoBlocks \in [{} -> Handler] /\ {} \in SUBSET Names
  BY DEF NoBlocks
<1> QED
  BY <1>1 DEF Knows, BlockMap

(* block(n, t): no block is given to t.                                    *)
LEMMA FromStep ==
    ASSUME NEW p, IsProgram(p), NEW t \in Templates, NEW n \in Names,
           NEW g, g = [Frame("block", t, n, NoBlocks) EXCEPT !.expected = p.inherited[t][n]]
    PROVE  FrameOK(p, g) /\ g.kind = "block"
<1>1. p.inherited[t][n] \in Handler \cup {None}
  BY ProgramType DEF Definitions
<1>2. n # None /\ Knows(p, NoBlocks) /\ NoBlocks \in BlockMap /\ DOMAIN NoBlocks = {}
  BY NoneIsNoBlock, KnowsNoBlocks
<1>3. /\ g \in Frames /\ g.kind = "block" /\ g.template = t
      /\ g.name = n /\ g.known = NoBlocks /\ g.root = None
      /\ g.expected = p.inherited[t][n]
  <2>1. Opens("block", t, n, NoBlocks, None, p.inherited[t][n], g)
    BY <1>1, <1>2 DEF Opens, Kinds
  <2>2. Opened("block", t, n, NoBlocks, None, p.inherited[t][n], g)
    BY <2>1, FrameIs
  <2> QED
    BY <2>2 DEF Opened
<1>4. Shaped(p, g)
  BY <1>2, <1>3 DEF Shaped, Displays
<1>5. Rooted(p, g)
  BY <1>3 DEF Rooted, Displays
<1>6. Expects(p, g)
  BY <1>2, <1>3 DEF Expects, Displays, Finds
<1> QED
  BY <1>3, <1>4, <1>5, <1>6 DEF FrameOK

(* {{ parent() }}.                                                         *)
LEMMA ParentCallStep ==
    ASSUME NEW p, IsProgram(p), NEW f, FrameOK(p, f), f.kind = "handler",
           NEW g, g = [Frame("parent", f.template, f.name, f.known) EXCEPT
                          !.root = f.root, !.expected = p.overridden[f.template][f.name]]
    PROVE  FrameOK(p, g) /\ g.kind = "parent"
<1> DEFINE t == f.template
<1>1. /\ f \in Frames /\ Knows(p, f.known) /\ f.known \in BlockMap
      /\ t \in Templates /\ p.blocks[t] # None /\ f.root \in Displayed \cup {None}
      /\ f.name \in Names /\ f.name # None
  BY DEF FrameOK, Shaped, Displays, Frames
<1>2. f.root # None =>
         /\ Within(p, f.root, t) /\ Resolved(p, f.root, f.known)
         /\ \A n \in Names \ DOMAIN f.known : p.inherited[f.root][n] = None
  BY DEF FrameOK, Rooted, Displays
<1>3. p.overridden[t][f.name] \in Handler \cup {None}
  BY <1>1, ProgramType DEF Definitions
<1>. HIDE DEF t
<1>4. /\ g \in Frames /\ g.kind = "parent" /\ g.template = t
      /\ g.name = f.name /\ g.known = f.known /\ g.root = f.root
      /\ g.expected = p.overridden[t][f.name]
  <2>1. Opens("parent", t, f.name, f.known, f.root, p.overridden[t][f.name], g)
    BY <1>1, <1>3 DEF Opens, Kinds, t
  <2>2. Opened("parent", t, f.name, f.known, f.root, p.overridden[t][f.name], g)
    BY <2>1, FrameIs
  <2> QED
    BY <2>2 DEF Opened
<1>5. Shaped(p, g)
  BY <1>1, <1>4 DEF Shaped, Displays
<1>6. Rooted(p, g)
  BY <1>2, <1>4 DEF Rooted, Displays
<1>7. Expects(p, g)
  BY <1>4 DEF Expects, Displays
<1> QED
  BY <1>4, <1>5, <1>6, <1>7 DEF FrameOK

(* parent() in an expression: the blocks are those of the template.        *)
LEMMA ParentTextStep ==
    ASSUME NEW p, IsProgram(p), NEW f, FrameOK(p, f), f.kind = "handler",
           NEW g, g = [Frame("parent", f.template, f.name, p.blocks[f.template])
                          EXCEPT !.expected = p.overridden[f.template][f.name]]
    PROVE  FrameOK(p, g) /\ g.kind = "parent"
<1> DEFINE t == f.template
           m == p.blocks[t]
<1>1. t \in Templates /\ m # None /\ f.name \in Names /\ f.name # None
  BY DEF FrameOK, Shaped, Displays, Frames
<1>2. p.overridden[t][f.name] \in Handler \cup {None} /\ m \in BlockMap
  BY <1>1, ProgramType DEF Definitions, MaybeBlocks
<1>3. Knows(p, m)
  BY <1>1, <1>2 DEF IsProgram, Usable, GoodMaps, Knows
<1>. HIDE DEF t, m
<1>4. /\ g \in Frames /\ g.kind = "parent" /\ g.template = t
      /\ g.name = f.name /\ g.known = m /\ g.root = None
      /\ g.expected = p.overridden[t][f.name]
  <2>1. Opens("parent", t, f.name, m, None, p.overridden[t][f.name], g)
    BY <1>1, <1>2 DEF Opens, Kinds, t, m
  <2>2. Opened("parent", t, f.name, m, None, p.overridden[t][f.name], g)
    BY <2>1, FrameIs
  <2> QED
    BY <2>2 DEF Opened
<1>5. Shaped(p, g)
  BY <1>1, <1>3, <1>4 DEF Shaped, Displays, m
<1>6. Rooted(p, g)
  BY <1>4 DEF Rooted, Displays
<1>7. Expects(p, g)
  BY <1>4 DEF Expects, Displays
<1> QED
  BY <1>4, <1>5, <1>6, <1>7 DEF FrameOK

-----------------------------------------------------------------------------
(* What a step makes of the stack. *)

(* The frames that wait for others.                                        *)
Waiting(p, s) ==
    /\ s \in Seq(Frames) /\ Len(s) <= MaxDepth
    /\ \A i \in DOMAIN s : FrameOK(p, s[i]) /\ (s[i].kind \in Displays <=> i = 1)

(* The display goes on with f, and rest waits for it.                      *)
Topped(p, s, f, rest) ==
    /\ s # << >> /\ f = Last(s) /\ rest = Front(s)
    /\ Waiting(p, rest) /\ Len(s) = Len(rest) + 1 /\ Len(rest) < MaxDepth
    /\ FrameOK(p, f) /\ (f.kind \in Displays <=> rest = << >>)

LEMMA StackedIs ==
    ASSUME NEW p, NEW s, NEW ended, Waiting(p, s), s # << >>,
           ended \in {"displaying", "failed", "unusable"},
           ended = "failed" => Last(s).expected \in {None, Unclaimed}
    PROVE  Stacked(p, s, ended)
BY DEF Waiting, Stacked

LEMMA FrontIs ==
    ASSUME NEW S, NEW s \in Seq(S), s # << >>
    PROVE  /\ Front(s) \in Seq(S) /\ Len(Front(s)) = Len(s) - 1 /\ Len(s) \in Nat \ {0}
           /\ DOMAIN Front(s) = 1 .. Len(s) - 1 /\ DOMAIN s = 1 .. Len(s)
           /\ \A i \in 1 .. Len(s) - 1 : Front(s)[i] = s[i]
<1>1. Len(s) \in Nat /\ Len(s) # 0 /\ DOMAIN s = 1 .. Len(s)
  OBVIOUS
<1>2. Front(s) = [i \in 1 .. Len(s) - 1 |-> s[i]]
  BY <1>1 DEF Front
<1>3. \A i \in 1 .. Len(s) - 1 : s[i] \in S
  BY <1>1
<1>4. Front(s) \in Seq(S) /\ Len(Front(s)) = Len(s) - 1
  BY <1>1, <1>2, <1>3
<1> QED
  BY <1>1, <1>2, <1>4

LEMMA TopIs ==
    ASSUME NEW p, NEW s, Stacked(p, s, "displaying")
    PROVE  Topped(p, s, Last(s), Front(s))
<1> DEFINE rest == Front(s)
<1>1. s \in Seq(Frames) /\ s # << >> /\ Len(s) <= MaxDepth
  BY DEF Stacked
<1>2. /\ rest \in Seq(Frames) /\ Len(rest) = Len(s) - 1 /\ Len(s) \in Nat \ {0}
      /\ DOMAIN rest = 1 .. Len(s) - 1 /\ DOMAIN s = 1 .. Len(s)
      /\ \A i \in 1 .. Len(s) - 1 : rest[i] = s[i]
  BY <1>1, FrontIs
<1>3. \A i \in 1 .. Len(s) : FrameOK(p, s[i]) /\ (s[i].kind \in Displays <=> i = 1)
  BY <1>2 DEF Stacked
<1>4. Last(s) = s[Len(s)]
  BY DEF Last
<1>5. MaxDepth \in Nat
  BY InheritanceAssumption
<1>. HIDE DEF rest, Frames, Displays
<1>6. Waiting(p, rest)
  BY <1>1, <1>2, <1>3, <1>5 DEF Waiting
<1>7. FrameOK(p, Last(s)) /\ (Last(s).kind \in Displays <=> rest = << >>)
  <2>1. rest = << >> <=> Len(s) = 1
    BY <1>2
  <2>2. Len(s) \in 1 .. Len(s)
    BY <1>2
  <2> QED
    BY <1>3, <1>4, <2>1, <2>2
<1>8. Len(s) = Len(rest) + 1 /\ Len(rest) < MaxDepth
  BY <1>1, <1>2, <1>5
<1> QED
  BY <1>1, <1>6, <1>7, <1>8 DEF Topped, rest

LEMMA AppendWaiting ==
    ASSUME NEW p, NEW rest, Waiting(p, rest), Len(rest) < MaxDepth,
           NEW g, FrameOK(p, g), g.kind \in Displays <=> rest = << >>
    PROVE  /\ Waiting(p, Append(rest, g)) /\ Append(rest, g) # << >>
           /\ Last(Append(rest, g)) = g /\ Len(Append(rest, g)) = Len(rest) + 1
<1> DEFINE s == Append(rest, g)
<1>1. rest \in Seq(Frames) /\ g \in Frames /\ MaxDepth \in Nat
  BY InheritanceAssumption DEF Waiting, FrameOK, Shaped
<1>2. /\ s \in Seq(Frames) /\ Len(s) = Len(rest) + 1 /\ Len(rest) \in Nat
      /\ DOMAIN s = 1 .. Len(rest) + 1 /\ s[Len(rest) + 1] = g
      /\ \A i \in 1 .. Len(rest) : s[i] = rest[i]
      /\ DOMAIN rest = 1 .. Len(rest)
  <2>. HIDE DEF Frames
  <2> QED
    BY <1>1
<1>3. rest = << >> <=> Len(rest) = 0
  BY <1>1
<1>. HIDE DEF s, Frames, Displays
<1>4. ASSUME NEW i \in 1 .. Len(rest) + 1
      PROVE  FrameOK(p, s[i]) /\ (s[i].kind \in Displays <=> i = 1)
  <2>1. CASE i = Len(rest) + 1
    BY <1>2, <1>3, <2>1
  <2>2. CASE i # Len(rest) + 1
    <3>1. i \in 1 .. Len(rest)
      BY <1>2, <2>2
    <3> QED
      BY <1>2, <3>1 DEF Waiting
  <2> QED
    BY <2>1, <2>2
<1>5. Waiting(p, s)
  BY <1>1, <1>2, <1>4 DEF Waiting
<1>6. s # << >> /\ Last(s) = g
  BY <1>2 DEF Last
<1> QED
  BY <1>2, <1>5, <1>6 DEF s

LEMMA WaitingFor ==
    ASSUME NEW p, NEW f, FrameOK(p, f), f.kind \in Displays
    PROVE  Waiting(p, <<f>>) /\ <<f>> # << >>
<1>. PICK rest : rest = << >>
  OBVIOUS
<1>1. Waiting(p, rest) /\ Len(rest) < MaxDepth
  BY InheritanceAssumption DEF Waiting
<1>2. f.kind \in Displays <=> rest = << >>
  OBVIOUS
<1>3. Waiting(p, Append(rest, f)) /\ Append(rest, f) # << >>
  BY <1>1, <1>2, AppendWaiting
<1>4. Append(rest, f) = <<f>>
  OBVIOUS
<1> QED
  BY <1>3, <1>4

(* A method goes on in the frame that it was called in.                    *)
LEMMA BecomesKeeps ==
    ASSUME NEW p, NEW s, NEW f, NEW rest, Topped(p, s, f, rest),
           NEW g, FrameOK(p, g), g.kind \in Displays <=> f.kind \in Displays
    PROVE  Stacked(p, Append(rest, g), "displaying")
<1>1. /\ Waiting(p, rest) /\ Len(rest) < MaxDepth
      /\ g.kind \in Displays <=> rest = << >>
  BY DEF Topped
<1>2. Waiting(p, Append(rest, g)) /\ Append(rest, g) # << >>
  BY <1>1, AppendWaiting
<1> QED
  BY <1>2, StackedIs

(* The code c goes on after g, which it calls.                             *)
LEMMA CallsKeeps ==
    ASSUME NEW p, NEW s, NEW f, NEW rest, Topped(p, s, f, rest), Len(s) < MaxDepth,
           NEW c, FrameOK(p, c), c.kind = f.kind,
           NEW g, FrameOK(p, g), g.kind \notin Displays
    PROVE  Stacked(p, Append(Append(rest, c), g), "displaying")
<1> DEFINE t == Append(rest, c)
<1>1. /\ Waiting(p, rest) /\ Len(rest) < MaxDepth /\ Len(s) = Len(rest) + 1
      /\ c.kind \in Displays <=> rest = << >>
  BY DEF Topped
<1>2. Waiting(p, t) /\ t # << >> /\ Len(t) = Len(rest) + 1
  BY <1>1, AppendWaiting
<1>3. Len(t) < MaxDepth
  BY <1>1, <1>2
<1>. HIDE DEF t
<1>4. Waiting(p, Append(t, g)) /\ Append(t, g) # << >>
  BY <1>2, <1>3, AppendWaiting
<1>5. Stacked(p, Append(t, g), "displaying")
  BY <1>4, StackedIs
<1> QED
  BY <1>5 DEF t

(* What is done is given back to the frame that waits for it; the display  *)
(* is done with the body that it has started with.                         *)
LEMMA PopKeeps ==
    ASSUME NEW p, NEW s, NEW f, NEW rest, Topped(p, s, f, rest)
    PROVE  Stacked(p, rest, IF f.kind \in Displays THEN "displayed" ELSE "displaying")
<1>1. Waiting(p, rest) /\ (f.kind \in Displays <=> rest = << >>)
  BY DEF Topped
<1>2. CASE f.kind \in Displays
  <2>1. rest = << >>
    BY <1>1, <1>2
  <2>2. Stacked(p, rest, "displayed")
    BY <1>1, <2>1 DEF Waiting, Stacked
  <2> QED
    BY <1>2, <2>2
<1>3. CASE f.kind \notin Displays
  <2>1. Stacked(p, rest, "displaying")
    BY <1>1, <1>3, StackedIs
  <2> QED
    BY <1>3, <2>1
<1> QED
  BY <1>2, <1>3

(* The display stops where it is.                                          *)
LEMMA StopKeeps ==
    ASSUME NEW p, NEW s, Stacked(p, s, "displaying"),
           NEW ended \in {"failed", "unusable"},
           ended = "failed" => Last(s).expected \in {None, Unclaimed}
    PROVE  Stacked(p, s, ended)
BY DEF Stacked

-----------------------------------------------------------------------------
(* Each action keeps the invariant. *)

(* A step of the display leaves the program as it is.                      *)
Displaying(p, f, rest) ==
    /\ p = Prog /\ f = Top /\ rest = Front(stack) /\ status = "displaying"
    /\ IsProgram(p) /\ Stacked(p, stack, "displaying") /\ Topped(p, stack, f, rest)
    /\ FrameOK(p, f)

LEMMA DisplayingIs ==
    ASSUME Inv, status = "displaying"
    PROVE  Displaying(Prog, Top, Front(stack))
<1>1. Stacked(Prog, stack, "displaying") /\ IsProgram(Prog)
  BY DEF Inv
<1>2. Topped(Prog, stack, Top, Front(stack))
  BY <1>1, TopIs DEF Top
<1>3. FrameOK(Prog, Top)
  BY <1>2 DEF Topped
<1> QED
  BY <1>1, <1>2, <1>3 DEF Displaying

LEMMA KeepsIs ==
    ASSUME Inv, UNCHANGED program, Stacked(Prog, stack', status')
    PROVE  Inv'
<1>1. Prog' = Prog
  BY DEF Prog, program
<1> QED
  BY <1>1 DEF Inv

LEMMA ReferKeeps ==
    ASSUME Inv, Refer
    PROVE  Inv'
<1>. PICK p : p = Prog
  OBVIOUS
<1>. PICK f : f = Top
  OBVIOUS
<1>. PICK rest : rest = Front(stack)
  OBVIOUS
<1>. PICK c : c = [f EXCEPT !.code = Tail(f.code)]
  OBVIOUS
<1>. PICK g : g = [Frame("block", f.template, Head(f.code).name, f.known) EXCEPT
                       !.root = Below(p, f), !.expected = Claim(p, f, Head(f.code).name)]
  OBVIOUS
<1>1. /\ status = "displaying" /\ UNCHANGED program
      /\ f.kind \in {"body", "handler"} /\ f.code # << >>
      /\ Head(f.code).op = "block" /\ Len(stack) < MaxDepth
  BY DEF Refer, Running, Calls
<1>2. stack' = Append(Append(rest, c), g) /\ status' = "displaying"
  BY <1>1 DEF Refer, Calls, Instr, Prog, RootBelow, Claimed, Referred, Parent, Below, Claim
<1>3. /\ IsProgram(p) /\ Topped(p, stack, f, rest) /\ FrameOK(p, f)
  BY <1>1, DisplayingIs DEF Displaying
<1>4. FrameOK(p, c) /\ c.kind = f.kind
  BY <1>1, <1>3, CodeStep
<1>5. Head(f.code).name \in Names
  <2>1. f.code \in Seq(Instruction)
    BY <1>3, FrameType DEF FrameOK, Shaped
  <2> QED
    BY <1>1, <2>1, InstructionType
<1>6. FrameOK(p, g) /\ g.kind \notin Displays
  BY <1>1, <1>3, <1>5, ReferStep DEF Displays
<1>7. Stacked(p, stack', status')
  BY <1>1, <1>2, <1>3, <1>4, <1>6, CallsKeeps
<1> QED
  BY <1>1, <1>7, KeepsIs

LEMMA ReferFromKeeps ==
    ASSUME Inv, ReferFrom
    PROVE  Inv'
<1>. PICK p : p = Prog
  OBVIOUS
<1>. PICK f : f = Top
  OBVIOUS
<1>. PICK rest : rest = Front(stack)
  OBVIOUS
<1>. PICK c : c = [f EXCEPT !.code = Tail(f.code)]
  OBVIOUS
<1>. PICK g : g = [Frame("block", Head(f.code).template, Head(f.code).name, NoBlocks) EXCEPT
                       !.expected = p.inherited[Head(f.code).template][Head(f.code).name]]
  OBVIOUS
<1>1. /\ status = "displaying" /\ UNCHANGED program
      /\ f.kind \in {"body", "handler"} /\ f.code # << >>
      /\ Head(f.code).op = "from" /\ Len(stack) < MaxDepth
  BY DEF ReferFrom, Running, Calls
<1>2. stack' = Append(Append(rest, c), g) /\ status' = "displaying"
  BY <1>1 DEF ReferFrom, Calls, Instr, Prog
<1>3. /\ IsProgram(p) /\ Topped(p, stack, f, rest) /\ FrameOK(p, f)
  BY <1>1, DisplayingIs DEF Displaying
<1>4. FrameOK(p, c) /\ c.kind = f.kind
  BY <1>1, <1>3, CodeStep
<1>5. Head(f.code).name \in Names /\ Head(f.code).template \in Templates
  <2>1. f.code \in Seq(Instruction)
    BY <1>3, FrameType DEF FrameOK, Shaped
  <2> QED
    BY <1>1, <2>1, InstructionType
<1>6. FrameOK(p, g) /\ g.kind \notin Displays
  BY <1>1, <1>3, <1>5, FromStep DEF Displays
<1>7. Stacked(p, stack', status')
  BY <1>1, <1>2, <1>3, <1>4, <1>6, CallsKeeps
<1> QED
  BY <1>1, <1>7, KeepsIs

LEMMA CallParentKeeps ==
    ASSUME Inv, CallParent
    PROVE  Inv'
<1>. PICK p : p = Prog
  OBVIOUS
<1>. PICK f : f = Top
  OBVIOUS
<1>. PICK rest : rest = Front(stack)
  OBVIOUS
<1>. PICK c : c = [f EXCEPT !.code = Tail(f.code)]
  OBVIOUS
<1>. PICK g : g = [Frame("parent", f.template, f.name, f.known) EXCEPT
                       !.root = f.root, !.expected = p.overridden[f.template][f.name]]
  OBVIOUS
<1>1. /\ status = "displaying" /\ UNCHANGED program
      /\ f.kind \in {"body", "handler"} /\ f.code # << >>
      /\ Head(f.code).op = "parent" /\ Len(stack) < MaxDepth
  BY DEF CallParent, Running, Calls
<1>2. stack' = Append(Append(rest, c), g) /\ status' = "displaying"
  BY <1>1 DEF CallParent, Calls, Instr, Prog
<1>3. /\ IsProgram(p) /\ Topped(p, stack, f, rest) /\ FrameOK(p, f)
  BY <1>1, DisplayingIs DEF Displaying
<1>4. FrameOK(p, c) /\ c.kind = f.kind
  BY <1>1, <1>3, CodeStep
<1>5. f.kind = "handler"
  <2>1. f.code \in Seq(Instruction)
    BY <1>3, FrameType DEF FrameOK, Shaped
  <2>2. f.kind = "body" => f.code \in Seq(Reference)
    BY <1>3 DEF FrameOK, Shaped
  <2> QED
    BY <1>1, <2>1, <2>2, InstructionType
<1>6. FrameOK(p, g) /\ g.kind \notin Displays
  BY <1>1, <1>3, <1>5, ParentCallStep DEF Displays
<1>7. Stacked(p, stack', status')
  BY <1>1, <1>2, <1>3, <1>4, <1>6, CallsKeeps
<1> QED
  BY <1>1, <1>7, KeepsIs

LEMMA RenderParentKeeps ==
    ASSUME Inv, RenderParent
    PROVE  Inv'
<1>. PICK p : p = Prog
  OBVIOUS
<1>. PICK f : f = Top
  OBVIOUS
<1>. PICK rest : rest = Front(stack)
  OBVIOUS
<1>. PICK c : c = [f EXCEPT !.code = Tail(f.code)]
  OBVIOUS
<1>. PICK g : g = [Frame("parent", f.template, f.name, p.blocks[f.template]) EXCEPT
                       !.expected = p.overridden[f.template][f.name]]
  OBVIOUS
<1>1. /\ status = "displaying" /\ UNCHANGED program
      /\ f.kind \in {"body", "handler"} /\ f.code # << >>
      /\ Head(f.code).op = "parentText" /\ Len(stack) < MaxDepth
  BY DEF RenderParent, Running, Calls
<1>2. stack' = Append(Append(rest, c), g) /\ status' = "displaying"
  BY <1>1 DEF RenderParent, Calls, Instr, Prog
<1>3. /\ IsProgram(p) /\ Topped(p, stack, f, rest) /\ FrameOK(p, f)
  BY <1>1, DisplayingIs DEF Displaying
<1>4. FrameOK(p, c) /\ c.kind = f.kind
  BY <1>1, <1>3, CodeStep
<1>5. f.kind = "handler"
  <2>1. f.code \in Seq(Instruction)
    BY <1>3, FrameType DEF FrameOK, Shaped
  <2>2. f.kind = "body" => f.code \in Seq(Reference)
    BY <1>3 DEF FrameOK, Shaped
  <2> QED
    BY <1>1, <2>1, <2>2, InstructionType
<1>6. FrameOK(p, g) /\ g.kind \notin Displays
  BY <1>1, <1>3, <1>5, ParentTextStep DEF Displays
<1>7. Stacked(p, stack', status')
  BY <1>1, <1>2, <1>3, <1>4, <1>6, CallsKeeps
<1> QED
  BY <1>1, <1>7, KeepsIs

LEMMA TestDefinedKeeps ==
    ASSUME Inv, TestDefined
    PROVE  Inv'
<1>. PICK p : p = Prog
  OBVIOUS
<1>. PICK f : f = Top
  OBVIOUS
<1>. PICK rest : rest = Front(stack)
  OBVIOUS
<1>. PICK c : c = [f EXCEPT !.code = Tail(f.code)]
  OBVIOUS
<1>. PICK g : g = [Frame("test", f.template, Head(f.code).name, f.known) EXCEPT
                       !.expected = Claim(p, f, Head(f.code).name)]
  OBVIOUS
<1>1. /\ status = "displaying" /\ UNCHANGED program
      /\ f.kind \in {"body", "handler"} /\ f.code # << >>
      /\ Head(f.code).op = "test" /\ Len(stack) < MaxDepth
  BY DEF TestDefined, Running, Calls
<1>2. stack' = Append(Append(rest, c), g) /\ status' = "displaying"
  BY <1>1 DEF TestDefined, Calls, Instr, Prog, Claimed, Referred, Claim
<1>3. /\ IsProgram(p) /\ Topped(p, stack, f, rest) /\ FrameOK(p, f)
  BY <1>1, DisplayingIs DEF Displaying
<1>4. FrameOK(p, c) /\ c.kind = f.kind
  BY <1>1, <1>3, CodeStep
<1>5. Head(f.code).name \in Names
  <2>1. f.code \in Seq(Instruction)
    BY <1>3, FrameType DEF FrameOK, Shaped
  <2> QED
    BY <1>1, <2>1, InstructionType
<1>6. FrameOK(p, g) /\ g.kind \notin Displays
  BY <1>1, <1>3, <1>5, TestStep DEF Displays
<1>7. Stacked(p, stack', status')
  BY <1>1, <1>2, <1>3, <1>4, <1>6, CallsKeeps
<1> QED
  BY <1>1, <1>7, KeepsIs

(* What a method makes of the frame that it runs in.                       *)
LEMMA FrameBecomes ==
    ASSUME Inv, status = "displaying", UNCHANGED program,
           NEW g, FrameOK(Prog, g), g.kind \in Displays <=> Top.kind \in Displays,
           stack' = Append(Front(stack), g), status' = "displaying"
    PROVE  Inv'
<1>1. Topped(Prog, stack, Top, Front(stack))
  BY DisplayingIs DEF Displaying
<1>2. Stacked(Prog, stack', status')
  BY <1>1, BecomesKeeps
<1> QED
  BY <1>2, KeepsIs

LEMMA DisplayStops ==
    ASSUME Inv, status = "displaying", UNCHANGED program, stack' = stack,
           \/ status' = "unusable"
           \/ status' = "failed" /\ Top.expected \in {None, Unclaimed}
    PROVE  Inv'
<1>1. Stacked(Prog, stack, "displaying")
  BY DisplayingIs DEF Displaying
<1>2. Stacked(Prog, stack', status')
  BY <1>1, StopKeeps DEF Top
<1> QED
  BY <1>2, KeepsIs

LEMMA DisplayReturns ==
    ASSUME Inv, status = "displaying", UNCHANGED program, stack' = Front(stack),
           status' = IF Top.kind \in Displays THEN "displayed" ELSE "displaying"
    PROVE  Inv'
<1>1. Topped(Prog, stack, Top, Front(stack))
  BY DisplayingIs DEF Displaying
<1>2. Stacked(Prog, stack', status')
  BY <1>1, PopKeeps
<1> QED
  BY <1>2, KeepsIs

LEMMA DisplayKeeps ==
    ASSUME Inv, Display
    PROVE  Inv'
<1>. PICK p : p = Prog
  OBVIOUS
<1>. PICK f : f = Top
  OBVIOUS
<1>. PICK g : g = [f EXCEPT !.kind = "body",
                            !.known = Merge(p.blocks[f.template], f.known),
                            !.code = p.library.body[f.template]]
  OBVIOUS
<1>1. status = "displaying" /\ f.kind = "display" /\ UNCHANGED program
  BY DEF Display, At
<1>2. IsProgram(p) /\ FrameOK(p, f)
  BY <1>1, DisplayingIs DEF Displaying
<1>3. CASE p.blocks[f.template] = None
  <2>1. status' = "unusable" /\ stack' = stack
    BY <1>3 DEF Display, Own, Prog
  <2> QED
    BY <1>1, <2>1, DisplayStops
<1>4. CASE p.blocks[f.template] # None
  <2>1. stack' = Append(Front(stack), g) /\ status' = "displaying"
    BY <1>1, <1>4 DEF Display, Own, Prog, Becomes
  <2>2. FrameOK(p, g) /\ g.kind = "body"
    BY <1>1, <1>2, <1>4, DisplayStep
  <2> QED
    BY <1>1, <2>1, <2>2, FrameBecomes DEF Displays
<1> QED
  BY <1>3, <1>4

LEMMA EndBodyKeeps ==
    ASSUME Inv, EndBody
    PROVE  Inv'
<1>. PICK p : p = Prog
  OBVIOUS
<1>. PICK f : f = Top
  OBVIOUS
<1>. PICK up : up = p.library.parent[f.template]
  OBVIOUS
<1>. PICK g : g = [f EXCEPT !.kind = "display", !.template = up,
                            !.known = Merge(p.blocks[f.template], f.known)]
  OBVIOUS
<1>1. status = "displaying" /\ f.kind = "body" /\ UNCHANGED program
  BY DEF EndBody, At
<1>2. IsProgram(p) /\ FrameOK(p, f)
  BY <1>1, DisplayingIs DEF Displaying
<1>3. CASE up = None
  <2>1. status' = "displayed" /\ stack' = Front(stack)
    BY <1>3 DEF EndBody, Parent, Prog
  <2> QED
    BY <1>1, <2>1, DisplayReturns DEF Displays
<1>4. CASE up # None
  <2>1. stack' = Append(Front(stack), g) /\ status' = "displaying"
    BY <1>1, <1>4 DEF EndBody, Own, Parent, Prog, Becomes
  <2>2. FrameOK(p, g) /\ g.kind = "display"
    BY <1>1, <1>2, <1>4, EndBodyStep
  <2> QED
    BY <1>1, <2>1, <2>2, FrameBecomes DEF Displays
<1> QED
  BY <1>3, <1>4

LEMMA EndHandlerKeeps ==
    ASSUME Inv, EndHandler
    PROVE  Inv'
<1>1. /\ status = "displaying" /\ Top.kind = "handler" /\ UNCHANGED program
      /\ stack' = Front(stack) /\ status' = "displaying"
  BY DEF EndHandler, At
<1> QED
  BY <1>1, DisplayReturns DEF Displays

LEMMA DisplayBlockKeeps ==
    ASSUME Inv, DisplayBlock
    PROVE  Inv'
<1>. PICK p : p = Prog
  OBVIOUS
<1>. PICK f : f = Top
  OBVIOUS
<1>. PICK h : h = FoundIn(p, f)
  OBVIOUS
<1>. PICK up : up = p.library.parent[f.template]
  OBVIOUS
<1>1. status = "displaying" /\ f.kind = "block" /\ UNCHANGED program
  BY DEF DisplayBlock, At
<1>2. IsProgram(p) /\ FrameOK(p, f) /\ f.use \in BOOLEAN
  BY <1>1, DisplayingIs, FrameType DEF Displaying, FrameOK, Shaped
<1>3. Found = h
  <2>1. f.use <=> f.use = TRUE
    BY <1>2
  <2> QED
    BY <2>1 DEF Found, FoundIn, Own, Prog
<1>4. CASE p.blocks[f.template] = None
  <2>1. status' = "unusable" /\ stack' = stack
    BY <1>4 DEF DisplayBlock, Own, Prog
  <2> QED
    BY <1>1, <2>1, DisplayStops
<1>5. CASE p.blocks[f.template] # None /\ h # None
  <2>. PICK g : g = Handled(p, f, h)
    OBVIOUS
  <2>1. stack' = Append(Front(stack), g) /\ status' = "displaying"
    BY <1>1, <1>3, <1>5 DEF DisplayBlock, Own, Code, Prog, Becomes, Handled
  <2>2. FrameOK(p, g) /\ g.kind = "handler"
    BY <1>1, <1>2, <1>5, HandlerStep
  <2> QED
    BY <1>1, <2>1, <2>2, FrameBecomes DEF Displays
<1>6. CASE p.blocks[f.template] # None /\ h = None /\ up # None
  <2>. PICK g : g = AskedUp(p, f, up)
    OBVIOUS
  <2>1. stack' = Append(Front(stack), g) /\ status' = "displaying"
    BY <1>1, <1>3, <1>6 DEF DisplayBlock, Own, Parent, Prog, Becomes, AskedUp
  <2>2. FrameOK(p, g) /\ g.kind = "block"
    BY <1>1, <1>2, <1>6, BlockUpStep
  <2> QED
    BY <1>1, <2>1, <2>2, FrameBecomes DEF Displays
<1>7. CASE p.blocks[f.template] # None /\ h = None /\ up = None
  <2>1. status' = "failed" /\ stack' = stack
    BY <1>1, <1>3, <1>7 DEF DisplayBlock, Own, Parent, Prog, Fails
  <2>2. f.expected \in {None, Unclaimed}
    BY <1>1, <1>2, <1>7, FailStep
  <2> QED
    BY <1>1, <2>1, <2>2, DisplayStops
<1> QED
  BY <1>4, <1>5, <1>6, <1>7

LEMMA DisplayParentBlockKeeps ==
    ASSUME Inv, DisplayParentBlock
    PROVE  Inv'
<1>. PICK p : p = Prog
  OBVIOUS
<1>. PICK f : f = Top
  OBVIOUS
<1>. PICK up : up = p.library.parent[f.template]
  OBVIOUS
<1>1. status = "displaying" /\ f.kind = "parent" /\ UNCHANGED program
  BY DEF DisplayParentBlock, At
<1>2. IsProgram(p) /\ FrameOK(p, f)
  BY <1>1, DisplayingIs DEF Displaying
<1>3. CASE f.name \in DOMAIN p.traits[f.template]
  <2>. PICK h : h = p.traits[f.template][f.name]
    OBVIOUS
  <2>. PICK g : g = ImportedBlock(f, h)
    OBVIOUS
  <2>1. stack' = Append(Front(stack), g) /\ status' = "displaying"
    BY <1>1, <1>3 DEF DisplayParentBlock, Prog, Becomes, ImportedBlock
  <2>2. FrameOK(p, g) /\ g.kind = "block"
    BY <1>1, <1>2, <1>3, ParentImportedStep
  <2> QED
    BY <1>1, <2>1, <2>2, FrameBecomes DEF Displays
<1>4. CASE f.name \notin DOMAIN p.traits[f.template] /\ up # None
  <2>. PICK g : g = ParentBlock(f, up)
    OBVIOUS
  <2>1. stack' = Append(Front(stack), g) /\ status' = "displaying"
    BY <1>1, <1>4 DEF DisplayParentBlock, Parent, Prog, Becomes, ParentBlock
  <2>2. FrameOK(p, g) /\ g.kind = "block"
    BY <1>1, <1>2, <1>4, ParentUpStep
  <2> QED
    BY <1>1, <2>1, <2>2, FrameBecomes DEF Displays
<1>5. CASE f.name \notin DOMAIN p.traits[f.template] /\ up = None
  <2>1. status' = "failed" /\ stack' = stack
    BY <1>1, <1>5 DEF DisplayParentBlock, Parent, Prog, Fails
  <2>2. f.expected \in {None, Unclaimed}
    BY <1>1, <1>2, <1>5, FailStep
  <2> QED
    BY <1>1, <2>1, <2>2, DisplayStops
<1> QED
  BY <1>3, <1>4, <1>5

LEMMA HasBlockKeeps ==
    ASSUME Inv, HasBlock
    PROVE  Inv'
<1>. PICK p : p = Prog
  OBVIOUS
<1>. PICK f : f = Top
  OBVIOUS
<1>. PICK up : up = p.library.parent[f.template]
  OBVIOUS
<1>. PICK yes : yes = Answered(f, "yes")
  OBVIOUS
<1>. PICK no : no = Answered(f, "no")
  OBVIOUS
<1>1. status = "displaying" /\ f.kind = "test" /\ UNCHANGED program
  BY DEF HasBlock, At
<1>2. IsProgram(p) /\ FrameOK(p, f)
  BY <1>1, DisplayingIs DEF Displaying
<1>3. CASE f.name \notin DOMAIN f.known /\ p.blocks[f.template] = None
  <2>1. status' = "unusable" /\ stack' = stack
    BY <1>3 DEF HasBlock, Own, Prog
  <2> QED
    BY <1>1, <2>1, DisplayStops
<1>4. CASE \/ f.name \in DOMAIN f.known
           \/ /\ f.name \notin DOMAIN f.known /\ p.blocks[f.template] # None
              /\ f.name \in DOMAIN p.blocks[f.template]
  <2>1. stack' = Append(Front(stack), yes) /\ status' = "displaying"
    BY <1>1, <1>4 DEF HasBlock, Own, Prog, Becomes, Answered
  <2>2. Answers(p, f, "yes")
    BY <1>4 DEF Answers
  <2>3. FrameOK(p, yes) /\ yes.kind = "yes"
    BY <1>1, <1>2, <2>2, AnswerStep
  <2> QED
    BY <1>1, <2>1, <2>3, FrameBecomes DEF Displays
<1>5. CASE /\ f.name \notin DOMAIN f.known /\ p.blocks[f.template] # None
           /\ f.name \notin DOMAIN p.blocks[f.template] /\ up = None
  <2>1. stack' = Append(Front(stack), no) /\ status' = "displaying"
    BY <1>1, <1>5 DEF HasBlock, Own, Parent, Prog, Becomes, Answered
  <2>2. Answers(p, f, "no")
    BY <1>5 DEF Answers
  <2>3. FrameOK(p, no) /\ no.kind = "no"
    BY <1>1, <1>2, <2>2, AnswerStep
  <2> QED
    BY <1>1, <2>1, <2>3, FrameBecomes DEF Displays
<1>6. CASE /\ f.name \notin DOMAIN f.known /\ p.blocks[f.template] # None
           /\ f.name \notin DOMAIN p.blocks[f.template] /\ up # None
  <2>. PICK g : g = TestUp(f, up)
    OBVIOUS
  <2>1. stack' = Append(Front(stack), g) /\ status' = "displaying"
    BY <1>1, <1>6 DEF HasBlock, Own, Parent, Prog, Becomes, TestUp
  <2>2. FrameOK(p, g) /\ g.kind = "test"
    BY <1>1, <1>2, <1>6, TestUpStep
  <2> QED
    BY <1>1, <2>1, <2>2, FrameBecomes DEF Displays
<1> QED
  BY <1>3, <1>4, <1>5, <1>6

LEMMA AnswerKeeps ==
    ASSUME Inv, Answer
    PROVE  Inv'
<1>1. /\ status = "displaying" /\ Top.kind \in {"yes", "no"} /\ UNCHANGED program
      /\ stack' = Front(stack) /\ status' = "displaying"
  BY DEF Answer
<1> QED
  BY <1>1, DisplayReturns DEF Displays

LEMMA NextKeeps == Inv /\ [Next]_vars => Inv'
<1>. SUFFICES ASSUME Inv, [Next]_vars PROVE Inv'
  OBVIOUS
<1>1. CASE Refer
  BY <1>1, ReferKeeps
<1>2. CASE ReferFrom
  BY <1>2, ReferFromKeeps
<1>3. CASE CallParent
  BY <1>3, CallParentKeeps
<1>4. CASE RenderParent
  BY <1>4, RenderParentKeeps
<1>5. CASE TestDefined
  BY <1>5, TestDefinedKeeps
<1>6. CASE Display
  BY <1>6, DisplayKeeps
<1>7. CASE EndBody
  BY <1>7, EndBodyKeeps
<1>8. CASE EndHandler
  BY <1>8, EndHandlerKeeps
<1>9. CASE DisplayBlock
  BY <1>9, DisplayBlockKeeps
<1>10. CASE DisplayParentBlock
  BY <1>10, DisplayParentBlockKeeps
<1>11. CASE HasBlock
  BY <1>11, HasBlockKeeps
<1>12. CASE Answer
  BY <1>12, AnswerKeeps
<1>13. CASE UNCHANGED vars
  <2>1. UNCHANGED program /\ stack' = stack /\ status' = status
    BY <1>13 DEF vars
  <2>2. Stacked(Prog, stack', status')
    BY <2>1 DEF Inv
  <2> QED
    BY <2>1, <2>2, KeepsIs
<1> QED
  BY <1>1, <1>2, <1>3, <1>4, <1>5, <1>6, <1>7, <1>8, <1>9, <1>10, <1>11, <1>12,
     <1>13 DEF Next

LEMMA InitInv == Init => Inv
<1>. SUFFICES ASSUME Init PROVE Inv
  OBVIOUS
<1>1. IsProgram(Prog)
  BY InitProgram
<1>. PICK p : p = Prog
  OBVIOUS
<1>2. PICK t \in Displayed :
         stack = <<[Frame("display", t, None, NoBlocks) EXCEPT !.root = t]>>
  BY DEF Init
<1>. PICK f : f = [Frame("display", t, None, NoBlocks) EXCEPT !.root = t]
  OBVIOUS
<1>3. stack = <<f>> /\ status = "displaying"
  BY <1>2 DEF Init
<1>4. t \in Templates /\ MaxDepth \in Nat \ {0}
  BY InheritanceAssumption
<1>5. t # None
  BY <1>4, NoneIsNoBlock, InheritanceAssumption
<1>6. /\ Knows(p, NoBlocks) /\ NoBlocks \in BlockMap /\ DOMAIN NoBlocks = {}
  BY KnowsNoBlocks
<1>7. /\ f \in Frames /\ f.kind = "display" /\ f.template = t /\ f.name = None
      /\ f.known = NoBlocks /\ f.root = t /\ f.expected = Unclaimed
  <2>1. Opens("display", t, None, NoBlocks, t, Unclaimed, f)
    BY <1>2, <1>4, <1>6 DEF Opens, Kinds
  <2>2. Opened("display", t, None, NoBlocks, t, Unclaimed, f)
    BY <2>1, FrameIs
  <2> QED
    BY <2>2 DEF Opened
<1>8. Shaped(p, f)
  BY <1>6, <1>7 DEF Shaped, Displays
<1>9. Rooted(p, f)
  BY <1>5, <1>6, <1>7 DEF Rooted, Displays, Covers, Within, Resolved
<1>10. Expects(p, f)
  BY <1>7 DEF Expects, Displays
<1>11. FrameOK(p, f) /\ f.kind \in Displays
  BY <1>7, <1>8, <1>9, <1>10 DEF FrameOK, Displays
<1>12. Waiting(p, stack) /\ stack # << >>
  BY <1>3, <1>11, WaitingFor
<1>13. Stacked(p, stack, status)
  BY <1>3, <1>12, StackedIs
<1> QED
  BY <1>1, <1>13 DEF Inv

-----------------------------------------------------------------------------
(* The theorems. *)

LEMMA FramesAre ==
    ASSUME Inv, NEW i \in DOMAIN stack
    PROVE  FrameOK(Prog, stack[i])
BY DEF Inv, Stacked

(* Whatever the templates of a program extend, use and display, the frames *)
(* have their types, and a display that goes on waits for something.       *)
THEOREM InheritanceTyped == Spec => []TypeOK
<1>1. Inv => TypeOK
  <2>. SUFFICES ASSUME Inv PROVE TypeOK
    OBVIOUS
  <2>1. /\ status \in {"displaying", "displayed", "failed", "unusable"}
        /\ Len(stack) <= MaxDepth /\ ((stack = << >>) <=> (status = "displayed"))
    BY DEF Inv, Stacked
  <2>2. ASSUME NEW i \in DOMAIN stack
        PROVE  LET f == stack[i]
               IN  /\ f.kind \in Kinds /\ f.template \in Templates
                   /\ f.name \in IF f.kind \in {"display", "body"} THEN {None} ELSE Names
                   /\ DOMAIN f.known \subseteq Names
                   /\ \A n \in DOMAIN f.known : f.known[n] \in Handler
                   /\ f.code \in Seq(Instruction) /\ f.use \in BOOLEAN
                   /\ f.root \in Displayed \cup {None}
                   /\ f.expected \in Handler \cup {None, Unclaimed}
    <3>. PICK f : f = stack[i]
      OBVIOUS
    <3>1. FrameOK(Prog, f)
      BY FramesAre
    <3>2. f \in Frames /\ (f.name = None <=> f.kind \in Displays)
      BY <3>1 DEF FrameOK, Shaped
    <3>3. /\ f.kind \in Kinds /\ f.template \in Templates
          /\ f.name \in Names \cup {None} /\ f.known \in BlockMap
          /\ f.code \in Seq(Instruction) /\ f.use \in BOOLEAN
          /\ f.root \in Displayed \cup {None}
          /\ f.expected \in Handler \cup {None, Unclaimed}
      BY <3>2, FrameType
    <3>4. DOMAIN f.known \subseteq Names /\ \A n \in DOMAIN f.known : f.known[n] \in Handler
      BY <3>3, MapOf
    <3>5. f.name \in IF f.kind \in {"display", "body"} THEN {None} ELSE Names
      BY <3>2, <3>3 DEF Displays
    <3> QED
      BY <3>3, <3>4, <3>5
  <2> QED
    BY <2>1, <2>2 DEF TypeOK
<1> QED
  BY InitInv, NextKeeps, <1>1, PTL DEF Spec

(* Every reference displays the definition that it stands for, through any *)
(* chain of parents, traits and aliases, and fails only if there is none   *)
(* (displayBlock, displayParentBlock).                                     *)
THEOREM DispatchFollowsInheritance == Spec => []DispatchIsRight
<1>1. Inv => DispatchIsRight
  <2>. SUFFICES ASSUME Inv PROVE DispatchIsRight
    OBVIOUS
  <2>1. ASSUME NEW i \in DOMAIN stack, stack[i].kind = "handler",
               stack[i].expected # Unclaimed
        PROVE  [template |-> stack[i].template, name |-> stack[i].name]
                  = stack[i].expected
    BY <2>1, FramesAre DEF FrameOK, Expects
  <2>2. status = "failed" => Top.expected \in {None, Unclaimed}
    BY DEF Inv, Stacked, Top
  <2> QED
    BY <2>1, <2>2 DEF DispatchIsRight
<1> QED
  BY InitInv, NextKeeps, <1>1, PTL DEF Spec

(* A test answers whether the reference would be displayed (hasBlock).     *)
THEOREM TestFollowsInheritance == Spec => []TestIsRight
<1>1. Inv => TestIsRight
  <2>. SUFFICES ASSUME Inv, NEW i \in DOMAIN stack, stack[i].kind \in {"yes", "no"},
                       stack[i].expected # Unclaimed
                PROVE  stack[i].kind = "yes" <=> stack[i].expected # None
    BY DEF TestIsRight
  <2> QED
    BY FramesAre DEF FrameOK, Expects
<1> QED
  BY InitInv, NextKeeps, <1>1, PTL DEF Spec

(* The blocks that a handler is given are the resolved inheritance of the  *)
(* template that is displayed.                                             *)
THEOREM KnownStaysResolved == Spec => []KnownIsResolved
<1>1. Inv => KnownIsResolved
  <2>. SUFFICES ASSUME Inv, NEW i \in DOMAIN stack, stack[i].kind = "handler",
                       stack[i].root # None, NEW n \in Names
                PROVE  IF n \in DOMAIN stack[i].known
                       THEN stack[i].known[n] = inherited[stack[i].root][n]
                       ELSE inherited[stack[i].root][n] = None
    BY DEF KnownIsResolved
  <2>. PICK f : f = stack[i]
    OBVIOUS
  <2>1. Rooted(Prog, f)
    BY FramesAre DEF FrameOK
  <2>2. /\ Resolved(Prog, f.root, f.known)
        /\ \A m \in Names \ DOMAIN f.known : Prog.inherited[f.root][m] = None
    BY <2>1 DEF Rooted, Displays
  <2> QED
    BY <2>2 DEF Resolved, Prog
<1> QED
  BY InitInv, NextKeeps, <1>1, PTL DEF Spec
=============================================================================
