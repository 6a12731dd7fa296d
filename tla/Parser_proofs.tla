--------------------------- MODULE Parser_proofs ---------------------------
(***************************************************************************)
(* Theorems about Parser: whatever constructs come in whatever order,      *)
(* however deep they are nested and whichever of them fail, the fields     *)
(* that the token parsers push and pop are those of the tags that are      *)
(* open, in the template being parsed and in those it is embedded in.      *)
(***************************************************************************)
EXTENDS Parser, SequenceTheorems, WellFoundedInduction, TLAPS

-----------------------------------------------------------------------------
(* The invariant *)

(* The names of the blocks without a body, and that they are those on the  *)
(* block stack, none of them twice.                                        *)
Empties(blocks) == {b \in DOMAIN blocks : blocks[b] = "empty"}

Opens(blocks, blockStack) ==
    Empties(blocks) = ToSet(blockStack) /\ IsInjective(blockStack)

(* The scopes were opened by these constructs, and what was imported in    *)
(* each was imported in the construct that opened it.                      *)
Placed(symbols, scopes) ==
    /\ Len(symbols) = Len(scopes)
    /\ \A k \in DOMAIN symbols : \A s \in DOMAIN symbols[k] : symbols[k][s].in = scopes[k]

(* The fields f of a template agree with the tags w that are open in it.   *)
Agree(f, w) ==
    /\ f.blockStack = w.blockStack
    /\ Opens(f.blocks, f.blockStack)
    /\ Placed(f.importedSymbols, w.scopes)

(* What the nested calls of parse() have on the stack is above what failed *)
(* calls left there; every template agrees with the tags that are open in  *)
(* it, and no embedded template has an index that is still to be given.    *)
ParserInv ==
    LET open == Nesting(pending)
    IN  /\ TypeOK
        /\ Len(stack) = left + Len(open)
        /\ \A n \in DOMAIN open :
             /\ Agree(FieldsOf(open, n), open[n])
             /\ ToSet(FieldsOf(open, n).embeddedTemplates)
                  \subseteq 1 .. embeddedTemplateIndex - 1
        /\ EmbeddedApart

-----------------------------------------------------------------------------
(* Nesting, the templates that are being parsed *)

(* A set of naturals that is not empty has a least element: the form in    *)
(* which the inductions below are done.                                    *)
LEMMA LeastNat ==
    ASSUME NEW T \in SUBSET Nat, T # {}
    PROVE  \E n \in T : \A m \in T : ~ (m < n)
<1>1. IsWellFoundedOn(OpToRel(<, Nat), Nat)
  BY NatLessThanWellFounded
<1>2. \E n \in T : \A m \in T : ~ (<<m, n>> \in OpToRel(<, Nat))
  BY <1>1, WFMin
<1> QED
  BY <1>2 DEF OpToRel

LEMMA FrontAndLast ==
    ASSUME NEW S, NEW s \in Seq(S), s # << >>
    PROVE  /\ Len(s) \in Nat \ {0} /\ Len(s) - 1 \in Nat
           /\ Front(s) \in Seq(S) /\ Len(Front(s)) = Len(s) - 1
           /\ \A i \in 1 .. Len(s) - 1 : Front(s)[i] = s[i]
           /\ Last(s) \in S /\ Last(s) = s[Len(s)]
<1>. DEFINE n == Len(s)
<1>1. n \in Nat \ {0} /\ n - 1 \in Nat /\ n - 1 \in Int /\ 1 \in Int
  OBVIOUS
<1>2. \A i \in 1 .. n : s[i] \in S
  OBVIOUS
<1>3. \A i \in 1 .. n - 1 : s[i] \in S
  BY <1>1, <1>2
<1>4. Last(s) = s[n] /\ s[n] \in S
  BY <1>1, <1>2 DEF Last
<1>5. Front(s) = SubSeq(s, 1, n - 1)
  BY DEF Front
<1>. HIDE DEF n
<1>6. /\ SubSeq(s, 1, n - 1) \in Seq(S)
      /\ Len(SubSeq(s, 1, n - 1)) = IF 1 <= n - 1 THEN n - 1 - 1 + 1 ELSE 0
      /\ \A i \in 1 .. n - 1 - 1 + 1 : SubSeq(s, 1, n - 1)[i] = s[1 + i - 1]
  BY <1>1, <1>3, SubSeqProperties
<1>7. /\ Len(Front(s)) = n - 1
      /\ \A i \in 1 .. n - 1 : Front(s)[i] = s[i]
  BY <1>1, <1>5, <1>6
<1> QED
  BY <1>1, <1>4, <1>5, <1>6, <1>7 DEF n

(* The function that Nesting computes, for the n outermost tags of hs.     *)
Entered(f, hs, n) ==
    f = [i \in 0 .. n |-> IF i = 0 THEN << >> ELSE Enter(f[i - 1], hs[i])]

LEMMA EnteredAt ==
    ASSUME NEW hs, NEW n \in Nat, NEW f, Entered(f, hs, n)
    PROVE  /\ f[0] = << >>
           /\ \A i \in 1 .. n : f[i] = Enter(f[i - 1], hs[i])
<1>1. f[0] = << >>
  BY DEF Entered
<1>2. ASSUME NEW i \in 1 .. n PROVE f[i] = Enter(f[i - 1], hs[i])
  <2>1. i \in 0 .. n /\ i # 0
    OBVIOUS
  <2> QED
    BY <2>1 DEF Entered
<1> QED
  BY <1>1, <1>2

LEMMA EnteredExists ==
    ASSUME NEW hs, NEW n \in Nat
    PROVE  \E f : Entered(f, hs, n)
<1>. DEFINE Without == {m \in 0 .. n : ~ \E f : Entered(f, hs, m)}
<1>1. CASE Without # {}
  <2>0. Without \in SUBSET Nat
    OBVIOUS
  <2>. HIDE DEF Without
  <2>1. PICK m \in Without : \A k \in Without : ~ (k < m)
    BY <1>1, <2>0, LeastNat
  <2>. USE DEF Without
  <2>2. m \in 0 .. n /\ ~ \E f : Entered(f, hs, m)
    OBVIOUS
  <2>3. m # 0
    <3>. DEFINE f == [i \in 0 .. 0 |-> << >>]
    <3>1. f = [i \in 0 .. 0 |-> IF i = 0 THEN << >> ELSE Enter(f[i - 1], hs[i])]
      OBVIOUS
    <3>2. Entered(f, hs, 0)
      BY <3>1 DEF Entered
    <3> QED
      BY <2>2, <3>2
  <2>4. PICK f : Entered(f, hs, m - 1)
    <3>1. m - 1 \in 0 .. n /\ m - 1 < m
      BY <2>2, <2>3
    <3> QED
      BY <2>1, <3>1
  <2>. DEFINE g == [i \in 0 .. m |-> IF i = m THEN Enter(f[m - 1], hs[m]) ELSE f[i]]
  <2>5. ASSUME NEW i \in 0 .. m
        PROVE  g[i] = IF i = 0 THEN << >> ELSE Enter(g[i - 1], hs[i])
    <3>1. f[0] = << >> /\ \A j \in 1 .. m - 1 : f[j] = Enter(f[j - 1], hs[j])
      <4>1. m - 1 \in Nat
        BY <2>2, <2>3
      <4> QED
        BY <2>4, <4>1, EnteredAt
    <3>2. CASE i = 0
      BY <2>2, <2>3, <3>1, <3>2
    <3>3. CASE i # 0
      <4>1. g[i - 1] = f[i - 1]
        BY <2>2, <3>3
      <4>2. CASE i = m
        BY <3>3, <4>1, <4>2
      <4>3. CASE i # m
        BY <3>1, <3>3, <4>1, <4>3, <2>2
      <4> QED
        BY <4>2, <4>3
    <3> QED
      BY <3>2, <3>3
  <2>6. Entered(g, hs, m)
    <3>1. g = [i \in 0 .. m |-> g[i]]
      OBVIOUS
    <3>2. [i \in 0 .. m |-> g[i]]
            = [i \in 0 .. m |-> IF i = 0 THEN << >> ELSE Enter(g[i - 1], hs[i])]
      <4>. HIDE DEF g
      <4> QED
        BY <2>5
    <3>. HIDE DEF g
    <3> QED
      BY <3>1, <3>2 DEF Entered
  <2> QED
    BY <2>2, <2>6
<1>2. CASE Without = {}
  <2>1. n \notin Without
    <3>. HIDE DEF Without
    <3> QED
      BY <1>2
  <2> QED
    BY <2>1
<1> QED
  BY <1>1, <1>2

LEMMA NestingEntered ==
    ASSUME NEW hs, Len(hs) \in Nat
    PROVE  \E f : Entered(f, hs, Len(hs)) /\ Nesting(hs) = f[Len(hs)]
<1>. DEFINE f == CHOOSE e : e = [i \in 0 .. Len(hs) |->
                                   IF i = 0 THEN << >> ELSE Enter(e[i - 1], hs[i])]
<1>1. Entered(f, hs, Len(hs))
  BY EnteredExists DEF Entered
<1>2. Nesting(hs) = f[Len(hs)]
  BY DEF Nesting
<1> QED
  BY <1>1, <1>2

(* Only the tag, the name and the number of a call matter, and what is     *)
(* open around a call does not depend on it.                               *)
Alike(h, g) == h.tag = g.tag /\ h.name = g.name /\ h.at = g.at

SameTags(hs, gs, n) == \A i \in 1 .. n : Alike(hs[i], gs[i])

LEMMA EnterAlike ==
    ASSUME NEW open, NEW h, NEW g, Alike(h, g)
    PROVE  Enter(open, h) = Enter(open, g)
BY DEF Enter, Began, Alike

LEMMA EnteredAlike ==
    ASSUME NEW hs, NEW gs, NEW n \in Nat, NEW m \in Nat, n <= m,
           SameTags(hs, gs, n),
           NEW f, NEW g, Entered(f, hs, n), Entered(g, gs, m)
    PROVE  \A i \in 0 .. n : f[i] = g[i]
<1>. DEFINE Apart == {i \in 0 .. n : f[i] # g[i]}
<1>1. CASE Apart # {}
  <2>0. Apart \in SUBSET Nat
    OBVIOUS
  <2>. HIDE DEF Apart
  <2>1. PICK k \in Apart : \A j \in Apart : ~ (j < k)
    BY <1>1, <2>0, LeastNat
  <2>. USE DEF Apart
  <2>2. k \in 0 .. n /\ f[k] # g[k]
    OBVIOUS
  <2>3. k # 0
    BY <2>2, EnteredAt
  <2>4. f[k] = Enter(f[k - 1], hs[k])
    BY <2>2, <2>3, EnteredAt
  <2>5. g[k] = Enter(g[k - 1], gs[k])
    <3>1. k \in 1 .. m
      BY <2>2, <2>3
    <3> QED
      BY <3>1, EnteredAt
  <2>6. f[k - 1] = g[k - 1]
    <3>1. k - 1 \in 0 .. n /\ k - 1 < k
      BY <2>2, <2>3
    <3> QED
      BY <2>1, <3>1
  <2>7. Alike(hs[k], gs[k])
    BY <2>2, <2>3 DEF SameTags
  <2> QED
    BY <2>2, <2>4, <2>5, <2>6, <2>7, EnterAlike
<1>2. CASE Apart = {}
  BY <1>2
<1> QED
  BY <1>1, <1>2

LEMMA NestingAlike ==
    ASSUME NEW hs, NEW gs, Len(hs) \in Nat, Len(gs) = Len(hs),
           SameTags(hs, gs, Len(hs))
    PROVE  Nesting(hs) = Nesting(gs)
<1>. DEFINE n == Len(hs)
<1>1. n \in Nat /\ n <= n /\ n \in 0 .. n
  OBVIOUS
<1>2. PICK f : Entered(f, hs, n) /\ Nesting(hs) = f[n]
  BY NestingEntered
<1>3. PICK g : Entered(g, gs, n) /\ Nesting(gs) = g[n]
  BY NestingEntered
<1>4. SameTags(hs, gs, n)
  OBVIOUS
<1>. HIDE DEF n
<1>5. \A i \in 0 .. n : f[i] = g[i]
  BY <1>1, <1>2, <1>3, <1>4, EnteredAlike
<1> QED
  BY <1>1, <1>2, <1>3, <1>5

LEMMA NestingEmpty == Nesting(<< >>) = << >>
<1>1. Len(<< >>) = 0
  OBVIOUS
<1>2. PICK f : Entered(f, << >>, 0) /\ Nesting(<< >>) = f[0]
  BY <1>1, NestingEntered
<1> QED
  BY <1>2, EnteredAt

LEMMA NestingFront ==
    ASSUME NEW S, NEW hs \in Seq(S), hs # << >>
    PROVE  Nesting(hs) = Enter(Nesting(Front(hs)), Last(hs))
<1>. DEFINE n == Len(hs)
            k == n - 1
            front == Front(hs)
<1>1. /\ n \in Nat \ {0} /\ k \in Nat /\ k <= n /\ k = n - 1
      /\ n \in 1 .. n /\ k \in 0 .. k
      /\ Len(front) = k
      /\ \A i \in 1 .. k : front[i] = hs[i]
      /\ Last(hs) = hs[n]
  <2>1. /\ Len(hs) \in Nat \ {0} /\ Len(hs) - 1 \in Nat
        /\ Len(Front(hs)) = Len(hs) - 1
        /\ \A i \in 1 .. Len(hs) - 1 : Front(hs)[i] = hs[i]
        /\ Last(hs) = hs[Len(hs)]
    BY FrontAndLast
  <2> QED
    BY <2>1
<1>2. PICK f : Entered(f, hs, n) /\ Nesting(hs) = f[n]
  BY <1>1, NestingEntered
<1>. HIDE DEF front, k
<1>3. PICK g : Entered(g, front, k) /\ Nesting(front) = g[k]
  BY <1>1, NestingEntered
<1>. HIDE DEF n
<1>4. f[n] = Enter(f[k], hs[n])
  BY <1>1, <1>2, EnteredAt
<1>5. g[k] = f[k]
  <2>1. SameTags(front, hs, k)
    BY <1>1 DEF SameTags, Alike
  <2>2. \A i \in 0 .. k : g[i] = f[i]
    BY <1>1, <1>2, <1>3, <2>1, EnteredAlike
  <2> QED
    BY <1>1, <2>2
<1> QED
  BY <1>1, <1>2, <1>3, <1>4, <1>5 DEF front

(* A template that is being parsed has scopes, the last one its own.       *)
Levels ==
    {w \in [at : Salts, blockStack : Seq(Names), scopes : Seq(Salts)] :
        w.scopes # << >> /\ Last(w.scopes) = w.at}

(* The calls in progress, as the type invariant has them.                  *)
WellNested(hs) ==
    /\ hs \in Seq(Calls)
    /\ \A i \in DOMAIN hs :
         /\ hs[i].tag = "template" <=> i = 1
         /\ hs[i].tag \in {"block", "macro"} => hs[i].name \in Names
         /\ hs[i].tag = "filter" => hs[i].name \in Salts

LEMMA BoundTypes == MaxTags \in Nat /\ Salts \in SUBSET Nat
BY ParserBounds DEF Salts

LEMMA BeganLevel ==
    ASSUME NEW h \in Calls
    PROVE  Began(h) \in Levels
<1>1. h.at \in Salts
  BY DEF Calls
<1>2. /\ <<h.at>> \in Seq(Salts) /\ Len(<<h.at>>) = 1
      /\ <<h.at>> # << >> /\ <<h.at>>[1] = h.at
  BY <1>1
<1>3. << >> \in Seq(Names)
  OBVIOUS
<1> QED
  BY <1>1, <1>2, <1>3 DEF Began, Levels, Last

(* The effect of each tag on the templates that are being parsed.          *)
LEMMA EnterTemplate ==
    ASSUME NEW open, NEW h, h.tag \in {"template", "embed"}
    PROVE  Enter(open, h) = Append(open, Began(h))
BY DEF Enter

LEMMA EnterOther ==
    ASSUME NEW open, NEW h, h.tag \notin {"template", "embed", "block", "macro"}
    PROVE  Enter(open, h) = open
BY DEF Enter

(* A block or a macro opens a scope in the innermost template.             *)
Opened(w, h) ==
    IF h.tag = "block"
    THEN [w EXCEPT !.blockStack = Append(@, h.name), !.scopes = <<h.at>> \o @]
    ELSE [w EXCEPT !.scopes = <<h.at>> \o @]

LEMMA OpenedFields ==
    ASSUME NEW w \in Levels, NEW h \in Calls, h.tag = "block" => h.name \in Names
    PROVE  /\ Opened(w, h) \in [at : Salts, blockStack : Seq(Names), scopes : Seq(Salts)]
           /\ Opened(w, h).at = w.at
           /\ Opened(w, h).blockStack =
                IF h.tag = "block" THEN Append(w.blockStack, h.name) ELSE w.blockStack
           /\ Opened(w, h).scopes = <<h.at>> \o w.scopes
<1>1. w \in [at : Salts, blockStack : Seq(Names), scopes : Seq(Salts)]
  BY DEF Levels
<1>2. <<h.at>> \o w.scopes \in Seq(Salts)
  <2>1. h.at \in Salts
    BY DEF Calls
  <2>2. <<h.at>> \in Seq(Salts) /\ w.scopes \in Seq(Salts)
    BY <1>1, <2>1
  <2> QED
    BY <2>2
<1>3. CASE h.tag = "block"
  <2>. DEFINE b == Append(w.blockStack, h.name)
              t == <<h.at>> \o w.scopes
              v == [w EXCEPT !.blockStack = b, !.scopes = t]
  <2>1. b \in Seq(Names)
    BY <1>1, <1>3
  <2>2. t \in Seq(Salts)
    BY <1>2
  <2>3. Opened(w, h) = v
    BY <1>3 DEF Opened
  <2>. HIDE DEF b, t
  <2>4. /\ v \in [at : Salts, blockStack : Seq(Names), scopes : Seq(Salts)]
        /\ v.at = w.at /\ v.blockStack = b /\ v.scopes = t
    BY <1>1, <2>1, <2>2
  <2> QED
    BY <1>3, <2>3, <2>4 DEF b, t
<1>4. CASE h.tag # "block"
  BY <1>1, <1>2, <1>4 DEF Opened
<1> QED
  BY <1>3, <1>4

LEMMA OpenedLevel ==
    ASSUME NEW w \in Levels, NEW h \in Calls, h.tag = "block" => h.name \in Names
    PROVE  Opened(w, h) \in Levels
<1>. DEFINE t == <<h.at>> \o w.scopes
            v == Opened(w, h)
<1>0. h.at \in Salts
  BY DEF Calls
<1>1. w.at \in Salts /\ w.scopes \in Seq(Salts) /\ w.scopes # << >> /\ Last(w.scopes) = w.at
  BY DEF Levels
<1>2. /\ t \in Seq(Salts) /\ Len(t) = Len(w.scopes) + 1 /\ Len(w.scopes) \in Nat \ {0}
      /\ \A i \in 1 .. Len(w.scopes) : t[i + 1] = w.scopes[i]
  BY <1>0, <1>1
<1>3. t # << >> /\ Last(t) = w.at
  BY <1>1, <1>2 DEF Last
<1>4. /\ v \in [at : Salts, blockStack : Seq(Names), scopes : Seq(Salts)]
      /\ v.at = w.at /\ v.scopes = t
  BY OpenedFields
<1>. HIDE DEF t, v
<1>5. v \in Levels
  BY <1>3, <1>4 DEF Levels
<1> QED
  BY <1>5 DEF v

LEMMA EnterScope ==
    ASSUME NEW open, NEW h, h.tag \in {"block", "macro"},
           NEW n, n = Len(open), n \in DOMAIN open
    PROVE  Enter(open, h) = [open EXCEPT ![n] = Opened(open[n], h)]
BY DEF Enter, Opened

LEMMA EnterLevels ==
    ASSUME NEW open \in Seq(Levels), NEW h \in Calls,
           h.tag = "template" \/ open # << >>,
           h.tag \in {"block", "macro"} => h.name \in Names
    PROVE  Enter(open, h) \in Seq(Levels) /\ Enter(open, h) # << >>
<1>1. CASE h.tag \in {"template", "embed"}
  <2>1. Began(h) \in Levels
    BY BeganLevel
  <2> QED
    BY <1>1, <2>1, EnterTemplate
<1>2. CASE h.tag \in {"block", "macro"}
  <2>. DEFINE n == Len(open)
              v == Opened(open[n], h)
  <2>0. open # << >>
    BY <1>2
  <2>1. n \in 1 .. n /\ open[n] \in Levels
    BY <2>0
  <2>2. v \in Levels
    BY <1>2, <2>1, OpenedLevel
  <2>3. Enter(open, h) = [open EXCEPT ![n] = v]
    BY <1>2, <2>1, EnterScope
  <2>. HIDE DEF v
  <2>4. [open EXCEPT ![n] = v] \in Seq(Levels) /\ Len([open EXCEPT ![n] = v]) = n
    BY <2>1, <2>2, ExceptSeq
  <2> QED
    BY <2>0, <2>3, <2>4
<1>3. CASE h.tag \notin {"template", "embed", "block", "macro"}
  BY <1>3, EnterOther
<1> QED
  BY <1>1, <1>2, <1>3

LEMMA FrontWellNested ==
    ASSUME NEW hs, WellNested(hs), hs # << >>
    PROVE  WellNested(Front(hs))
<1>1. hs \in Seq(Calls)
  BY DEF WellNested
<1>2. /\ Front(hs) \in Seq(Calls) /\ Len(Front(hs)) = Len(hs) - 1 /\ Len(hs) \in Nat
      /\ \A i \in 1 .. Len(hs) - 1 : Front(hs)[i] = hs[i]
  BY <1>1, FrontAndLast
<1>3. ASSUME NEW i \in DOMAIN Front(hs) PROVE i \in DOMAIN hs /\ Front(hs)[i] = hs[i]
  <2>1. i \in 1 .. Len(hs) - 1
    BY <1>2
  <2> QED
    BY <1>1, <1>2, <2>1
<1> QED
  BY <1>2, <1>3 DEF WellNested

LEMMA NestingLevels ==
    ASSUME NEW hs, WellNested(hs)
    PROVE  Nesting(hs) \in Seq(Levels) /\ (hs # << >> => Nesting(hs) # << >>)
<1>. DEFINE Fine(gs) == Nesting(gs) \in Seq(Levels) /\ (gs # << >> => Nesting(gs) # << >>)
            Wrong == {n \in Nat : \E gs : WellNested(gs) /\ Len(gs) = n /\ ~ Fine(gs)}
<1>1. CASE Wrong # {}
  <2>0. Wrong \in SUBSET Nat
    OBVIOUS
  <2>. HIDE DEF Wrong
  <2>1. PICK n \in Wrong : \A m \in Wrong : ~ (m < n)
    BY <1>1, <2>0, LeastNat
  <2>. USE DEF Wrong
  <2>. HIDE DEF Fine
  <2>2. PICK gs : WellNested(gs) /\ Len(gs) = n /\ ~ Fine(gs)
    OBVIOUS
  <2>3. gs \in Seq(Calls)
    BY <2>2 DEF WellNested
  <2>4. gs # << >>
    <3>1. Fine(<< >>)
      BY NestingEmpty, EmptySeq DEF Fine
    <3> QED
      BY <2>2, <3>1
  <2>5. /\ n \in Nat /\ Len(Front(gs)) = n - 1 /\ n - 1 \in Nat
        /\ Last(gs) = gs[n] /\ n \in DOMAIN gs /\ Last(gs) \in Calls
    BY <2>2, <2>3, <2>4, FrontAndLast
  <2>6. Fine(Front(gs))
    <3>1. WellNested(Front(gs))
      BY <2>2, <2>4, FrontWellNested
    <3>2. n - 1 \notin Wrong
      <4>. HIDE DEF Wrong
      <4> QED
        BY <2>0, <2>1, <2>5
    <3> QED
      BY <2>5, <3>1, <3>2
  <2>7. /\ Nesting(Front(gs)) \in Seq(Levels)
        /\ Front(gs) # << >> => Nesting(Front(gs)) # << >>
    BY <2>6 DEF Fine
  <2>8. /\ Last(gs).tag = "template" <=> n = 1
        /\ Last(gs).tag \in {"block", "macro"} => Last(gs).name \in Names
    BY <2>2, <2>5 DEF WellNested
  <2>9. Last(gs).tag = "template" \/ Nesting(Front(gs)) # << >>
    <3>1. n # 1 => Front(gs) # << >>
      BY <2>5
    <3> QED
      BY <2>7, <2>8, <3>1
  <2>10. Nesting(gs) = Enter(Nesting(Front(gs)), Last(gs))
    BY <2>3, <2>4, NestingFront
  <2>11. Fine(gs)
    BY <2>5, <2>7, <2>8, <2>9, <2>10, EnterLevels DEF Fine
  <2> QED
    BY <2>2, <2>11
<1>2. CASE Wrong = {}
  <2>1. Len(hs) \in Nat
    BY DEF WellNested
  <2>2. Len(hs) \notin Wrong
    <3>. HIDE DEF Wrong
    <3> QED
      BY <1>2
  <2>. HIDE DEF Fine
  <2>3. Fine(hs)
    BY <2>1, <2>2
  <2> QED
    BY <2>3 DEF Fine
<1> QED
  BY <1>1, <1>2

-----------------------------------------------------------------------------
(* The calls in progress *)

LEMMA ReplaceLast ==
    ASSUME NEW hs, WellNested(hs), hs # << >>, NEW h \in Calls, Alike(h, Last(hs)),
           NEW gs, gs = [hs EXCEPT ![Len(hs)] = h]
    PROVE  /\ WellNested(gs) /\ gs # << >> /\ Len(gs) = Len(hs) /\ Last(gs) = h
           /\ Nesting(gs) = Nesting(hs)
<1>. DEFINE n == Len(hs)
<1>1. hs \in Seq(Calls)
  BY DEF WellNested
<1>2. n \in Nat \ {0} /\ n \in 1 .. n /\ Last(hs) = hs[n]
  <2>1. Len(hs) \in Nat \ {0} /\ Last(hs) = hs[Len(hs)]
    BY <1>1, FrontAndLast
  <2> QED
    BY <2>1
<1>3. /\ gs \in Seq(Calls) /\ Len(gs) = n /\ gs # << >>
      /\ \A i \in 1 .. n : gs[i] = IF i = n THEN h ELSE hs[i]
  <2>. HIDE DEF n
  <2>1. gs = [hs EXCEPT ![n] = h] /\ n \in 1 .. Len(hs) /\ n = Len(hs)
    BY <1>2 DEF n
  <2>2. /\ gs \in Seq(Calls) /\ Len(gs) = n
        /\ \A i \in 1 .. n : gs[i] = IF i = n THEN h ELSE hs[i]
    BY <1>1, <2>1, ExceptSeq
  <2> QED
    BY <1>2, <2>2
<1>4. SameTags(hs, gs, n)
  <2>1. Alike(h, hs[n])
    BY <1>2
  <2> QED
    BY <1>2, <1>3, <2>1 DEF SameTags, Alike
<1>5. Nesting(gs) = Nesting(hs)
  <2>1. Len(hs) \in Nat /\ Len(gs) = Len(hs) /\ SameTags(hs, gs, Len(hs))
    BY <1>2, <1>3, <1>4
  <2> QED
    BY <2>1, NestingAlike
<1>6. WellNested(gs)
  <2>1. DOMAIN gs = 1 .. n /\ DOMAIN hs = 1 .. n
    BY <1>1, <1>3
  <2>2. \A i \in 1 .. n : gs[i].tag = hs[i].tag /\ gs[i].name = hs[i].name
    BY <1>4 DEF SameTags, Alike
  <2> QED
    BY <1>3, <2>1, <2>2 DEF WellNested
<1> QED
  BY <1>2, <1>3, <1>5, <1>6 DEF Last

LEMMA AddNodeNested ==
    ASSUME NEW hs, WellNested(hs), hs # << >>, NEW kind \in Kinds
    PROVE  /\ WellNested(AddNode(hs, kind)) /\ AddNode(hs, kind) # << >>
           /\ Nesting(AddNode(hs, kind)) = Nesting(hs)
<1>. DEFINE n == Len(hs)
            b == Last(hs).body \cup {kind}
            m == Last(hs).body # {}
            h == [Last(hs) EXCEPT !.body = b, !.many = m]
<1>1. hs \in Seq(Calls)
  BY DEF WellNested
<1>2. n \in Nat \ {0} /\ n \in 1 .. n /\ Last(hs) \in Calls /\ Last(hs) = hs[n]
  BY <1>1, FrontAndLast
<1>3. h \in Calls /\ Alike(h, Last(hs))
  <2>1. b \in SUBSET Kinds
    BY <1>2 DEF Calls
  <2>2. m \in BOOLEAN
    OBVIOUS
  <2>. HIDE DEF b, m
  <2> QED
    BY <1>2, <2>1, <2>2 DEF Calls, Alike
<1>4. AddNode(hs, kind) = [hs EXCEPT ![n] = h]
  <2>1. n \in DOMAIN hs
    BY <1>1, <1>2
  <2> QED
    BY <1>2, <2>1 DEF AddNode
<1>. HIDE DEF h
<1> QED
  BY <1>3, <1>4, ReplaceLast

LEMMA AppendNested ==
    ASSUME NEW hs, WellNested(hs), hs # << >>, NEW h \in Calls, h.tag # "template",
           h.tag \in {"block", "macro"} => h.name \in Names,
           h.tag = "filter" => h.name \in Salts
    PROVE  /\ WellNested(Append(hs, h)) /\ Append(hs, h) # << >>
           /\ Nesting(Append(hs, h)) = Enter(Nesting(hs), h)
<1>. DEFINE n == Len(hs)
            gs == Append(hs, h)
<1>1. hs \in Seq(Calls)
  BY DEF WellNested
<1>2. /\ n \in Nat \ {0} /\ DOMAIN hs = 1 .. n
  BY <1>1
<1>3. /\ gs \in Seq(Calls) /\ gs # << >> /\ Len(gs) = n + 1 /\ DOMAIN gs = 1 .. n + 1
      /\ \A i \in 1 .. n : gs[i] = hs[i]
      /\ gs[n + 1] = h
  BY <1>1
<1>. HIDE DEF gs
<1>4. Front(gs) = hs /\ Last(gs) = h
  <2>1. /\ Front(gs) \in Seq(Calls) /\ Len(Front(gs)) = Len(gs) - 1
        /\ \A i \in 1 .. Len(gs) - 1 : Front(gs)[i] = gs[i]
        /\ Last(gs) = gs[Len(gs)]
    BY <1>3, FrontAndLast
  <2>2. Len(Front(gs)) = Len(hs) /\ \A i \in 1 .. Len(hs) : Front(gs)[i] = hs[i]
    BY <1>2, <1>3, <2>1
  <2>3. Front(gs) = hs
    <3>. DEFINE fs == Front(gs)
    <3>1. fs \in Seq(Calls) /\ Len(fs) = Len(hs) /\ \A i \in 1 .. Len(fs) : fs[i] = hs[i]
      BY <2>1, <2>2
    <3>. HIDE DEF fs
    <3>2. fs = hs
      BY <1>1, <3>1, SeqEqual
    <3> QED
      BY <3>2 DEF fs
  <2> QED
    BY <1>3, <2>1, <2>3
<1>5. Nesting(gs) = Enter(Nesting(hs), h)
  BY <1>3, <1>4, NestingFront
<1>6. WellNested(gs)
  <2>1. ASSUME NEW i \in DOMAIN gs
        PROVE  /\ gs[i].tag = "template" <=> i = 1
               /\ gs[i].tag \in {"block", "macro"} => gs[i].name \in Names
               /\ gs[i].tag = "filter" => gs[i].name \in Salts
    <3>1. CASE i = n + 1
      BY <1>2, <1>3, <3>1
    <3>2. CASE i # n + 1
      BY <1>2, <1>3, <3>2 DEF WellNested
    <3> QED
      BY <3>1, <3>2
  <2> QED
    BY <1>3, <2>1 DEF WellNested
<1> QED
  BY <1>3, <1>5, <1>6 DEF gs

(* A tag that is closed is not the first one.                              *)
LEMMA InnerNested ==
    ASSUME NEW hs, WellNested(hs), hs # << >>, Last(hs).tag # "template"
    PROVE  /\ WellNested(Front(hs)) /\ Front(hs) # << >> /\ Last(hs) \in Calls
           /\ Nesting(hs) = Enter(Nesting(Front(hs)), Last(hs))
           /\ Nesting(Front(hs)) \in Seq(Levels) /\ Nesting(Front(hs)) # << >>
           /\ Last(hs).tag \in {"block", "macro"} => Last(hs).name \in Names
           /\ Last(hs).tag = "filter" => Last(hs).name \in Salts
<1>1. hs \in Seq(Calls)
  BY DEF WellNested
<1>2. /\ Len(hs) \in Nat \ {0} /\ Len(Front(hs)) = Len(hs) - 1
      /\ Last(hs) \in Calls /\ Last(hs) = hs[Len(hs)] /\ Len(hs) \in DOMAIN hs
  BY <1>1, FrontAndLast
<1>3. Len(hs) # 1
  BY <1>2 DEF WellNested
<1>4. WellNested(Front(hs)) /\ Front(hs) # << >>
  <2>1. WellNested(Front(hs))
    BY FrontWellNested
  <2>2. Front(hs) # << >>
    BY <1>2, <1>3
  <2> QED
    BY <2>1, <2>2
<1>5. Nesting(hs) = Enter(Nesting(Front(hs)), Last(hs))
  BY <1>1, NestingFront
<1>6. Nesting(Front(hs)) \in Seq(Levels) /\ Nesting(Front(hs)) # << >>
  BY <1>4, NestingLevels
<1>7. /\ Last(hs).tag \in {"block", "macro"} => Last(hs).name \in Names
      /\ Last(hs).tag = "filter" => Last(hs).name \in Salts
  BY <1>2 DEF WellNested
<1> QED
  BY <1>2, <1>4, <1>5, <1>6, <1>7

-----------------------------------------------------------------------------
(* The fields of a template *)

Blocks == Partial(Names \cup Salts, {"empty", "complete"})

LEMMA PartialAt ==
    ASSUME NEW K, NEW V, NEW f \in Partial(K, V)
    PROVE  /\ DOMAIN f \in SUBSET K /\ f \in [DOMAIN f -> V]
           /\ \A k \in DOMAIN f : f[k] \in V
BY DEF Partial

LEMMA PartialIs ==
    ASSUME NEW K, NEW V, NEW D \in SUBSET K, NEW f \in [D -> V]
    PROVE  f \in Partial(K, V)
BY DEF Partial

LEMMA PartialSet ==
    ASSUME NEW K, NEW V, NEW f \in Partial(K, V), NEW k \in K, NEW v \in V,
           NEW g, g = Put(f, k, v)
    PROVE  /\ g \in Partial(K, V) /\ DOMAIN g = DOMAIN f \cup {k}
           /\ \A j \in DOMAIN g : g[j] = IF j = k THEN v ELSE f[j]
<1>1. g = [j \in DOMAIN f \cup {k} |-> IF j = k THEN v ELSE f[j]]
  BY DEF Put
<1>2. \A j \in DOMAIN f : f[j] \in V
  BY PartialAt
<1>3. DOMAIN f \in SUBSET K
  BY PartialAt
<1>4. g \in [DOMAIN f \cup {k} -> V]
  BY <1>1, <1>2
<1>5. DOMAIN f \cup {k} \in SUBSET K
  BY <1>3
<1>6. g \in Partial(K, V)
  BY <1>4, <1>5, PartialIs
<1> QED
  BY <1>1, <1>6

LEMMA NothingPartial ==
    ASSUME NEW K, NEW V
    PROVE  << >> \in Partial(K, V) /\ DOMAIN << >> = {}
<1>1. DOMAIN << >> = {} /\ << >> \in [{} -> V]
  OBVIOUS
<1> QED
  BY <1>1, PartialIs

LEMMA BlockSet ==
    ASSUME NEW blocks \in Blocks, NEW name \in Names \cup Salts,
           NEW what \in {"empty", "complete"}, NEW g, g = setBlock(blocks, name, what)
    PROVE  /\ g \in Blocks
           /\ DOMAIN g = DOMAIN blocks \cup {name}
           /\ Empties(g) = IF what = "empty" THEN Empties(blocks) \cup {name}
                                             ELSE Empties(blocks) \ {name}
<1>1. g = Put(blocks, name, what)
  BY DEF setBlock
<1>2. /\ g \in Blocks
      /\ DOMAIN g = DOMAIN blocks \cup {name}
      /\ \A b \in DOMAIN g : g[b] = IF b = name THEN what ELSE blocks[b]
  BY <1>1, PartialSet DEF Blocks
<1>3. Empties(g) = IF what = "empty" THEN Empties(blocks) \cup {name}
                                     ELSE Empties(blocks) \ {name}
  BY <1>2 DEF Empties
<1> QED
  BY <1>2, <1>3

LEMMA OpensPush ==
    ASSUME NEW blocks \in Blocks, NEW stk \in Seq(Names), Opens(blocks, stk),
           NEW name \in Names, name \notin DOMAIN blocks,
           NEW g, g = setBlock(blocks, name, "empty")
    PROVE  Opens(g, Append(stk, name))
<1>. DEFINE n == Len(stk)
            t == Append(stk, name)
<1>1. Empties(g) = Empties(blocks) \cup {name}
  BY BlockSet
<1>2. /\ n \in Nat /\ DOMAIN stk = 1 .. n /\ DOMAIN t = 1 .. n + 1
      /\ \A i \in 1 .. n : t[i] = stk[i]
      /\ t[n + 1] = name
  OBVIOUS
<1>3. name \notin ToSet(stk)
  BY DEF Opens, Empties
<1>. HIDE DEF n, t
<1>4. \A i \in 1 .. n : stk[i] # name
  BY <1>2, <1>3 DEF ToSet
<1>5. ToSet(t) = ToSet(stk) \cup {name}
  <2>1. 1 .. n + 1 = (1 .. n) \cup {n + 1}
    BY <1>2
  <2> QED
    BY <1>2, <2>1 DEF ToSet
<1>6. IsInjective(t)
  <2>1. ASSUME NEW i \in 1 .. n + 1, NEW j \in 1 .. n + 1, t[i] = t[j] PROVE i = j
    <3>1. CASE i \in 1 .. n /\ j \in 1 .. n
      BY <1>2, <2>1, <3>1 DEF Opens, IsInjective
    <3>2. CASE i = n + 1 \/ j = n + 1
      BY <1>2, <1>4, <2>1, <3>2
    <3> QED
      BY <1>2, <3>1, <3>2
  <2> QED
    BY <1>2, <2>1 DEF IsInjective
<1> QED
  BY <1>1, <1>5, <1>6 DEF Opens, t

LEMMA OpensPop ==
    ASSUME NEW blocks \in Blocks, NEW stk \in Seq(Names), NEW name \in Names,
           Opens(blocks, Append(stk, name)),
           NEW g, g = setBlock(blocks, name, "complete")
    PROVE  Opens(g, stk)
<1>. DEFINE n == Len(stk)
            t == Append(stk, name)
<1>1. Empties(g) = Empties(blocks) \ {name}
  BY BlockSet
<1>2. /\ n \in Nat /\ DOMAIN stk = 1 .. n /\ DOMAIN t = 1 .. n + 1
      /\ \A i \in 1 .. n : t[i] = stk[i]
      /\ t[n + 1] = name
  OBVIOUS
<1>3. Empties(blocks) = ToSet(t) /\ IsInjective(t)
  BY DEF Opens
<1>. HIDE DEF n, t
<1>4. \A i \in 1 .. n : stk[i] # name
  <2>1. \A i \in 1 .. n : i # n + 1 /\ i \in 1 .. n + 1 /\ n + 1 \in 1 .. n + 1
    BY <1>2
  <2> QED
    BY <1>2, <1>3, <2>1 DEF IsInjective
<1>5. ToSet(t) = ToSet(stk) \cup {name} /\ name \notin ToSet(stk)
  <2>1. 1 .. n + 1 = (1 .. n) \cup {n + 1}
    BY <1>2
  <2> QED
    BY <1>2, <1>4, <2>1 DEF ToSet
<1>6. IsInjective(stk)
  <2>1. ASSUME NEW i \in 1 .. n, NEW j \in 1 .. n, stk[i] = stk[j] PROVE i = j
    <3>1. i \in 1 .. n + 1 /\ j \in 1 .. n + 1 /\ t[i] = t[j]
      BY <1>2, <2>1
    <3> QED
      BY <1>2, <1>3, <3>1 DEF IsInjective
  <2> QED
    BY <1>2, <2>1 DEF IsInjective
<1>7. Empties(g) = ToSet(stk)
  BY <1>1, <1>3, <1>5
<1> QED
  BY <1>6, <1>7 DEF Opens

LEMMA OpensComplete ==
    ASSUME NEW blocks \in Blocks, NEW stk, Opens(blocks, stk),
           NEW name \in Names \cup Salts, name \notin Empties(blocks),
           NEW g, g = setBlock(blocks, name, "complete")
    PROVE  Opens(g, stk)
<1>1. Empties(g) = Empties(blocks) \ {name}
  BY BlockSet
<1> QED
  BY <1>1 DEF Opens

LEMMA OneScopeMore ==
    ASSUME NEW S, NEW x \in S, NEW s \in Seq(S), NEW t, t = <<x>> \o s
    PROVE  /\ t \in Seq(S) /\ Len(t) = Len(s) + 1 /\ Len(s) \in Nat
           /\ DOMAIN t = 1 .. Len(s) + 1 /\ DOMAIN s = 1 .. Len(s)
           /\ t[1] = x /\ \A i \in 1 .. Len(s) : t[i + 1] = s[i]
           /\ Tail(t) = s
<1>1. /\ t \in Seq(S) /\ Len(t) = Len(s) + 1 /\ Len(s) \in Nat
      /\ DOMAIN t = 1 .. Len(s) + 1 /\ DOMAIN s = 1 .. Len(s)
      /\ t[1] = x /\ \A i \in 1 .. Len(s) : t[i + 1] = s[i]
  OBVIOUS
<1>2. Tail(t) = s
  <2>. DEFINE u == Tail(t)
  <2>0. t # << >>
    BY <1>1
  <2>1. u \in Seq(S) /\ Len(u) = Len(t) - 1 /\ \A i \in 1 .. Len(u) : u[i] = t[i + 1]
    BY <1>1, <2>0, HeadTailProperties
  <2>. HIDE DEF u
  <2>2. Len(u) = Len(s) /\ \A i \in 1 .. Len(u) : u[i] = s[i]
    BY <1>1, <2>1
  <2>3. u = s
    BY <2>1, <2>2, SeqEqual
  <2> QED
    BY <2>3 DEF u
<1> QED
  BY <1>1, <1>2

LEMMA NoSymbols == << >> \in Symbols /\ DOMAIN << >> = {}
BY NothingPartial DEF Symbols

LEMMA PlacedPush ==
    ASSUME NEW symbols \in Seq(Symbols), NEW scopes \in Seq(Salts), Placed(symbols, scopes),
           NEW x \in Salts, NEW g, g = PushScope(symbols)
    PROVE  g \in Seq(Symbols) /\ Placed(g, <<x>> \o scopes)
<1>. DEFINE t == <<x>> \o scopes
            n == Len(symbols)
            none == << >>
<1>1. none \in Symbols /\ DOMAIN none = {} /\ g = <<none>> \o symbols
  BY NoSymbols DEF PushScope
<1>. HIDE DEF none
<1>2. /\ g \in Seq(Symbols) /\ Len(g) = n + 1 /\ n \in Nat
      /\ DOMAIN g = 1 .. n + 1 /\ DOMAIN symbols = 1 .. n
      /\ g[1] = none /\ \A i \in 1 .. n : g[i + 1] = symbols[i]
  BY <1>1, OneScopeMore
<1>3. Len(t) = n + 1 /\ \A i \in 1 .. n : t[i + 1] = scopes[i]
  <2>1. Len(scopes) = n
    BY DEF Placed
  <2>2. Len(t) = Len(scopes) + 1 /\ \A i \in 1 .. Len(scopes) : t[i + 1] = scopes[i]
    BY OneScopeMore
  <2> QED
    BY <2>1, <2>2
<1>. HIDE DEF t, n
<1>4. ASSUME NEW k \in DOMAIN g, NEW s \in DOMAIN g[k] PROVE g[k][s].in = t[k]
  <2>1. CASE k = 1
    BY <1>1, <1>2, <1>4, <2>1
  <2>2. CASE k # 1
    <3>. DEFINE j == k - 1
    <3>1. j \in 1 .. n /\ k = j + 1
      BY <1>2, <1>4, <2>2
    <3>. HIDE DEF j
    <3>2. g[k] = symbols[j] /\ t[k] = scopes[j] /\ j \in DOMAIN symbols
      BY <1>2, <1>3, <3>1
    <3> QED
      BY <1>4, <3>2 DEF Placed
  <2> QED
    BY <2>1, <2>2
<1>5. Placed(g, t)
  BY <1>2, <1>3, <1>4 DEF Placed
<1> QED
  BY <1>2, <1>5 DEF t

LEMMA PlacedPop ==
    ASSUME NEW symbols \in Seq(Symbols), NEW scopes \in Seq(Salts), NEW x \in Salts,
           Placed(symbols, <<x>> \o scopes), NEW g, g = PopScope(symbols)
    PROVE  g \in Seq(Symbols) /\ Placed(g, scopes)
<1>. DEFINE t == <<x>> \o scopes
            n == Len(scopes)
<1>1. /\ n \in Nat /\ Len(t) = n + 1 /\ \A i \in 1 .. n : t[i + 1] = scopes[i]
  BY OneScopeMore
<1>2. Placed(symbols, t)
  OBVIOUS
<1>. HIDE DEF t, n
<1>3. Len(symbols) = n + 1 /\ symbols # << >>
  BY <1>1, <1>2 DEF Placed
<1>4. /\ g \in Seq(Symbols) /\ Len(g) = n /\ DOMAIN g = 1 .. n
      /\ DOMAIN symbols = 1 .. n + 1
      /\ \A i \in 1 .. n : g[i] = symbols[i + 1]
  <2>1. g = Tail(symbols)
    BY DEF PopScope
  <2>2. /\ g \in Seq(Symbols) /\ Len(g) = Len(symbols) - 1
        /\ \A i \in 1 .. Len(g) : g[i] = symbols[i + 1]
    BY <1>3, <2>1, HeadTailProperties
  <2> QED
    BY <1>1, <1>3, <2>2
<1>5. ASSUME NEW k \in DOMAIN g, NEW s \in DOMAIN g[k] PROVE g[k][s].in = scopes[k]
  <2>. DEFINE j == k + 1
  <2>1. g[k] = symbols[j] /\ t[j] = scopes[k] /\ j \in DOMAIN symbols
    BY <1>1, <1>4, <1>5
  <2>. HIDE DEF j
  <2> QED
    BY <1>2, <1>5, <2>1 DEF Placed
<1> QED
  BY <1>4, <1>5 DEF Placed, n

LEMMA SymbolPut ==
    ASSUME NEW f \in Symbols, NEW k \in Keys, NEW v \in Imported, NEW g, g = Put(f, k, v)
    PROVE  g \in Symbols
<1>1. f \in Partial(Keys, Imported)
  BY DEF Symbols
<1>2. DOMAIN f \in SUBSET Keys /\ \A j \in DOMAIN f : f[j] \in Imported
  BY <1>1, PartialAt
<1>3. DOMAIN f \cup {k} \in SUBSET Keys
  BY <1>2
<1>4. g \in [DOMAIN f \cup {k} -> Imported]
  BY <1>2 DEF Put
<1>5. g \in Partial(Keys, Imported)
  BY <1>3, <1>4, PartialIs
<1> QED
  BY <1>5 DEF Symbols

LEMMA PlacedPut ==
    ASSUME NEW symbols \in Seq(Symbols), NEW scopes \in Seq(Salts), scopes # << >>,
           Placed(symbols, scopes),
           NEW type \in {"template", "function"}, NEW alias \in Aliases,
           NEW name \in Aliases \cup Salts,
           NEW g, g = [symbols EXCEPT ![1] = Put(@, <<type, alias>>, [in |-> Head(scopes), name |-> name])]
    PROVE  g \in Seq(Symbols) /\ Placed(g, scopes)
<1>. DEFINE key == <<type, alias>>
            v == [in |-> scopes[1], name |-> name]
            first == symbols[1]
            p == Put(first, key, v)
            n == Len(symbols)
<1>1. n \in Nat \ {0} /\ 1 \in 1 .. n /\ DOMAIN symbols = 1 .. n /\ Len(scopes) = n
  BY DEF Placed
<1>2. first \in Symbols /\ scopes[1] \in Salts
  BY <1>1
<1>3. key \in Keys
  BY DEF Keys
<1>4. v \in Imported /\ v.in = scopes[1]
  BY <1>2 DEF Imported
<1>5. Head(scopes) = scopes[1]
  OBVIOUS
<1>6. g = [symbols EXCEPT ![1] = p]
  BY <1>1, <1>5
<1>. HIDE DEF key, v, first
<1>7. /\ p \in Symbols /\ DOMAIN p = DOMAIN first \cup {key}
      /\ \A j \in DOMAIN p : p[j] = IF j = key THEN v ELSE first[j]
  <2>1. p = Put(first, key, v)
    OBVIOUS
  <2>2. /\ DOMAIN p = DOMAIN first \cup {key}
        /\ \A j \in DOMAIN p : p[j] = IF j = key THEN v ELSE first[j]
    BY DEF Put
  <2>. HIDE DEF p
  <2>3. p \in Symbols
    BY <1>2, <1>3, <1>4, <2>1, SymbolPut
  <2> QED
    BY <2>2, <2>3
<1>. HIDE DEF p
<1>8. /\ g \in Seq(Symbols) /\ Len(g) = n /\ DOMAIN g = 1 .. n
      /\ \A i \in 1 .. n : g[i] = IF i = 1 THEN p ELSE symbols[i]
  <2>. HIDE DEF n
  <2>1. 1 \in 1 .. Len(symbols) /\ n = Len(symbols)
    BY <1>1 DEF n
  <2>2. /\ g \in Seq(Symbols) /\ Len(g) = n
        /\ \A i \in 1 .. n : g[i] = IF i = 1 THEN p ELSE symbols[i]
    <3>1. p \in Symbols
      BY <1>7
    <3>2. /\ [symbols EXCEPT ![1] = p] \in Seq(Symbols)
          /\ Len([symbols EXCEPT ![1] = p]) = Len(symbols)
          /\ \A i \in 1 .. Len(symbols) :
                [symbols EXCEPT ![1] = p][i] = IF i = 1 THEN p ELSE symbols[i]
      BY <2>1, <3>1, ExceptSeq
    <3> QED
      BY <1>6, <2>1, <3>2
  <2>3. DOMAIN g = 1 .. Len(g)
    BY <2>2, LenProperties
  <2> QED
    BY <2>2, <2>3
<1>. HIDE DEF n
<1>9. ASSUME NEW k \in DOMAIN g, NEW s \in DOMAIN g[k] PROVE g[k][s].in = scopes[k]
  <2>1. CASE k = 1
    <3>1. g[k] = p /\ s \in DOMAIN first \cup {key} /\ p[s] = IF s = key THEN v ELSE first[s]
      BY <1>7, <1>8, <1>9, <2>1
    <3>2. s \in DOMAIN first => first[s].in = scopes[1]
      BY <1>1 DEF Placed, first
    <3> QED
      BY <1>4, <2>1, <3>1, <3>2
  <2>2. CASE k # 1
    BY <1>1, <1>8, <1>9, <2>2 DEF Placed
  <2> QED
    BY <2>1, <2>2
<1> QED
  BY <1>1, <1>8, <1>9 DEF Placed

LEMMA FieldTypes ==
    ASSUME NEW f \in Fields
    PROVE  /\ f.parent \in BOOLEAN /\ f.blocks \in Blocks /\ f.blockStack \in Seq(Names)
           /\ f.macros \in SUBSET Names /\ f.importedSymbols \in Seq(Symbols)
           /\ f.traits \in Nat /\ f.embeddedTemplates \in Seq(Nat) /\ f.names \in Seq(Salts)
BY DEF Fields, Blocks

LEMMA FreshTyped == Fresh \in Fields
<1>1. << >> \in Blocks
  BY NothingPartial DEF Blocks
<1>2. << << >> >> \in Seq(Symbols)
  <2>. DEFINE none == << >>
  <2>1. none \in Symbols
    BY NoSymbols
  <2>. HIDE DEF none
  <2>2. <<none>> \in Seq(Symbols)
    BY <2>1
  <2> QED
    BY <2>2 DEF none
<1>3. << >> \in Seq(Names) /\ << >> \in Seq(Nat) /\ << >> \in Seq(Salts)
  OBVIOUS
<1>. DEFINE b == << >>
            i == << << >> >>
<1>4. Fresh = [parent |-> FALSE, blocks |-> b, blockStack |-> << >>, macros |-> {},
               importedSymbols |-> i, traits |-> 0, embeddedTemplates |-> << >>,
               names |-> << >>]
  BY DEF Fresh
<1>5. b \in Blocks /\ i \in Seq(Symbols)
  BY <1>1, <1>2
<1>. HIDE DEF b, i
<1> QED
  BY <1>3, <1>4, <1>5 DEF Fields, Blocks

LEMMA IncludesItself ==
    ASSUME NEW f, NEW g, g.parent = f.parent \/ g.parent = TRUE,
           DOMAIN f.blocks \subseteq DOMAIN g.blocks, f.macros \subseteq g.macros,
           f.traits <= g.traits, g.embeddedTemplates = f.embeddedTemplates,
           f.embeddedTemplates \in Seq(Nat)
    PROVE  Includes(f, g)
<1>1. Len(f.embeddedTemplates) \in Nat
  OBVIOUS
<1>2. IsPrefix(f.embeddedTemplates, g.embeddedTemplates)
  BY <1>1 DEF IsPrefix
<1> QED
  BY <1>2 DEF Includes

-----------------------------------------------------------------------------
(* The effect of the tags on the calls in progress *)

(* Where the parser is when it is in a template.                           *)
LEMMA InTemplate ==
    ASSUME TypeOK, Parsing
    PROVE  /\ WellNested(pending) /\ pending # << >>
           /\ Nesting(pending) \in Seq(Levels) /\ Nesting(pending) # << >>
<1>1. WellNested(pending) /\ pending # << >>
  BY DEF TypeOK, WellNested, Parsing
<1> QED
  BY <1>1, NestingLevels

LEMMA NextTag ==
    ASSUME TypeOK, More
    PROVE  /\ Parsing /\ tags \in Nat /\ tags + 1 \in Salts
           /\ varNameSalt \in Salts /\ varNameSalt \in Nat
           /\ varNameSalt \in 0 .. tags + 1 /\ varNameSalt + 1 \in 0 .. tags + 1
BY BoundTypes DEF TypeOK, More, Salts

LEMMA CallTyped ==
    ASSUME TypeOK, More, NEW tag \in Tags, NEW name \in Names \cup Salts \cup {NoName}
    PROVE  /\ Call(tag, name) \in Calls
           /\ Call(tag, name).tag = tag /\ Call(tag, name).name = name
<1>1. tags + 1 \in Salts
  BY NextTag
<1>2. {} \in SUBSET Kinds /\ FALSE \in BOOLEAN
  OBVIOUS
<1> QED
  BY <1>1, <1>2 DEF Call, Calls

(* A tag that opens no template, block or macro changes nothing to what is *)
(* open, nor does its end.                                                 *)
LEMMA OtherAdded ==
    ASSUME TypeOK, Parsing, NEW kind \in Kinds, pending' = AddNode(pending, kind)
    PROVE  WellNested(pending') /\ Nesting(pending') = Nesting(pending)
BY InTemplate, AddNodeNested

LEMMA OtherOpened ==
    ASSUME TypeOK, NEW tag \in Tags \ {"template", "embed", "block", "macro"},
           NEW name \in Names \cup Salts \cup {NoName}, tag = "filter" => name \in Salts,
           Open(Call(tag, name))
    PROVE  /\ WellNested(pending') /\ Nesting(pending') = Nesting(pending)
           /\ Parsing /\ More /\ tags' = tags + 1
<1>. DEFINE h == Call(tag, name)
<1>1. More /\ pending' = Append(pending, h) /\ tags' = tags + 1
  BY DEF Open
<1>2. h \in Calls /\ h.tag = tag /\ h.name = name
  BY <1>1, CallTyped
<1>. HIDE DEF h
<1>3. Parsing
  BY <1>1 DEF More
<1>4. WellNested(pending') /\ Nesting(pending') = Enter(Nesting(pending), h)
  BY <1>1, <1>2, <1>3, InTemplate, AppendNested
<1> QED
  BY <1>1, <1>2, <1>3, <1>4, EnterOther

LEMMA OtherClosed ==
    ASSUME TypeOK, Parsing, Current.tag \notin {"template", "embed", "block", "macro"},
           NEW kind \in Kinds, Close(pending, kind)
    PROVE  /\ WellNested(pending') /\ Nesting(pending') = Nesting(pending)
           /\ Current.tag = "filter" => Current.name \in Salts
<1>. DEFINE front == Front(pending)
            h == Last(pending)
<1>1. pending' = AddNode(front, kind) /\ h.tag \notin {"template", "embed", "block", "macro"}
  BY DEF Close, Current
<1>2. /\ WellNested(front) /\ front # << >>
      /\ Nesting(pending) = Enter(Nesting(front), h)
      /\ h.tag = "filter" => h.name \in Salts
  BY <1>1, InTemplate, InnerNested
<1>. HIDE DEF front, h
<1>3. WellNested(pending') /\ Nesting(pending') = Nesting(front)
  BY <1>1, <1>2, AddNodeNested
<1>4. Nesting(pending) = Nesting(front)
  BY <1>1, <1>2, EnterOther
<1> QED
  BY <1>2, <1>3, <1>4 DEF h, Current

-----------------------------------------------------------------------------
(* The templates that are being parsed, before and after a step *)

(* FieldsOf, the invariant without the types and what no step forgets, of  *)
(* the values st, stk, l and x of state, stack, left and                   *)
(* embeddedTemplateIndex when these templates are open.                    *)
FieldsAt(st, stk, l, open, n) == IF n = Len(open) THEN st ELSE stk[l + n + 1]

Numbered(e, x) == ToSet(e) \subseteq 1 .. x - 1 /\ IsInjective(e)

Levelled(st, stk, l, x, open) ==
    /\ Len(stk) = l + Len(open)
    /\ \A n \in DOMAIN open :
         LET f == FieldsAt(st, stk, l, open, n)
         IN  /\ Agree(f, open[n])
             /\ Numbered(f.embeddedTemplates, x)
             /\ \A m \in DOMAIN open \ {n} :
                  ToSet(f.embeddedTemplates)
                    \cap ToSet(FieldsAt(st, stk, l, open, m).embeddedTemplates) = {}

Grows(st, stk, l, open, st2, stk2, l2, open2) ==
    \A n \in DOMAIN open \cap DOMAIN open2 :
      Includes(FieldsAt(st, stk, l, open, n), FieldsAt(st2, stk2, l2, open2, n))

LevelsInv == Levelled(state, stack, left, embeddedTemplateIndex, Nesting(pending))

Accumulates ==
    Grows(state, stack, left, Nesting(pending), state', stack', left', Nesting(pending'))

LEMMA InvLevels == ParserInv <=> TypeOK /\ LevelsInv
<1>. DEFINE open == Nesting(pending)
            e(n) == FieldsOf(open, n).embeddedTemplates
<1>1. ASSUME NEW n, ToSet(e(n)) \subseteq 1 .. embeddedTemplateIndex - 1
      PROVE  0 \notin ToSet(e(n))
  BY <1>1
<1>2. \A n : FieldsOf(open, n) = FieldsAt(state, stack, left, open, n)
  BY DEF FieldsOf, FieldsAt
<1>3. ParserInv => TypeOK /\ LevelsInv
  BY <1>2 DEF ParserInv, LevelsInv, Levelled, Numbered, EmbeddedApart
<1>4. TypeOK /\ LevelsInv => ParserInv
  <2>. SUFFICES ASSUME TypeOK, LevelsInv PROVE ParserInv
    OBVIOUS
  <2>1. \A n \in DOMAIN open : ToSet(e(n)) \subseteq 1 .. embeddedTemplateIndex - 1
    BY <1>2 DEF LevelsInv, Levelled, Numbered
  <2>2. EmbeddedApart
    <3>1. \A n \in DOMAIN open : 0 \notin ToSet(e(n))
      BY <1>1, <2>1
    <3> QED
      BY <1>2, <3>1 DEF EmbeddedApart, LevelsInv, Levelled, Numbered
  <2> QED
    BY <1>2, <2>1, <2>2 DEF ParserInv, LevelsInv, Levelled
<1> QED
  BY <1>3, <1>4

LEMMA IncludesReflexive ==
    ASSUME NEW f \in Fields
    PROVE  Includes(f, f)
<1>1. f.traits \in Nat /\ f.embeddedTemplates \in Seq(Nat)
  BY FieldTypes
<1>2. f.traits <= f.traits
  BY <1>1
<1> QED
  BY <1>1, <1>2, IncludesItself

(* A step that changes nothing to the enclosing templates.                 *)
LEMMA TopKeepsLevels ==
    ASSUME NEW st, NEW st2, NEW stk \in Seq(Fields), NEW l \in Nat, NEW x,
           NEW open \in Seq(Levels), open # << >>,
           NEW next \in Seq(Levels), Len(next) = Len(open),
           \A m \in 1 .. Len(open) - 1 : next[m] = open[m],
           Levelled(st, stk, l, x, open),
           Agree(st2, Last(next)), st2.embeddedTemplates = st.embeddedTemplates,
           Includes(st, st2)
    PROVE  Levelled(st2, stk, l, x, next) /\ Grows(st, stk, l, open, st2, stk, l, next)
<1>. DEFINE n == Len(open)
            f(m) == FieldsAt(st, stk, l, open, m)
            g(m) == FieldsAt(st2, stk, l, next, m)
<1>1. /\ n \in Nat \ {0} /\ DOMAIN open = 1 .. n /\ DOMAIN next = 1 .. n /\ Len(next) = n
      /\ Last(next) = next[n]
  BY DEF Last
<1>2. Len(stk) = l + n
  BY DEF Levelled
<1>3. ASSUME NEW m \in 1 .. n
      PROVE  /\ Agree(f(m), open[m])
             /\ Numbered(f(m).embeddedTemplates, x)
             /\ \A k \in (1 .. n) \ {m} :
                  ToSet(f(m).embeddedTemplates) \cap ToSet(f(k).embeddedTemplates) = {}
  BY <1>1 DEF Levelled
<1>4. f(n) = st /\ g(n) = st2
  BY <1>1 DEF FieldsAt
<1>5. \A m \in (1 .. n) \ {n} : f(m) = stk[l + m + 1] /\ g(m) = stk[l + m + 1]
  BY <1>1 DEF FieldsAt
<1>6. ASSUME NEW m \in (1 .. n) \ {n}
      PROVE  stk[l + m + 1] \in Fields /\ next[m] = open[m]
  <2>1. m \in 1 .. n - 1
    <3>. HIDE DEF n
    <3> QED
      BY <1>1, <1>6
  <2>2. next[m] = open[m]
    BY <2>1
  <2>. DEFINE k == l + m + 1
  <2>3. k \in 1 .. Len(stk)
    <3>. HIDE DEF n
    <3> QED
      BY <1>1, <1>2, <2>1
  <2>. HIDE DEF k
  <2>4. stk[k] \in Fields
    BY <2>3, ElementOfSeq
  <2> QED
    BY <2>2, <2>4 DEF k
<1>. HIDE DEF n, f, g
<1>7. ASSUME NEW m \in 1 .. n
      PROVE  /\ g(m).embeddedTemplates = f(m).embeddedTemplates
             /\ Agree(g(m), next[m])
             /\ Includes(f(m), g(m))
  <2>1. CASE m = n
    BY <1>1, <1>4, <2>1
  <2>2. CASE m # n
    BY <1>3, <1>5, <1>6, <2>2, IncludesReflexive
  <2> QED
    BY <2>1, <2>2
<1>8. Levelled(st2, stk, l, x, next)
  <2>1. ASSUME NEW m \in 1 .. n
        PROVE  /\ Agree(g(m), next[m])
               /\ Numbered(g(m).embeddedTemplates, x)
               /\ \A k \in (1 .. n) \ {m} :
                    ToSet(g(m).embeddedTemplates) \cap ToSet(g(k).embeddedTemplates) = {}
    BY <1>3, <1>7
  <2> QED
    BY <1>1, <1>2, <2>1 DEF Levelled, g
<1>9. Grows(st, stk, l, open, st2, stk, l, next)
  BY <1>1, <1>7 DEF Grows, f, g
<1> QED
  BY <1>8, <1>9

-----------------------------------------------------------------------------
(* The steps in the innermost template *)

Kept == TypeOK' /\ LevelsInv' /\ Accumulates

LEMMA TopAgrees ==
    ASSUME TypeOK, LevelsInv, Parsing
    PROVE  /\ state \in Fields /\ Last(Nesting(pending)) \in Levels
           /\ Agree(state, Last(Nesting(pending)))
<1>. DEFINE open == Nesting(pending)
            n == Len(open)
<1>1. open \in Seq(Levels) /\ open # << >>
  BY InTemplate
<1>2. n \in DOMAIN open /\ Last(open) = open[n] /\ Last(open) \in Levels
  <2>. HIDE DEF open
  <2> QED
    BY <1>1 DEF Last
<1>3. Agree(FieldsAt(state, stack, left, open, n), open[n])
  <2>. HIDE DEF n
  <2> QED
    BY <1>2 DEF LevelsInv, Levelled
<1>4. state \in Fields
  BY DEF TypeOK
<1> QED
  BY <1>2, <1>3, <1>4 DEF FieldsAt

LEMMA TypesKept ==
    ASSUME TypeOK, state' \in Fields, WellNested(pending'),
           stack' = stack, left' = left, parses' = parses,
           embeddedTemplateIndex' = embeddedTemplateIndex,
           tags' \in Salts, varNameSalt' \in 0 .. tags'
    PROVE  TypeOK'
BY DEF TypeOK, WellNested

LEMMA TopKept ==
    ASSUME TypeOK, LevelsInv, Parsing,
           stack' = stack, left' = left, embeddedTemplateIndex' = embeddedTemplateIndex,
           Nesting(pending') \in Seq(Levels),
           Len(Nesting(pending')) = Len(Nesting(pending)),
           \A m \in 1 .. Len(Nesting(pending)) - 1 : Nesting(pending')[m] = Nesting(pending)[m],
           Agree(state', Last(Nesting(pending'))),
           state'.embeddedTemplates = state.embeddedTemplates,
           Includes(state, state')
    PROVE  LevelsInv' /\ Accumulates
<1>. DEFINE open == Nesting(pending)
            next == Nesting(pending')
<1>1. open \in Seq(Levels) /\ open # << >>
  BY InTemplate
<1>2. stack \in Seq(Fields) /\ left \in Nat
  BY DEF TypeOK
<1>3. Levelled(state, stack, left, embeddedTemplateIndex, open)
  BY DEF LevelsInv
<1>4. /\ next \in Seq(Levels) /\ Len(next) = Len(open)
      /\ \A m \in 1 .. Len(open) - 1 : next[m] = open[m]
      /\ Agree(state', Last(next))
  OBVIOUS
<1>. HIDE DEF open, next
<1>5. /\ Levelled(state', stack, left, embeddedTemplateIndex, next)
      /\ Grows(state, stack, left, open, state', stack, left, next)
  BY <1>1, <1>2, <1>3, <1>4, TopKeepsLevels
<1>6. Levelled(state', stack', left', embeddedTemplateIndex', next)
  BY <1>5
<1>7. Grows(state, stack, left, open, state', stack', left', next)
  BY <1>5
<1>. USE DEF open, next
<1> QED
  BY <1>6, <1>7 DEF LevelsInv, Accumulates

LEMMA SameTop ==
    ASSUME TypeOK, LevelsInv, Parsing,
           stack' = stack, left' = left, embeddedTemplateIndex' = embeddedTemplateIndex,
           Nesting(pending') = Nesting(pending),
           state'.blockStack = state.blockStack,
           Opens(state'.blocks, state.blockStack),
           Placed(state'.importedSymbols, Last(Nesting(pending)).scopes),
           state'.embeddedTemplates = state.embeddedTemplates,
           Includes(state, state')
    PROVE  LevelsInv' /\ Accumulates
<1>1. Agree(state', Last(Nesting(pending)))
  BY TopAgrees DEF Agree
<1>2. Nesting(pending) \in Seq(Levels)
  BY InTemplate
<1> QED
  BY <1>1, <1>2, TopKept

LEMMA SameFields ==
    ASSUME TypeOK, LevelsInv, Parsing,
           stack' = stack, left' = left, embeddedTemplateIndex' = embeddedTemplateIndex,
           Nesting(pending') = Nesting(pending), state' = state
    PROVE  LevelsInv' /\ Accumulates
<1>1. Agree(state, Last(Nesting(pending))) /\ state \in Fields
  BY TopAgrees
<1>2. /\ Opens(state.blocks, state.blockStack)
      /\ Placed(state.importedSymbols, Last(Nesting(pending)).scopes)
  BY <1>1 DEF Agree
<1>3. Includes(state, state')
  BY <1>1, IncludesReflexive
<1> QED
  BY <1>2, <1>3, SameTop

(* The tags that change no field.                                          *)
LEMMA AddsKept ==
    ASSUME TypeOK, LevelsInv, NEW kinds \in SUBSET Kinds, Adds(kinds)
    PROVE  Kept
<1>1. PICK kind \in kinds : pending' = AddNode(pending, kind)
  BY DEF Adds
<1>2. /\ More /\ tags' = tags + 1 /\ kind \in Kinds
      /\ stack' = stack /\ state' = state /\ varNameSalt' = varNameSalt
      /\ embeddedTemplateIndex' = embeddedTemplateIndex /\ parses' = parses /\ left' = left
  BY DEF Adds
<1>3. Parsing /\ tags' \in Salts /\ varNameSalt' \in 0 .. tags'
  BY <1>2, NextTag
<1>4. WellNested(pending') /\ Nesting(pending') = Nesting(pending)
  BY <1>1, <1>2, <1>3, OtherAdded
<1>5. TypeOK'
  <2>1. state' \in Fields
    BY <1>2 DEF TypeOK
  <2> QED
    BY <1>2, <1>3, <1>4, <2>1, TypesKept
<1>6. LevelsInv' /\ Accumulates
  BY <1>2, <1>3, <1>4, SameFields
<1> QED
  BY <1>5, <1>6 DEF Kept

LEMMA OpenKept ==
    ASSUME TypeOK, LevelsInv,
           NEW tag \in Tags \ {"template", "embed", "block", "macro", "filter"},
           Open(Call(tag, NoName)), state' = state, varNameSalt' = varNameSalt, Keep
    PROVE  Kept
<1>1. /\ WellNested(pending') /\ Nesting(pending') = Nesting(pending)
      /\ Parsing /\ More /\ tags' = tags + 1
  BY OtherOpened
<1>2. /\ stack' = stack /\ embeddedTemplateIndex' = embeddedTemplateIndex
      /\ parses' = parses /\ left' = left
  BY DEF Keep
<1>3. tags' \in Salts /\ varNameSalt' \in 0 .. tags'
  BY <1>1, NextTag
<1>4. state' \in Fields
  BY DEF TypeOK
<1>5. TypeOK'
  BY <1>1, <1>2, <1>3, <1>4, TypesKept
<1>6. LevelsInv' /\ Accumulates
  BY <1>1, <1>2, SameFields
<1> QED
  BY <1>5, <1>6 DEF Kept

LEMMA CloseKept ==
    ASSUME TypeOK, LevelsInv, Parsing,
           Current.tag \notin {"template", "embed", "block", "macro"},
           NEW kind \in Kinds, Close(pending, kind),
           state' = state, varNameSalt' = varNameSalt, tags' = tags, Keep
    PROVE  Kept
<1>1. WellNested(pending') /\ Nesting(pending') = Nesting(pending)
  BY OtherClosed
<1>2. /\ stack' = stack /\ embeddedTemplateIndex' = embeddedTemplateIndex
      /\ parses' = parses /\ left' = left
  BY DEF Keep
<1>3. tags' \in Salts /\ varNameSalt' \in 0 .. tags' /\ state' \in Fields
  BY DEF TypeOK
<1>4. TypeOK'
  BY <1>1, <1>2, <1>3, TypesKept
<1>5. LevelsInv' /\ Accumulates
  BY <1>1, <1>2, SameFields
<1> QED
  BY <1>4, <1>5 DEF Kept

LEMMA AroundKind ==
    ASSUME NEW h
    PROVE  Around(h) \in Kinds
BY DEF Around, Kinds

LEMMA ForkKept ==
    ASSUME TypeOK, LevelsInv, Fork
    PROVE  Kept
<1>1. /\ More /\ tags' = tags + 1 /\ state' = state /\ varNameSalt' = varNameSalt
      /\ stack' = stack /\ embeddedTemplateIndex' = embeddedTemplateIndex
      /\ parses' = parses /\ left' = left
  BY DEF Fork, Keep
<1>2. PICK stage \in {"fork", "end"} : pending' = [pending EXCEPT ![Len(pending)].stage = stage]
  BY DEF Fork
<1>3. Parsing /\ tags' \in Salts /\ varNameSalt' \in 0 .. tags' /\ state' \in Fields
  BY <1>1, NextTag DEF TypeOK
<1>4. WellNested(pending') /\ Nesting(pending') = Nesting(pending)
  <2>. DEFINE h == [Last(pending) EXCEPT !.stage = stage]
  <2>1. WellNested(pending) /\ pending # << >> /\ pending \in Seq(Calls)
    BY <1>3, InTemplate DEF WellNested
  <2>2. Last(pending) \in Calls /\ Last(pending) = pending[Len(pending)]
    BY <2>1, FrontAndLast
  <2>3. h \in Calls /\ Alike(h, Last(pending))
    BY <2>2 DEF Calls, Alike
  <2>4. pending' = [pending EXCEPT ![Len(pending)] = h]
    BY <1>2, <2>2
  <2>. HIDE DEF h
  <2> QED
    BY <2>1, <2>3, <2>4, ReplaceLast
<1>5. TypeOK'
  BY <1>1, <1>3, <1>4, TypesKept
<1>6. LevelsInv' /\ Accumulates
  BY <1>1, <1>3, <1>4, SameFields
<1> QED
  BY <1>5, <1>6 DEF Kept

LEMMA BodyTags ==
    ASSUME TypeOK, LevelsInv,
           If \/ For \/ WithTag \/ AutoEscape \/ Spaceless \/ Set \/ Sandbox
    PROVE  Kept
<1>1. PICK tag \in {"if", "for", "with", "autoescape", "spaceless", "set", "sandbox"} :
        /\ Open(Call(tag, NoName))
        /\ state' = state /\ varNameSalt' = varNameSalt /\ Keep
  BY DEF If, For, WithTag, AutoEscape, Spaceless, Set, Sandbox
<1>2. tag \in Tags \ {"template", "embed", "block", "macro", "filter"}
  BY DEF Tags
<1> QED
  BY <1>1, <1>2, OpenKept

LEMMA BodyEnds ==
    ASSUME TypeOK, LevelsInv, CloseBody \/ CloseSet \/ CloseSandbox \/ CloseApply
    PROVE  Kept
<1>1. PICK kind \in Kinds :
        /\ Parsing /\ Close(pending, kind)
        /\ Current.tag \in {"if", "for", "with", "autoescape", "spaceless", "set", "sandbox", "apply"}
        /\ state' = state /\ varNameSalt' = varNameSalt /\ tags' = tags /\ Keep
  <2>1. Around(Current) \in Kinds /\ "capture" \in Kinds /\ "output" \in Kinds
    BY AroundKind DEF Kinds
  <2> QED
    BY <2>1 DEF CloseBody, CloseSet, CloseSandbox, CloseApply
<1>2. Current.tag \notin {"template", "embed", "block", "macro"}
  BY <1>1
<1> QED
  BY <1>1, <1>2, CloseKept

(* The tags that change some of the fields of the innermost template.      *)
LEMMA TopFields ==
    ASSUME TypeOK, LevelsInv, Parsing
    PROVE  /\ state \in Fields /\ state.blocks \in Blocks /\ state.traits \in Nat
           /\ state.blockStack \in Seq(Names) /\ state.importedSymbols \in Seq(Symbols)
           /\ state.macros \in SUBSET Names /\ state.names \in Seq(Salts)
           /\ state.embeddedTemplates \in Seq(Nat)
           /\ Opens(state.blocks, state.blockStack)
           /\ Placed(state.importedSymbols, Last(Nesting(pending)).scopes)
BY TopAgrees, FieldTypes DEF Agree

LEMMA EditKept ==
    ASSUME TypeOK, LevelsInv, Parsing, Keep,
           WellNested(pending'), Nesting(pending') = Nesting(pending),
           tags' \in Salts, varNameSalt' \in 0 .. tags',
           state' \in Fields,
           state'.parent = state.parent \/ state'.parent = TRUE,
           DOMAIN state.blocks \subseteq DOMAIN state'.blocks,
           Opens(state'.blocks, state.blockStack),
           state'.blockStack = state.blockStack,
           state'.macros = state.macros,
           Placed(state'.importedSymbols, Last(Nesting(pending)).scopes),
           state.traits <= state'.traits,
           state'.embeddedTemplates = state.embeddedTemplates
    PROVE  Kept
<1>1. /\ stack' = stack /\ embeddedTemplateIndex' = embeddedTemplateIndex
      /\ parses' = parses /\ left' = left
  BY DEF Keep
<1>2. TypeOK'
  BY <1>1, TypesKept
<1>3. Includes(state, state')
  <2>1. state.embeddedTemplates \in Seq(Nat) /\ state.macros \subseteq state'.macros
    BY TopFields
  <2> QED
    BY <2>1, IncludesItself
<1>4. LevelsInv' /\ Accumulates
  BY <1>1, <1>3, SameTop
<1> QED
  BY <1>2, <1>4 DEF Kept

LEMMA ExtendsKept ==
    ASSUME TypeOK, LevelsInv, Extends
    PROVE  Kept
<1>1. More /\ Parsing /\ Keep /\ pending' = pending
  BY DEF Extends, More, Keep
<1>2. tags' \in Salts /\ varNameSalt' \in 0 .. tags' /\ WellNested(pending')
  BY <1>1, NextTag, InTemplate DEF Extends
<1>3. state' = [state EXCEPT !.parent = TRUE]
  BY DEF Extends
<1>4. /\ state' \in Fields /\ state'.parent = TRUE
      /\ state'.blocks = state.blocks /\ state'.blockStack = state.blockStack
      /\ state'.macros = state.macros /\ state'.importedSymbols = state.importedSymbols
      /\ state'.traits = state.traits /\ state'.embeddedTemplates = state.embeddedTemplates
  BY <1>1, <1>3, TopFields DEF Fields
<1>5. state.traits <= state'.traits
  BY <1>1, <1>4, TopFields
<1> QED
  BY <1>1, <1>2, <1>4, <1>5, TopFields, EditKept

LEMMA UseKept ==
    ASSUME TypeOK, LevelsInv, Use
    PROVE  Kept
<1>1. More /\ Parsing /\ Keep /\ pending' = AddNode(pending, "leaf")
  BY DEF Use, More, Keep
<1>2. /\ tags' \in Salts /\ varNameSalt' \in 0 .. tags'
      /\ WellNested(pending') /\ Nesting(pending') = Nesting(pending)
  <2>1. "leaf" \in Kinds
    BY DEF Kinds
  <2> QED
    BY <1>1, <2>1, NextTag, OtherAdded DEF Use
<1>3. state' = [state EXCEPT !.traits = state.traits + 1]
  BY DEF Use
<1>4. /\ state' \in Fields /\ state'.parent = state.parent
      /\ state'.blocks = state.blocks /\ state'.blockStack = state.blockStack
      /\ state'.macros = state.macros /\ state'.importedSymbols = state.importedSymbols
      /\ state'.traits = state.traits + 1 /\ state'.embeddedTemplates = state.embeddedTemplates
  <2>. DEFINE t == state.traits + 1
  <2>1. t \in Nat /\ state \in Fields
    BY <1>1, TopFields
  <2>2. state' = [state EXCEPT !.traits = t]
    BY <1>3
  <2>3. /\ state' \in Fields /\ state'.parent = state.parent
        /\ state'.blocks = state.blocks /\ state'.blockStack = state.blockStack
        /\ state'.macros = state.macros /\ state'.importedSymbols = state.importedSymbols
        /\ state'.traits = t /\ state'.embeddedTemplates = state.embeddedTemplates
    <3>. HIDE DEF t
    <3> QED
      BY <2>1, <2>2 DEF Fields
  <2> QED
    BY <2>3
<1>5. state.traits <= state'.traits
  BY <1>1, <1>4, TopFields
<1> QED
  BY <1>1, <1>2, <1>4, <1>5, TopFields, EditKept

LEMMA ShortBlockKept ==
    ASSUME TypeOK, LevelsInv, NEW name \in Names, ShortBlock(name)
    PROVE  Kept
<1>. DEFINE b == setBlock(state.blocks, name, "complete")
<1>1. /\ More /\ Parsing /\ Keep /\ pending' = AddNode(pending, "reference")
      /\ name \notin DOMAIN state.blocks
  BY DEF ShortBlock, More
<1>2. /\ tags' \in Salts /\ varNameSalt' \in 0 .. tags'
      /\ WellNested(pending') /\ Nesting(pending') = Nesting(pending)
  <2>1. "reference" \in Kinds
    BY DEF Kinds
  <2> QED
    BY <1>1, <2>1, NextTag, OtherAdded DEF ShortBlock
<1>3. /\ state \in Fields /\ state.blocks \in Blocks
      /\ Opens(state.blocks, state.blockStack)
  BY <1>1, TopFields
<1>4. b \in Blocks /\ DOMAIN state.blocks \subseteq DOMAIN b /\ Opens(b, state.blockStack)
  <2>1. name \notin Empties(state.blocks)
    BY <1>1 DEF Empties
  <2>2. b = setBlock(state.blocks, name, "complete")
    OBVIOUS
  <2>. HIDE DEF b
  <2>3. b \in Blocks /\ DOMAIN b = DOMAIN state.blocks \cup {name}
    BY <1>3, <2>2, BlockSet
  <2>4. Opens(b, state.blockStack)
    BY <1>3, <2>1, <2>2, OpensComplete
  <2> QED
    BY <2>3, <2>4
<1>5. state' = [state EXCEPT !.blocks = b]
  BY DEF ShortBlock
<1>. HIDE DEF b
<1>6. /\ state' \in Fields /\ state'.parent = state.parent
      /\ state'.blocks = b /\ state'.blockStack = state.blockStack
      /\ state'.macros = state.macros /\ state'.importedSymbols = state.importedSymbols
      /\ state'.traits = state.traits /\ state'.embeddedTemplates = state.embeddedTemplates
  BY <1>3, <1>4, <1>5 DEF Fields, Blocks
<1>7. state.traits <= state'.traits
  BY <1>1, <1>6, TopFields
<1> QED
  BY <1>1, <1>2, <1>4, <1>6, <1>7, TopFields, EditKept

LEMMA CloseFilterKept ==
    ASSUME TypeOK, LevelsInv, CloseFilter
    PROVE  Kept
<1>. DEFINE name == Current.name
            b == setBlock(state.blocks, name, "complete")
<1>1. /\ Parsing /\ Keep /\ Current.tag = "filter" /\ Close(pending, "output")
      /\ tags' = tags /\ varNameSalt' = varNameSalt
      /\ state' = [state EXCEPT !.blocks = b]
  BY DEF CloseFilter
<1>2. /\ WellNested(pending') /\ Nesting(pending') = Nesting(pending)
      /\ name \in Salts
  <2>1. "output" \in Kinds
    BY DEF Kinds
  <2> QED
    BY <1>1, <2>1, OtherClosed
<1>3. tags' \in Salts /\ varNameSalt' \in 0 .. tags'
  BY <1>1 DEF TypeOK
<1>4. /\ state \in Fields /\ state.blocks \in Blocks
      /\ Opens(state.blocks, state.blockStack)
  BY <1>1, TopFields
<1>5. b \in Blocks /\ DOMAIN state.blocks \subseteq DOMAIN b /\ Opens(b, state.blockStack)
  <2>1. name \notin Empties(state.blocks)
    <3>1. ToSet(state.blockStack) \subseteq Names
      BY <1>1, TopFields DEF ToSet
    <3>2. name \notin Names
      BY <1>2, BoundTypes, ParserBounds
    <3> QED
      BY <1>4, <3>1, <3>2 DEF Opens
  <2>2. b = setBlock(state.blocks, name, "complete")
    OBVIOUS
  <2>. HIDE DEF b, name
  <2>3. b \in Blocks /\ DOMAIN b = DOMAIN state.blocks \cup {name}
    BY <1>2, <1>4, <2>2, BlockSet
  <2>4. Opens(b, state.blockStack)
    BY <1>2, <1>4, <2>1, <2>2, OpensComplete
  <2> QED
    BY <2>3, <2>4
<1>. HIDE DEF b
<1>6. /\ state' \in Fields /\ state'.parent = state.parent
      /\ state'.blocks = b /\ state'.blockStack = state.blockStack
      /\ state'.macros = state.macros /\ state'.importedSymbols = state.importedSymbols
      /\ state'.traits = state.traits /\ state'.embeddedTemplates = state.embeddedTemplates
  BY <1>1, <1>4, <1>5 DEF Fields, Blocks
<1>7. state.traits <= state'.traits
  BY <1>1, <1>6, TopFields
<1> QED
  BY <1>1, <1>2, <1>3, <1>5, <1>6, <1>7, TopFields, EditKept

LEMMA NameGiven ==
    ASSUME NEW f \in Fields, varNameSalt \in Salts, NEW g, g = GiveName(f)
    PROVE  /\ g \in Fields /\ g.parent = f.parent
           /\ g.blocks = f.blocks /\ g.blockStack = f.blockStack
           /\ g.macros = f.macros /\ g.importedSymbols = f.importedSymbols
           /\ g.traits = f.traits /\ g.embeddedTemplates = f.embeddedTemplates
<1>. DEFINE n == Append(f.names, varNameSalt)
<1>1. n \in Seq(Salts)
  BY FieldTypes
<1>2. g = [f EXCEPT !.names = n]
  BY DEF GiveName
<1>. HIDE DEF n
<1> QED
  BY <1>1, <1>2 DEF Fields

LEMMA NamingTagKept ==
    ASSUME TypeOK, LevelsInv, Apply \/ FilterTag
    PROVE  Kept
<1>1. PICK tag \in {"apply", "filter"} : Open(Call(tag, varNameSalt))
  BY DEF Apply, FilterTag
<1>2. More /\ Parsing
  BY <1>1 DEF Open, More
<1>3. varNameSalt \in Salts /\ varNameSalt + 1 \in 0 .. tags + 1 /\ tags + 1 \in Salts
  BY <1>2, NextTag
<1>4. /\ WellNested(pending') /\ Nesting(pending') = Nesting(pending)
      /\ tags' = tags + 1
  <2>1. tag \in Tags \ {"template", "embed", "block", "macro"}
    BY DEF Tags
  <2> QED
    BY <1>1, <1>3, <2>1, OtherOpened
<1>5. Keep /\ state' = GiveName(state) /\ varNameSalt' = varNameSalt + 1
  BY DEF Apply, FilterTag
<1>6. tags' \in Salts /\ varNameSalt' \in 0 .. tags'
  BY <1>3, <1>4, <1>5
<1>7. /\ state' \in Fields /\ state'.parent = state.parent
      /\ state'.blocks = state.blocks /\ state'.blockStack = state.blockStack
      /\ state'.macros = state.macros /\ state'.importedSymbols = state.importedSymbols
      /\ state'.traits = state.traits /\ state'.embeddedTemplates = state.embeddedTemplates
  BY <1>2, <1>3, <1>5, TopFields, NameGiven
<1>8. state.traits <= state'.traits
  BY <1>2, <1>7, TopFields
<1> QED
  BY <1>2, <1>4, <1>5, <1>6, <1>7, <1>8, TopFields, EditKept

(* An import goes to the innermost scope, with the construct that opened   *)
(* it.                                                                     *)
LEMMA SymbolAdded ==
    ASSUME TypeOK, LevelsInv, Parsing,
           NEW type \in {"template", "function"}, NEW alias \in Aliases,
           NEW name \in Aliases \cup Salts,
           NEW g, g = addImportedSymbol(type, alias, name)
    PROVE  g \in Seq(Symbols) /\ Placed(g, Last(Nesting(pending)).scopes)
<1>. DEFINE scopes == Last(Nesting(pending)).scopes
            symbols == state.importedSymbols
<1>1. scopes \in Seq(Salts) /\ scopes # << >>
  BY TopAgrees DEF Levels
<1>2. symbols \in Seq(Symbols) /\ Placed(symbols, scopes)
  BY TopFields
<1>3. g = [symbols EXCEPT ![1] = Put(@, <<type, alias>>, [in |-> Head(scopes), name |-> name])]
  BY DEF addImportedSymbol, ScopeOf
<1>. HIDE DEF scopes, symbols
<1>4. g \in Seq(Symbols) /\ Placed(g, scopes)
  BY <1>1, <1>2, <1>3, PlacedPut
<1> QED
  BY <1>4 DEF scopes

LEMMA ImportedFields ==
    ASSUME TypeOK, LevelsInv, Parsing, NEW i \in Seq(Symbols),
           NEW g, g = [state EXCEPT !.importedSymbols = i]
    PROVE  /\ g \in Fields /\ g.parent = state.parent
           /\ g.blocks = state.blocks /\ g.blockStack = state.blockStack
           /\ g.macros = state.macros /\ g.importedSymbols = i
           /\ g.traits = state.traits /\ g.embeddedTemplates = state.embeddedTemplates
<1>1. state \in Fields
  BY TopFields
<1> QED
  BY <1>1 DEF Fields

LEMMA ImportKept ==
    ASSUME TypeOK, LevelsInv, Import \/ From
    PROVE  Kept
<1>1. /\ More /\ Parsing /\ Keep /\ pending' = AddNode(pending, "plain") /\ tags' = tags + 1
      /\ varNameSalt' \in {varNameSalt, varNameSalt + 1}
  BY DEF Import, From, More, Keep
<1>2. /\ varNameSalt \in Salts /\ varNameSalt' \in 0 .. tags' /\ tags' \in Salts
      /\ WellNested(pending') /\ Nesting(pending') = Nesting(pending)
  <2>1. "plain" \in Kinds
    BY DEF Kinds
  <2> QED
    BY <1>1, <2>1, NextTag, OtherAdded
<1>3. PICK i : /\ i \in Seq(Symbols) /\ Placed(i, Last(Nesting(pending)).scopes)
               /\ \/ state' = [state EXCEPT !.importedSymbols = i]
                  \/ state' = GiveName([state EXCEPT !.importedSymbols = i])
  <2>1. CASE Import
    <3>1. PICK alias \in Aliases :
            state' = [state EXCEPT !.importedSymbols = addImportedSymbol("template", alias, alias)]
      BY <2>1 DEF Import
    <3>. DEFINE i == addImportedSymbol("template", alias, alias)
    <3>2. state' = [state EXCEPT !.importedSymbols = i] /\ i = addImportedSymbol("template", alias, alias)
      BY <3>1
    <3>. HIDE DEF i
    <3>3. i \in Seq(Symbols) /\ Placed(i, Last(Nesting(pending)).scopes)
      BY <1>1, <3>2, SymbolAdded
    <3> QED
      BY <3>2, <3>3
  <2>2. CASE From
    <3>1. PICK alias \in Aliases :
            state' = GiveName([state EXCEPT !.importedSymbols =
                                 addImportedSymbol("function", alias, varNameSalt)])
      BY <2>2 DEF From
    <3>. DEFINE i == addImportedSymbol("function", alias, varNameSalt)
    <3>2. /\ state' = GiveName([state EXCEPT !.importedSymbols = i])
          /\ i = addImportedSymbol("function", alias, varNameSalt)
      BY <3>1
    <3>. HIDE DEF i
    <3>3. i \in Seq(Symbols) /\ Placed(i, Last(Nesting(pending)).scopes)
      BY <1>1, <1>2, <3>2, SymbolAdded
    <3> QED
      BY <3>2, <3>3
  <2> QED
    BY <2>1, <2>2
<1>. DEFINE g == [state EXCEPT !.importedSymbols = i]
<1>4. state' = g \/ state' = GiveName(g)
  BY <1>3
<1>5. /\ g \in Fields /\ g.parent = state.parent
      /\ g.blocks = state.blocks /\ g.blockStack = state.blockStack
      /\ g.macros = state.macros /\ g.importedSymbols = i
      /\ g.traits = state.traits /\ g.embeddedTemplates = state.embeddedTemplates
  BY <1>1, <1>3, ImportedFields
<1>. HIDE DEF g
<1>6. /\ state' \in Fields /\ state'.parent = state.parent
      /\ state'.blocks = state.blocks /\ state'.blockStack = state.blockStack
      /\ state'.macros = state.macros /\ state'.importedSymbols = i
      /\ state'.traits = state.traits /\ state'.embeddedTemplates = state.embeddedTemplates
  <2>1. CASE state' = g
    BY <1>5, <2>1
  <2>2. CASE state' = GiveName(g)
    BY <1>2, <1>5, <2>2, NameGiven
  <2> QED
    BY <1>4, <2>1, <2>2
<1>7. state.traits <= state'.traits
  BY <1>1, <1>6, TopFields
<1> QED
  BY <1>1, <1>2, <1>3, <1>6, <1>7, TopFields, EditKept

-----------------------------------------------------------------------------
(* The blocks and the macros *)

(* A block or a macro that opens, on the templates that are being parsed.  *)
LEMMA ScopeOpened ==
    ASSUME TypeOK, NEW tag \in {"block", "macro"}, NEW name \in Names, Open(Call(tag, name)),
           NEW h, h = Call(tag, name)
    PROVE  /\ Parsing /\ More /\ tags' = tags + 1 /\ WellNested(pending')
           /\ h \in Calls /\ h.tag = tag /\ h.name = name /\ h.at \in Salts
           /\ Nesting(pending') \in Seq(Levels)
           /\ Len(Nesting(pending')) = Len(Nesting(pending))
           /\ \A m \in 1 .. Len(Nesting(pending)) - 1 :
                Nesting(pending')[m] = Nesting(pending)[m]
           /\ Last(Nesting(pending')) = Opened(Last(Nesting(pending)), h)
<1>. DEFINE open == Nesting(pending)
            next == Nesting(pending')
            n == Len(open)
            v == Opened(Last(open), h)
<1>1. More /\ Parsing /\ pending' = Append(pending, h) /\ tags' = tags + 1
  BY DEF Open, More
<1>2. h \in Calls /\ h.tag = tag /\ h.name = name
  <2>1. tag \in Tags
    BY DEF Tags
  <2> QED
    BY <1>1, <2>1, CallTyped
<1>3. h.at \in Salts
  BY <1>2 DEF Calls
<1>4. open \in Seq(Levels) /\ open # << >> /\ WellNested(pending) /\ pending # << >>
  BY <1>1, InTemplate
<1>5. WellNested(pending') /\ next = Enter(open, h)
  BY <1>1, <1>2, <1>4, AppendNested
<1>6. n \in Nat \ {0} /\ n = Len(open) /\ n \in 1 .. n /\ DOMAIN open = 1 .. n /\ Last(open) = open[n]
      /\ open[n] \in Levels
  <2>. HIDE DEF open
  <2> QED
    BY <1>4 DEF Last
<1>. HIDE DEF open, n
<1>7. next = [open EXCEPT ![n] = v]
  BY <1>2, <1>5, <1>6, EnterScope
<1>8. v \in Levels
  BY <1>2, <1>6, OpenedLevel
<1>. HIDE DEF v
<1>9. /\ next \in Seq(Levels) /\ Len(next) = n
      /\ \A m \in 1 .. n : next[m] = IF m = n THEN v ELSE open[m]
  <2>1. n \in 1 .. Len(open)
    BY <1>6
  <2>2. /\ [open EXCEPT ![n] = v] \in Seq(Levels)
        /\ Len([open EXCEPT ![n] = v]) = Len(open)
        /\ \A m \in 1 .. Len(open) : [open EXCEPT ![n] = v][m] = IF m = n THEN v ELSE open[m]
    BY <1>4, <1>8, <2>1, ExceptSeq
  <2>. HIDE DEF next
  <2> QED
    BY <1>6, <1>7, <2>2
<1>. HIDE DEF next
<1>10. Last(next) = v /\ \A m \in 1 .. n - 1 : next[m] = open[m]
  BY <1>6, <1>9 DEF Last
<1> QED
  BY <1>1, <1>2, <1>3, <1>5, <1>6, <1>9, <1>10 DEF open, next, n, v

(* One that is closed.                                                     *)
LEMMA ScopeClosed ==
    ASSUME TypeOK, Parsing, Current.tag \in {"block", "macro"},
           NEW front, front = Front(pending)
    PROVE  /\ WellNested(front) /\ front # << >>
           /\ Current \in Calls /\ Current.name \in Names /\ Current.at \in Salts
           /\ Nesting(front) \in Seq(Levels) /\ Nesting(front) # << >>
           /\ Last(Nesting(front)) \in Levels
           /\ Len(Nesting(front)) = Len(Nesting(pending))
           /\ \A m \in 1 .. Len(Nesting(pending)) - 1 :
                Nesting(front)[m] = Nesting(pending)[m]
           /\ Last(Nesting(pending)) = Opened(Last(Nesting(front)), Current)
<1>. DEFINE open == Nesting(pending)
            next == Nesting(front)
            n == Len(next)
            h == Last(pending)
            v == Opened(Last(next), h)
<1>1. WellNested(pending) /\ pending # << >> /\ h.tag \in {"block", "macro"}
  BY InTemplate DEF Current
<1>2. /\ WellNested(front) /\ front # << >> /\ h \in Calls /\ h.name \in Names
      /\ next \in Seq(Levels) /\ next # << >> /\ open = Enter(next, h)
  BY <1>1, InnerNested
<1>3. h.at \in Salts
  BY <1>2 DEF Calls
<1>4. n \in Nat \ {0} /\ n = Len(next) /\ n \in 1 .. n /\ DOMAIN next = 1 .. n /\ Last(next) = next[n]
      /\ next[n] \in Levels
  <2>. HIDE DEF next
  <2> QED
    BY <1>2 DEF Last
<1>. HIDE DEF next, n
<1>5. open = [next EXCEPT ![n] = v]
  <2>. HIDE DEF h
  <2> QED
    BY <1>1, <1>2, <1>4, EnterScope
<1>6. v \in Levels
  <2>. HIDE DEF h
  <2> QED
    BY <1>2, <1>4, OpenedLevel
<1>. HIDE DEF v
<1>7. /\ Len(open) = n
      /\ \A m \in 1 .. n : open[m] = IF m = n THEN v ELSE next[m]
  <2>1. n \in 1 .. Len(next)
    BY <1>4
  <2>2. /\ Len([next EXCEPT ![n] = v]) = Len(next)
        /\ \A m \in 1 .. Len(next) : [next EXCEPT ![n] = v][m] = IF m = n THEN v ELSE next[m]
    BY <1>2, <1>6, <2>1, ExceptSeq
  <2>. HIDE DEF open
  <2> QED
    BY <1>4, <1>5, <2>2
<1>. HIDE DEF open
<1>8. Last(open) = v /\ \A m \in 1 .. n - 1 : next[m] = open[m]
  BY <1>4, <1>7 DEF Last
<1> QED
  BY <1>2, <1>3, <1>4, <1>7, <1>8 DEF open, next, n, v, h, Current

LEMMA ScopeKept ==
    ASSUME TypeOK, LevelsInv, Parsing, Keep,
           WellNested(pending'), tags' \in Salts, varNameSalt' \in 0 .. tags',
           Nesting(pending') \in Seq(Levels),
           Len(Nesting(pending')) = Len(Nesting(pending)),
           \A m \in 1 .. Len(Nesting(pending)) - 1 : Nesting(pending')[m] = Nesting(pending)[m],
           Agree(state', Last(Nesting(pending'))),
           state' \in Fields, state'.parent = state.parent,
           DOMAIN state.blocks \subseteq DOMAIN state'.blocks,
           state.macros \subseteq state'.macros, state'.traits = state.traits,
           state'.embeddedTemplates = state.embeddedTemplates
    PROVE  Kept
<1>1. /\ stack' = stack /\ embeddedTemplateIndex' = embeddedTemplateIndex
      /\ parses' = parses /\ left' = left
  BY DEF Keep
<1>2. TypeOK'
  BY <1>1, TypesKept
<1>3. Includes(state, state')
  <2>1. state.embeddedTemplates \in Seq(Nat) /\ state.traits <= state'.traits
    BY TopFields
  <2> QED
    BY <2>1, IncludesItself
<1>4. LevelsInv' /\ Accumulates
  BY <1>1, <1>3, TopKept
<1> QED
  BY <1>2, <1>4 DEF Kept

LEMMA OpenBlockKept ==
    ASSUME TypeOK, LevelsInv, NEW name \in Names, OpenBlock(name)
    PROVE  Kept
<1>. DEFINE h == Call("block", name)
            w == Last(Nesting(pending))
            b == setBlock(state.blocks, name, "empty")
            i == PushScope(state.importedSymbols)
            t == Append(state.blockStack, name)
            v == Opened(w, h)
<1>1. /\ name \notin DOMAIN state.blocks /\ Open(h)
      /\ state' = [state EXCEPT !.blocks = b, !.importedSymbols = i, !.blockStack = t]
      /\ varNameSalt' = varNameSalt /\ Keep
  BY DEF OpenBlock
<1>2. /\ Parsing /\ More /\ tags' = tags + 1 /\ WellNested(pending')
      /\ h \in Calls /\ h.tag = "block" /\ h.name = name /\ h.at \in Salts
      /\ Nesting(pending') \in Seq(Levels)
      /\ Len(Nesting(pending')) = Len(Nesting(pending))
      /\ \A m \in 1 .. Len(Nesting(pending)) - 1 :
           Nesting(pending')[m] = Nesting(pending)[m]
      /\ Last(Nesting(pending')) = v
  BY <1>1, ScopeOpened
<1>. HIDE DEF h
<1>3. tags' \in Salts /\ varNameSalt' \in 0 .. tags'
  BY <1>1, <1>2, NextTag
<1>4. /\ state \in Fields /\ w \in Levels /\ w.scopes \in Seq(Salts)
      /\ w.blockStack = state.blockStack /\ state.blockStack \in Seq(Names)
      /\ Opens(state.blocks, state.blockStack) /\ state.blocks \in Blocks
      /\ Placed(state.importedSymbols, w.scopes) /\ state.importedSymbols \in Seq(Symbols)
  <2>1. w.scopes \in Seq(Salts) /\ w.blockStack = state.blockStack
    BY <1>2, TopAgrees DEF Levels, Agree
  <2> QED
    BY <1>2, <2>1, TopAgrees, TopFields
<1>. HIDE DEF w
<1>5. v.blockStack = t /\ v.scopes = <<h.at>> \o w.scopes
  BY <1>2, <1>4, OpenedFields
<1>6. b = setBlock(state.blocks, name, "empty") /\ i = PushScope(state.importedSymbols)
  OBVIOUS
<1>. HIDE DEF b, i, v
<1>7. b \in Blocks /\ DOMAIN b = DOMAIN state.blocks \cup {name}
  BY <1>4, <1>6, BlockSet
<1>8. Opens(b, t)
  BY <1>1, <1>4, <1>6, OpensPush
<1>9. i \in Seq(Symbols) /\ Placed(i, v.scopes)
  BY <1>2, <1>4, <1>5, <1>6, PlacedPush
<1>10. t \in Seq(Names)
  BY <1>4
<1>. HIDE DEF t
<1>11. /\ state' \in Fields /\ state'.parent = state.parent
       /\ state'.blocks = b /\ state'.blockStack = t /\ state'.importedSymbols = i
       /\ state'.macros = state.macros /\ state'.traits = state.traits
       /\ state'.embeddedTemplates = state.embeddedTemplates
  BY <1>1, <1>4, <1>7, <1>9, <1>10 DEF Fields, Blocks
<1>12. Agree(state', Last(Nesting(pending')))
  BY <1>2, <1>5, <1>8, <1>9, <1>11 DEF Agree
<1>13. DOMAIN state.blocks \subseteq DOMAIN state'.blocks /\ state.macros \subseteq state'.macros
  BY <1>7, <1>11
<1> QED
  BY <1>1, <1>2, <1>3, <1>11, <1>12, <1>13, ScopeKept

LEMMA OpenMacroKept ==
    ASSUME TypeOK, LevelsInv, NEW name \in Names, OpenMacro(name)
    PROVE  Kept
<1>. DEFINE h == Call("macro", name)
            w == Last(Nesting(pending))
            i == PushScope(state.importedSymbols)
            v == Opened(w, h)
<1>1. /\ Open(h) /\ state' = [state EXCEPT !.importedSymbols = i]
      /\ varNameSalt' = varNameSalt /\ Keep
  BY DEF OpenMacro
<1>2. /\ Parsing /\ More /\ tags' = tags + 1 /\ WellNested(pending')
      /\ h \in Calls /\ h.tag = "macro" /\ h.name = name /\ h.at \in Salts
      /\ Nesting(pending') \in Seq(Levels)
      /\ Len(Nesting(pending')) = Len(Nesting(pending))
      /\ \A m \in 1 .. Len(Nesting(pending)) - 1 :
           Nesting(pending')[m] = Nesting(pending)[m]
      /\ Last(Nesting(pending')) = v
  BY <1>1, ScopeOpened
<1>. HIDE DEF h
<1>3. tags' \in Salts /\ varNameSalt' \in 0 .. tags'
  BY <1>1, <1>2, NextTag
<1>4. /\ w \in Levels /\ w.scopes \in Seq(Salts) /\ w.blockStack = state.blockStack
      /\ Opens(state.blocks, state.blockStack)
      /\ Placed(state.importedSymbols, w.scopes) /\ state.importedSymbols \in Seq(Symbols)
  <2>1. w.scopes \in Seq(Salts) /\ w.blockStack = state.blockStack
    BY <1>2, TopAgrees DEF Levels, Agree
  <2> QED
    BY <1>2, <2>1, TopAgrees, TopFields
<1>. HIDE DEF w
<1>5. v.blockStack = w.blockStack /\ v.scopes = <<h.at>> \o w.scopes
  BY <1>2, <1>4, OpenedFields
<1>6. i = PushScope(state.importedSymbols)
  OBVIOUS
<1>. HIDE DEF i, v
<1>7. i \in Seq(Symbols) /\ Placed(i, v.scopes)
  BY <1>2, <1>4, <1>5, <1>6, PlacedPush
<1>8. /\ state' \in Fields /\ state'.parent = state.parent
      /\ state'.blocks = state.blocks /\ state'.blockStack = state.blockStack
      /\ state'.importedSymbols = i
      /\ state'.macros = state.macros /\ state'.traits = state.traits
      /\ state'.embeddedTemplates = state.embeddedTemplates
  BY <1>1, <1>2, <1>7, ImportedFields
<1>9. Agree(state', Last(Nesting(pending')))
  BY <1>2, <1>4, <1>5, <1>7, <1>8 DEF Agree
<1>10. DOMAIN state.blocks \subseteq DOMAIN state'.blocks /\ state.macros \subseteq state'.macros
  BY <1>8
<1> QED
  BY <1>1, <1>2, <1>3, <1>8, <1>9, <1>10, ScopeKept

LEMMA CloseBlockKept ==
    ASSUME TypeOK, LevelsInv, Parsing, CloseBlock
    PROVE  Kept
<1>. DEFINE h == Current
            front == Front(pending)
            w == Last(Nesting(front))
            b == setBlock(state.blocks, h.name, "complete")
            i == PopScope(state.importedSymbols)
            t == Front(state.blockStack)
<1>1. /\ h.tag = "block" /\ pending' = AddNode(front, "reference")
      /\ state' = [state EXCEPT !.blocks = b, !.importedSymbols = i, !.blockStack = t]
      /\ varNameSalt' = varNameSalt /\ tags' = tags /\ Keep
  BY DEF CloseBlock, Close
<1>2. tags' \in Salts /\ varNameSalt' \in 0 .. tags'
  BY <1>1 DEF TypeOK
<1>3. /\ WellNested(front) /\ front # << >>
      /\ h \in Calls /\ h.name \in Names /\ h.at \in Salts
      /\ Nesting(front) \in Seq(Levels) /\ w \in Levels
      /\ Len(Nesting(front)) = Len(Nesting(pending))
      /\ \A m \in 1 .. Len(Nesting(pending)) - 1 :
           Nesting(front)[m] = Nesting(pending)[m]
      /\ Last(Nesting(pending)) = Opened(w, h)
  BY <1>1, ScopeClosed
<1>. HIDE DEF h, front
<1>4. WellNested(pending') /\ Nesting(pending') = Nesting(front)
  <2>1. "reference" \in Kinds
    BY DEF Kinds
  <2> QED
    BY <1>1, <1>3, <2>1, AddNodeNested
<1>5. w.blockStack \in Seq(Names) /\ w.scopes \in Seq(Salts)
  BY <1>3 DEF Levels
<1>. HIDE DEF w
<1>6. /\ Opened(w, h).blockStack = Append(w.blockStack, h.name)
      /\ Opened(w, h).scopes = <<h.at>> \o w.scopes
  BY <1>1, <1>3, OpenedFields
<1>7. /\ state \in Fields /\ state.blocks \in Blocks /\ state.importedSymbols \in Seq(Symbols)
      /\ state.blockStack = Append(w.blockStack, h.name)
      /\ Opens(state.blocks, Append(w.blockStack, h.name))
      /\ Placed(state.importedSymbols, <<h.at>> \o w.scopes)
  <2>1. Agree(state, Opened(w, h)) /\ state \in Fields
    BY <1>3, TopAgrees
  <2> QED
    BY <1>6, <2>1, FieldTypes DEF Agree
<1>8. t = w.blockStack
  BY <1>3, <1>5, <1>7 DEF Front
<1>9. b = setBlock(state.blocks, h.name, "complete") /\ i = PopScope(state.importedSymbols)
  OBVIOUS
<1>. HIDE DEF b, i, t
<1>10. b \in Blocks /\ DOMAIN b = DOMAIN state.blocks \cup {h.name}
  <2>1. h.name \in Names \cup Salts /\ "complete" \in {"empty", "complete"}
    BY <1>3
  <2>2. state.blocks \in Blocks
    BY <1>7
  <2> QED
    BY <1>9, <2>1, <2>2, BlockSet
<1>11. Opens(b, w.blockStack)
  BY <1>3, <1>5, <1>7, <1>9, OpensPop
<1>12. i \in Seq(Symbols) /\ Placed(i, w.scopes)
  BY <1>3, <1>5, <1>7, <1>9, PlacedPop
<1>13. /\ state' \in Fields /\ state'.parent = state.parent
       /\ state'.blocks = b /\ state'.blockStack = t /\ state'.importedSymbols = i
       /\ state'.macros = state.macros /\ state'.traits = state.traits
       /\ state'.embeddedTemplates = state.embeddedTemplates
  BY <1>1, <1>5, <1>7, <1>8, <1>10, <1>12 DEF Fields, Blocks
<1>14. Agree(state', Last(Nesting(pending')))
  BY <1>4, <1>8, <1>11, <1>12, <1>13 DEF Agree, w
<1>15. DOMAIN state.blocks \subseteq DOMAIN state'.blocks /\ state.macros \subseteq state'.macros
  BY <1>10, <1>13
<1> QED
  BY <1>1, <1>2, <1>3, <1>4, <1>13, <1>14, <1>15, ScopeKept

LEMMA CloseMacroKept ==
    ASSUME TypeOK, LevelsInv, Parsing, CloseMacro
    PROVE  Kept
<1>. DEFINE h == Current
            w == Last(Nesting(pending'))
            i == PopScope(state.importedSymbols)
            c == state.macros \cup {h.name}
<1>1. /\ h.tag = "macro" /\ pending' = Front(pending)
      /\ state' = [state EXCEPT !.importedSymbols = i, !.macros = c]
      /\ varNameSalt' = varNameSalt /\ tags' = tags /\ Keep
  BY DEF CloseMacro
<1>2. tags' \in Salts /\ varNameSalt' \in 0 .. tags'
  BY <1>1 DEF TypeOK
<1>3. /\ WellNested(pending')
      /\ h \in Calls /\ h.name \in Names /\ h.at \in Salts
      /\ Nesting(pending') \in Seq(Levels) /\ w \in Levels
      /\ Len(Nesting(pending')) = Len(Nesting(pending))
      /\ \A m \in 1 .. Len(Nesting(pending)) - 1 :
           Nesting(pending')[m] = Nesting(pending)[m]
      /\ Last(Nesting(pending)) = Opened(w, h)
  BY <1>1, ScopeClosed
<1>. HIDE DEF h
<1>4. w.blockStack \in Seq(Names) /\ w.scopes \in Seq(Salts)
  BY <1>3 DEF Levels
<1>. HIDE DEF w
<1>5. /\ Opened(w, h).blockStack = w.blockStack
      /\ Opened(w, h).scopes = <<h.at>> \o w.scopes
  BY <1>1, <1>3, OpenedFields
<1>6. /\ state \in Fields /\ state.importedSymbols \in Seq(Symbols)
      /\ state.macros \in SUBSET Names
      /\ state.blockStack = w.blockStack
      /\ Opens(state.blocks, w.blockStack)
      /\ Placed(state.importedSymbols, <<h.at>> \o w.scopes)
  <2>1. Agree(state, Opened(w, h)) /\ state \in Fields
    BY <1>3, TopAgrees
  <2> QED
    BY <1>5, <2>1, FieldTypes DEF Agree
<1>7. i = PopScope(state.importedSymbols) /\ c \in SUBSET Names /\ state.macros \subseteq c
  BY <1>3, <1>6
<1>. HIDE DEF i, c
<1>8. i \in Seq(Symbols) /\ Placed(i, w.scopes)
  BY <1>3, <1>4, <1>6, <1>7, PlacedPop
<1>9. /\ state' \in Fields /\ state'.parent = state.parent
      /\ state'.blocks = state.blocks /\ state'.blockStack = state.blockStack
      /\ state'.importedSymbols = i
      /\ state'.macros = c /\ state'.traits = state.traits
      /\ state'.embeddedTemplates = state.embeddedTemplates
  BY <1>1, <1>6, <1>7, <1>8 DEF Fields
<1>10. Agree(state', Last(Nesting(pending')))
  BY <1>6, <1>8, <1>9 DEF Agree, w
<1>11. DOMAIN state.blocks \subseteq DOMAIN state'.blocks /\ state.macros \subseteq state'.macros
  BY <1>7, <1>9
<1> QED
  BY <1>1, <1>2, <1>3, <1>9, <1>10, <1>11, ScopeKept

-----------------------------------------------------------------------------
(* The templates that begin and end *)

LEMMA FreshAgrees ==
    ASSUME NEW f, f = Fresh \/ f = [Fresh EXCEPT !.parent = TRUE], NEW h \in Calls
    PROVE  /\ f \in Fields /\ Agree(f, Began(h)) /\ f.embeddedTemplates = << >>
<1>1. /\ Fresh.blocks = << >> /\ Fresh.blockStack = << >>
      /\ Fresh.importedSymbols = << << >> >> /\ Fresh.embeddedTemplates = << >>
  BY DEF Fresh
<1>2. Fresh \in Fields
  BY FreshTyped
<1>3. /\ f \in Fields /\ f.blocks = Fresh.blocks /\ f.blockStack = Fresh.blockStack
      /\ f.importedSymbols = Fresh.importedSymbols
      /\ f.embeddedTemplates = Fresh.embeddedTemplates
  <2>1. CASE f = Fresh
    BY <1>2, <2>1
  <2>2. CASE f = [Fresh EXCEPT !.parent = TRUE]
    BY <1>2, <2>2 DEF Fields
  <2> QED
    BY <2>1, <2>2
<1>4. Began(h).blockStack = << >> /\ Began(h).scopes = <<h.at>>
  BY DEF Began
<1>5. Opens(<< >>, << >>)
  BY DEF Opens, Empties, ToSet, IsInjective
<1>6. Placed(<< << >> >>, <<h.at>>)
  <2>. DEFINE symbols == << << >> >>
  <2>1. /\ Len(symbols) = 1 /\ Len(<<h.at>>) = 1 /\ DOMAIN symbols = {1}
        /\ symbols[1] = << >> /\ DOMAIN << >> = {}
    OBVIOUS
  <2>2. DOMAIN symbols[1] = {}
    BY <2>1
  <2>. HIDE DEF symbols
  <2>3. Placed(symbols, <<h.at>>)
    BY <2>1, <2>2 DEF Placed
  <2> QED
    BY <2>3 DEF symbols
<1> QED
  BY <1>1, <1>3, <1>4, <1>5, <1>6 DEF Agree

LEMMA NumberedNone ==
    ASSUME NEW x
    PROVE  Numbered(<< >>, x) /\ ToSet(<< >>) = {}
BY DEF Numbered, ToSet, IsInjective

(* A template begins in those that are open.                               *)
LEMMA PushLevels ==
    ASSUME NEW st \in Fields, NEW stk \in Seq(Fields), NEW l \in Nat, NEW x,
           NEW open \in Seq(Levels), Levelled(st, stk, l, x, open),
           NEW f, NEW b \in Levels, Agree(f, b), f.embeddedTemplates = << >>
    PROVE  /\ Levelled(f, Append(stk, st), l, x, Append(open, b))
           /\ Grows(st, stk, l, open, f, Append(stk, st), l, Append(open, b))
<1>. DEFINE n == Len(open)
            next == Append(open, b)
            stk2 == Append(stk, st)
            e(m) == FieldsAt(st, stk, l, open, m)
            g(m) == FieldsAt(f, stk2, l, next, m)
<1>1. /\ n \in Nat /\ DOMAIN open = 1 .. n /\ DOMAIN next = 1 .. n + 1 /\ Len(next) = n + 1
      /\ next[n + 1] = b /\ \A m \in 1 .. n : next[m] = open[m]
  OBVIOUS
<1>2. Len(stk) = l + n
  BY DEF Levelled
<1>3. /\ Len(stk2) = l + n + 1 /\ stk2[l + n + 1] = st
      /\ \A k \in 1 .. l + n : stk2[k] = stk[k]
  BY <1>1, <1>2
<1>4. ASSUME NEW m \in 1 .. n
      PROVE  /\ Agree(e(m), open[m])
             /\ Numbered(e(m).embeddedTemplates, x)
             /\ \A k \in (1 .. n) \ {m} :
                  ToSet(e(m).embeddedTemplates) \cap ToSet(e(k).embeddedTemplates) = {}
  BY <1>1 DEF Levelled
<1>. HIDE DEF n, next, stk2
<1>5. g(n + 1) = f
  BY <1>1 DEF FieldsAt
<1>6. ASSUME NEW m \in 1 .. n
      PROVE  g(m) = e(m) /\ e(m) \in Fields
  <2>0. m # n + 1
    BY <1>1
  <2>1. CASE m = n
    BY <1>1, <1>3, <2>0, <2>1 DEF FieldsAt, n
  <2>2. CASE m # n
    <3>. DEFINE k == l + m + 1
    <3>1. k \in 1 .. l + n /\ k \in 1 .. Len(stk)
      BY <1>1, <1>2, <2>2
    <3>. HIDE DEF k
    <3>2. stk2[k] = stk[k] /\ stk[k] \in Fields
      BY <1>3, <3>1, ElementOfSeq
    <3>3. g(m) = stk2[k] /\ e(m) = stk[k]
      BY <1>1, <2>0, <2>2 DEF FieldsAt, k, n
    <3> QED
      BY <3>2, <3>3
  <2> QED
    BY <2>1, <2>2
<1>. HIDE DEF e, g
<1>7. ASSUME NEW m \in 1 .. n + 1
      PROVE  /\ Agree(g(m), next[m])
             /\ Numbered(g(m).embeddedTemplates, x)
             /\ \A k \in (1 .. n + 1) \ {m} :
                  ToSet(g(m).embeddedTemplates) \cap ToSet(g(k).embeddedTemplates) = {}
  <2>1. CASE m = n + 1
    BY <1>1, <1>5, <2>1, NumberedNone
  <2>2. CASE m # n + 1
    <3>1. m \in 1 .. n
      BY <1>1, <2>2
    <3>2. ASSUME NEW k \in (1 .. n + 1) \ {m}
          PROVE  ToSet(g(m).embeddedTemplates) \cap ToSet(g(k).embeddedTemplates) = {}
      <4>1. CASE k = n + 1
        BY <1>5, <4>1, NumberedNone
      <4>2. CASE k # n + 1
        <5>1. k \in (1 .. n) \ {m}
          BY <1>1, <4>2
        <5> QED
          BY <1>4, <1>6, <3>1, <5>1
      <4> QED
        BY <4>1, <4>2
    <3> QED
      BY <1>1, <1>4, <1>6, <3>1, <3>2
  <2> QED
    BY <2>1, <2>2
<1>8. Len(stk2) = l + Len(next)
  <2>1. l + (n + 1) = l + n + 1
    BY <1>1
  <2> QED
    BY <1>1, <1>3, <2>1
<1>9. Levelled(f, stk2, l, x, next)
  BY <1>1, <1>7, <1>8 DEF Levelled, g
<1>10. Grows(st, stk, l, open, f, stk2, l, next)
  <2>1. ASSUME NEW m \in DOMAIN open \cap DOMAIN next PROVE Includes(e(m), g(m))
    BY <1>1, <1>6, IncludesReflexive
  <2> QED
    BY <2>1 DEF Grows, e, g
<1> QED
  BY <1>9, <1>10 DEF stk2, next

LEMMA PrefixOf ==
    ASSUME NEW S, NEW a \in Seq(S), NEW e \in Seq(S), Len(a) <= Len(e),
           \A i \in 1 .. Len(a) : e[i] = a[i]
    PROVE  IsPrefix(a, e)
<1>. DEFINE n == Len(a)
            p == SubSeq(a, 1, n)
            q == SubSeq(e, 1, n)
<1>1. /\ n \in Nat /\ n \in Int /\ 1 \in Int
      /\ \A i \in 1 .. n : a[i] \in S /\ e[i] \in S /\ e[i] = a[i]
  OBVIOUS
<1>. HIDE DEF n
<1>2. /\ p \in Seq(S) /\ Len(p) = IF 1 <= n THEN n - 1 + 1 ELSE 0
      /\ \A i \in 1 .. n - 1 + 1 : p[i] = a[1 + i - 1]
  BY <1>1, SubSeqProperties
<1>3. /\ q \in Seq(S) /\ Len(q) = IF 1 <= n THEN n - 1 + 1 ELSE 0
      /\ \A i \in 1 .. n - 1 + 1 : q[i] = e[1 + i - 1]
  BY <1>1, SubSeqProperties
<1>. HIDE DEF p, q
<1>4. Len(p) = n /\ Len(q) = n /\ \A i \in 1 .. n : p[i] = a[i] /\ q[i] = e[i]
  BY <1>1, <1>2, <1>3
<1>5. p = q
  BY <1>1, <1>2, <1>3, <1>4, SeqEqual
<1> QED
  BY <1>5 DEF IsPrefix, p, q, n

LEMMA AppendedLast ==
    ASSUME NEW d \in Seq(Nat), NEW x \in Nat, NEW e, e = d \o <<x>>
    PROVE  /\ e \in Seq(Nat) /\ Len(e) = Len(d) + 1 /\ DOMAIN e = 1 .. Len(d) + 1
           /\ \A i \in 1 .. Len(d) : e[i] = d[i]
           /\ e[Len(d) + 1] = x
OBVIOUS

(* The indexes of what is embedded in a template, of what is embedded in a *)
(* template that ends in it, and of that template.                         *)
Joined(a, c, x) == a \o c \o <<x>>

Apart(a, c) == ToSet(a) \cap ToSet(c) = {}

LEMMA NumberedConcat ==
    ASSUME NEW a \in Seq(Nat), NEW c \in Seq(Nat), NEW x \in Nat \ {0},
           Numbered(a, x), Numbered(c, x), ToSet(a) \cap ToSet(c) = {}
    PROVE  /\ Joined(a, c, x) \in Seq(Nat) /\ Numbered(Joined(a, c, x), x + 1)
           /\ ToSet(Joined(a, c, x)) = ToSet(a) \cup ToSet(c) \cup {x}
           /\ IsPrefix(a, Joined(a, c, x))
<1>. DEFINE n == Len(a)
            k == Len(c)
            e == Joined(a, c, x)
            d == a \o c
<1>1. n \in Nat /\ k \in Nat /\ DOMAIN a = 1 .. n /\ DOMAIN c = 1 .. k
  OBVIOUS
<1>2. /\ d \in Seq(Nat) /\ Len(d) = n + k
      /\ \A i \in 1 .. n : d[i] = a[i]
      /\ \A i \in 1 .. k : d[n + i] = c[i]
  OBVIOUS
<1>. HIDE DEF d
<1>3. /\ e \in Seq(Nat) /\ Len(e) = n + k + 1 /\ DOMAIN e = 1 .. n + k + 1
      /\ \A i \in 1 .. n + k : e[i] = d[i]
      /\ e[n + k + 1] = x
  <2>1. e = d \o <<x>> /\ x \in Nat
    BY DEF d, Joined
  <2>. HIDE DEF n, k, e
  <2>2. /\ e \in Seq(Nat) /\ Len(e) = Len(d) + 1 /\ DOMAIN e = 1 .. Len(d) + 1
        /\ \A i \in 1 .. Len(d) : e[i] = d[i]
        /\ e[Len(d) + 1] = x
    BY <1>2, <2>1, AppendedLast
  <2> QED
    BY <1>2, <2>2
<1>. HIDE DEF n, k, e
<1>4. /\ \A i \in 1 .. n : e[i] = a[i]
      /\ \A i \in 1 .. k : e[n + i] = c[i]
  <2>1. \A i \in 1 .. n : i \in 1 .. n + k
    BY <1>1
  <2>2. \A i \in 1 .. k : n + i \in 1 .. n + k
    BY <1>1
  <2> QED
    BY <1>2, <1>3, <2>1, <2>2
<1>5. \A i \in DOMAIN e : \/ i \in 1 .. n
                          \/ i \in (n + 1) .. (n + k) /\ i - n \in 1 .. k /\ n + (i - n) = i
                          \/ i = n + k + 1
  BY <1>1, <1>3
<1>6. ASSUME NEW i \in DOMAIN e
      PROVE  \/ i \in 1 .. n /\ e[i] = a[i] /\ e[i] \in ToSet(a)
             \/ i \in (n + 1) .. (n + k) /\ i - n \in 1 .. k /\ e[i] = c[i - n] /\ e[i] \in ToSet(c)
             \/ i = n + k + 1 /\ e[i] = x
  <2>1. CASE i \in 1 .. n
    BY <1>1, <1>4, <2>1 DEF ToSet
  <2>2. CASE i \in (n + 1) .. (n + k) /\ i - n \in 1 .. k /\ n + (i - n) = i
    <3>. DEFINE j == i - n
    <3>1. j \in 1 .. k /\ n + j = i
      BY <2>2
    <3>. HIDE DEF j
    <3>2. e[i] = c[j] /\ c[j] \in ToSet(c)
      BY <1>1, <1>4, <3>1 DEF ToSet
    <3> QED
      BY <2>2, <3>2 DEF j
  <2>3. CASE i = n + k + 1
    BY <1>3, <2>3
  <2> QED
    BY <1>5, <2>1, <2>2, <2>3
<1>7. ToSet(e) = ToSet(a) \cup ToSet(c) \cup {x}
  <2>1. ToSet(e) \subseteq ToSet(a) \cup ToSet(c) \cup {x}
    BY <1>6 DEF ToSet
  <2>2. ToSet(a) \subseteq ToSet(e)
    <3>1. \A i \in 1 .. n : i \in DOMAIN e
      BY <1>1, <1>3
    <3> QED
      BY <1>1, <1>4, <3>1 DEF ToSet
  <2>3. ToSet(c) \subseteq ToSet(e)
    <3>1. \A i \in 1 .. k : n + i \in DOMAIN e
      BY <1>1, <1>3
    <3> QED
      BY <1>1, <1>4, <3>1 DEF ToSet
  <2>4. x \in ToSet(e)
    <3>1. n + k + 1 \in DOMAIN e
      BY <1>1, <1>3
    <3> QED
      BY <1>3, <3>1 DEF ToSet
  <2> QED
    BY <2>1, <2>2, <2>3, <2>4
<1>8. /\ ToSet(a) \subseteq 1 .. x - 1 /\ ToSet(c) \subseteq 1 .. x - 1
      /\ IsInjective(a) /\ IsInjective(c)
  BY DEF Numbered
<1>9. ToSet(e) \subseteq 1 .. (x + 1) - 1
  <2>1. 1 .. x - 1 \subseteq 1 .. x /\ x \in 1 .. x /\ (x + 1) - 1 = x
    OBVIOUS
  <2> QED
    BY <1>7, <1>8, <2>1
<1>10. x \notin ToSet(a) /\ x \notin ToSet(c)
  BY <1>8
<1>11. IsInjective(e)
  <2>1. ASSUME NEW i \in DOMAIN e, NEW j \in DOMAIN e, e[i] = e[j] PROVE i = j
    <3>1. CASE i \in 1 .. n /\ j \in 1 .. n
      BY <1>1, <1>4, <1>8, <2>1, <3>1 DEF IsInjective
    <3>2. CASE i = n + k + 1 /\ j = n + k + 1
      BY <3>2
    <3>3. CASE /\ i \in (n + 1) .. (n + k) /\ i - n \in 1 .. k /\ e[i] = c[i - n]
               /\ j \in (n + 1) .. (n + k) /\ j - n \in 1 .. k /\ e[j] = c[j - n]
      <4>1. i - n = j - n
        BY <1>1, <1>8, <2>1, <3>3 DEF IsInjective
      <4> QED
        BY <1>1, <3>3, <4>1
    <3>4. CASE e[i] \in ToSet(a) /\ e[j] \notin ToSet(a)
      BY <2>1, <3>4
    <3>5. \/ i \in 1 .. n /\ e[i] \in ToSet(a)
          \/ i \in (n + 1) .. (n + k) /\ i - n \in 1 .. k /\ e[i] = c[i - n] /\ e[i] \in ToSet(c)
          \/ i = n + k + 1 /\ e[i] = x
      BY <1>6
    <3>6. \/ j \in 1 .. n /\ e[j] \in ToSet(a)
          \/ j \in (n + 1) .. (n + k) /\ j - n \in 1 .. k /\ e[j] = c[j - n] /\ e[j] \in ToSet(c)
          \/ j = n + k + 1 /\ e[j] = x
      BY <1>6
    <3> QED
      BY <1>10, <2>1, <3>1, <3>2, <3>3, <3>5, <3>6
  <2> QED
    BY <2>1 DEF IsInjective
<1>12. IsPrefix(a, e)
  <2>1. Len(a) <= Len(e) /\ \A i \in 1 .. Len(a) : e[i] = a[i]
    BY <1>1, <1>3, <1>4 DEF n
  <2> QED
    BY <1>3, <2>1, PrefixOf
<1> QED
  BY <1>3, <1>7, <1>9, <1>11, <1>12 DEF Numbered, e

(* What an enclosing template f says when the one embedded in it, with the *)
(* modules c embedded in that one, ends as module x.                       *)
WithEmbedded(f, c, x) == [f EXCEPT !.embeddedTemplates = Joined(f.embeddedTemplates, c, x)]

LEMMA Embedding ==
    ASSUME NEW f \in Fields, NEW e \in Seq(Nat), IsPrefix(f.embeddedTemplates, e),
           NEW g, g = [f EXCEPT !.embeddedTemplates = e], NEW w, Agree(f, w)
    PROVE  /\ g \in Fields /\ g.embeddedTemplates = e
           /\ Agree(g, w) /\ Includes(f, g)
<1>1. /\ g \in Fields /\ g.embeddedTemplates = e
      /\ g.parent = f.parent /\ g.blocks = f.blocks /\ g.blockStack = f.blockStack
      /\ g.macros = f.macros /\ g.importedSymbols = f.importedSymbols /\ g.traits = f.traits
  BY DEF Fields
<1>2. Agree(g, w)
  BY <1>1 DEF Agree
<1>3. f.traits <= f.traits
  BY FieldTypes
<1> QED
  BY <1>1, <1>2, <1>3 DEF Includes

LEMMA EmbeddedIn ==
    ASSUME NEW f \in Fields, NEW c \in Seq(Nat), NEW x \in Nat \ {0},
           Numbered(f.embeddedTemplates, x), Numbered(c, x),
           Apart(f.embeddedTemplates, c),
           NEW g, g = WithEmbedded(f, c, x),
           NEW w, Agree(f, w)
    PROVE  /\ g \in Fields /\ Agree(g, w) /\ Includes(f, g)
           /\ Numbered(g.embeddedTemplates, x + 1)
           /\ ToSet(g.embeddedTemplates) = ToSet(f.embeddedTemplates) \cup ToSet(c) \cup {x}
<1>. DEFINE a == f.embeddedTemplates
            e == Joined(a, c, x)
<1>1. a \in Seq(Nat)
  BY FieldTypes
<1>2. /\ e \in Seq(Nat) /\ Numbered(e, x + 1)
      /\ ToSet(e) = ToSet(a) \cup ToSet(c) \cup {x}
      /\ IsPrefix(a, e)
  BY <1>1, NumberedConcat DEF Apart
<1>3. g = [f EXCEPT !.embeddedTemplates = e]
  BY DEF WithEmbedded
<1>. HIDE DEF e
<1>4. /\ g \in Fields /\ g.embeddedTemplates = e
      /\ Agree(g, w) /\ Includes(f, g)
  BY <1>2, <1>3, Embedding
<1> QED
  BY <1>2, <1>4

(* An embedded template ends in those that are open.                       *)
LEMMA PopLevels ==
    ASSUME NEW st \in Fields, NEW stk \in Seq(Fields), NEW l \in Nat, NEW x \in Nat \ {0},
           NEW next \in Seq(Levels), next # << >>, NEW b, NEW open, open = Append(next, b),
           Levelled(st, stk, l, x, open),
           NEW g, g = WithEmbedded(Last(stk), st.embeddedTemplates, x)
    PROVE  /\ g \in Fields /\ Front(stk) \in Seq(Fields)
           /\ Levelled(g, Front(stk), l, x + 1, next)
           /\ Grows(st, stk, l, open, g, Front(stk), l, next)
<1>. DEFINE n == Len(next)
            front == Front(stk)
            f(m) == FieldsAt(st, stk, l, open, m)
            h(m) == FieldsAt(g, front, l, next, m)
            E(m) == f(m).embeddedTemplates
            F(m) == h(m).embeddedTemplates
<1>1. /\ n \in Nat \ {0} /\ DOMAIN next = 1 .. n /\ Len(open) = n + 1 /\ DOMAIN open = 1 .. n + 1
      /\ \A m \in 1 .. n : open[m] = next[m]
  OBVIOUS
<1>2. Len(stk) = l + (n + 1)
  BY <1>1 DEF Levelled
<1>3. /\ front \in Seq(Fields) /\ Len(front) = l + n
      /\ \A k \in 1 .. l + n : front[k] = stk[k]
      /\ Last(stk) \in Fields /\ Last(stk) = stk[l + n + 1]
  <2>1. stk # << >> /\ Len(stk) - 1 = l + n /\ Len(stk) = l + n + 1
    <3>. HIDE DEF n
    <3> QED
      BY <1>1, <1>2
  <2>. HIDE DEF n
  <2> QED
    BY <2>1, FrontAndLast
<1>4. ASSUME NEW m \in 1 .. n + 1
      PROVE  /\ Agree(f(m), open[m])
             /\ Numbered(E(m), x)
             /\ \A k \in (1 .. n + 1) \ {m} : ToSet(E(m)) \cap ToSet(E(k)) = {}
  BY <1>1 DEF Levelled
<1>. HIDE DEF n, front
<1>5. f(n + 1) = st /\ f(n) = Last(stk) /\ h(n) = g
  <2>1. n # n + 1
    BY <1>1
  <2> QED
    BY <1>1, <1>3, <2>1 DEF FieldsAt, n
<1>6. ASSUME NEW m \in 1 .. n - 1
      PROVE  h(m) = f(m) /\ f(m) \in Fields
  <2>. DEFINE k == l + m + 1
  <2>1. m # n /\ m # n + 1 /\ k \in 1 .. l + n /\ k \in 1 .. Len(stk)
    BY <1>1, <1>2
  <2>2. f(m) = stk[k] /\ h(m) = front[k]
    BY <1>1, <2>1 DEF FieldsAt, n
  <2>. HIDE DEF k
  <2> QED
    BY <1>3, <2>1, <2>2, ElementOfSeq
<1>. HIDE DEF f, h
<1>7. n \in 1 .. n + 1 /\ n + 1 \in (1 .. n + 1) \ {n}
  BY <1>1
<1>8. /\ g \in Fields /\ Agree(g, next[n]) /\ Includes(Last(stk), g)
      /\ Numbered(g.embeddedTemplates, x + 1)
      /\ ToSet(g.embeddedTemplates) = ToSet(E(n)) \cup ToSet(E(n + 1)) \cup {x}
  <2>. DEFINE last == Last(stk)
              c == st.embeddedTemplates
              w == next[n]
  <2>1. last \in Fields /\ c \in Seq(Nat) /\ g = WithEmbedded(last, c, x)
    BY <1>3, FieldTypes
  <2>2. E(n) = last.embeddedTemplates /\ E(n + 1) = c
    BY <1>5
  <2>3. f(n) = last
    BY <1>5
  <2>. HIDE DEF last, c, w, E
  <2>4. Numbered(E(n), x) /\ Numbered(E(n + 1), x) /\ ToSet(E(n)) \cap ToSet(E(n + 1)) = {}
    BY <1>4, <1>7
  <2>5. Agree(last, w)
    BY <1>1, <1>4, <1>7, <2>3 DEF w
  <2>6. /\ g \in Fields /\ Agree(g, w) /\ Includes(last, g)
        /\ Numbered(g.embeddedTemplates, x + 1)
        /\ ToSet(g.embeddedTemplates) = ToSet(last.embeddedTemplates) \cup ToSet(c) \cup {x}
    <3>1. /\ Numbered(last.embeddedTemplates, x) /\ Numbered(c, x)
          /\ Apart(last.embeddedTemplates, c)
      BY <2>2, <2>4 DEF Apart
    <3> QED
      BY <2>1, <2>5, <3>1, EmbeddedIn
  <2> QED
    BY <2>2, <2>6 DEF last, w
<1>9. /\ F(n) = g.embeddedTemplates
      /\ \A m \in 1 .. n - 1 : F(m) = E(m)
  BY <1>5, <1>6
<1>. HIDE DEF E, F
<1>10. ASSUME NEW m \in 1 .. n - 1
       PROVE  /\ Agree(h(m), next[m])
              /\ Numbered(F(m), x + 1)
              /\ x \notin ToSet(E(m))
              /\ Includes(f(m), h(m))
  <2>1. m \in 1 .. n + 1 /\ m \in 1 .. n
    BY <1>1
  <2>2. Agree(f(m), next[m]) /\ Numbered(E(m), x)
    BY <1>1, <1>4, <2>1
  <2>3. x \notin ToSet(E(m)) /\ Numbered(E(m), x + 1)
    BY <2>2 DEF Numbered
  <2> QED
    BY <1>6, <1>9, <2>2, <2>3, IncludesReflexive
<1>11. ASSUME NEW m \in 1 .. n, NEW k \in (1 .. n) \ {m}
       PROVE  ToSet(F(m)) \cap ToSet(F(k)) = {}
  <2>1. ASSUME NEW i \in 1 .. n - 1 PROVE ToSet(F(n)) \cap ToSet(F(i)) = {}
    <3>1. n \in (1 .. n + 1) \ {i} /\ n + 1 \in (1 .. n + 1) \ {i} /\ i \in 1 .. n + 1
      BY <1>1
    <3>2. ToSet(E(i)) \cap ToSet(E(n)) = {} /\ ToSet(E(i)) \cap ToSet(E(n + 1)) = {}
      BY <1>4, <3>1
    <3>3. x \notin ToSet(E(i))
      BY <1>10
    <3> QED
      BY <1>8, <1>9, <3>2, <3>3
  <2>2. CASE m = n
    <3>1. k \in 1 .. n - 1
      BY <1>1, <2>2
    <3> QED
      BY <2>1, <2>2, <3>1
  <2>3. CASE k = n
    <3>1. m \in 1 .. n - 1
      BY <1>1, <2>3
    <3> QED
      BY <2>1, <2>3, <3>1
  <2>4. CASE m # n /\ k # n
    <3>1. m \in 1 .. n - 1 /\ k \in 1 .. n - 1 /\ m \in 1 .. n + 1 /\ k \in (1 .. n + 1) \ {m}
      BY <1>1, <2>4
    <3> QED
      BY <1>4, <1>9, <3>1
  <2> QED
    BY <2>2, <2>3, <2>4
<1>12. ASSUME NEW m \in 1 .. n
       PROVE  Agree(h(m), next[m]) /\ Numbered(F(m), x + 1) /\ Includes(f(m), h(m))
  <2>1. CASE m = n
    BY <1>5, <1>8, <1>9, <2>1
  <2>2. CASE m # n
    <3>1. m \in 1 .. n - 1
      BY <1>1, <2>2
    <3> QED
      BY <1>10, <3>1
  <2> QED
    BY <2>1, <2>2
<1>13. Len(next) = n
  BY DEF n
<1>14. Levelled(g, front, l, x + 1, next)
  BY <1>1, <1>3, <1>11, <1>12, <1>13 DEF Levelled, h, F
<1>15. Grows(st, stk, l, open, g, front, l, next)
  <2>1. ASSUME NEW m \in DOMAIN open \cap DOMAIN next PROVE Includes(f(m), h(m))
    BY <1>1, <1>12
  <2> QED
    BY <2>1 DEF Grows, f, h
<1> QED
  BY <1>3, <1>8, <1>14, <1>15 DEF front

LEMMA TemplateBegins ==
    ASSUME TypeOK, LevelsInv, NEW h \in Calls,
           Nesting(pending) \in Seq(Levels),
           Nesting(pending') = Append(Nesting(pending), Began(h)),
           stack' = Append(stack, state),
           state' = Fresh \/ state' = [Fresh EXCEPT !.parent = TRUE],
           left' = left, embeddedTemplateIndex' = embeddedTemplateIndex
    PROVE  /\ state' \in Fields /\ stack' \in Seq(Fields) /\ left' \in 0 .. Len(stack')
           /\ LevelsInv' /\ Accumulates
<1>. DEFINE open == Nesting(pending)
            next == Nesting(pending')
            b == Began(h)
            s == Append(stack, state)
            f == state'
            x == embeddedTemplateIndex
<1>1. /\ f \in Fields /\ Agree(f, b) /\ f.embeddedTemplates = << >>
  BY FreshAgrees
<1>2. b \in Levels
  BY BeganLevel
<1>3. /\ state \in Fields /\ stack \in Seq(Fields) /\ left \in Nat /\ left \in 0 .. Len(stack)
  BY DEF TypeOK
<1>4. s \in Seq(Fields) /\ left \in 0 .. Len(s)
  BY <1>3
<1>5. Levelled(state, stack, left, x, open)
  BY DEF LevelsInv
<1>6. next = Append(open, b) /\ open \in Seq(Levels)
  OBVIOUS
<1>. HIDE DEF open, next, b, f, x
<1>7. /\ Levelled(f, s, left, x, Append(open, b))
      /\ Grows(state, stack, left, open, f, s, left, Append(open, b))
  BY <1>1, <1>2, <1>3, <1>5, <1>6, PushLevels
<1>8. /\ Levelled(f, s, left, x, next)
      /\ Grows(state, stack, left, open, f, s, left, next)
  BY <1>6, <1>7
<1>. HIDE DEF s
<1>9. s = stack' /\ f = state' /\ x = embeddedTemplateIndex'
  BY DEF s, f, x
<1>10. /\ Levelled(state', stack', left', embeddedTemplateIndex', next)
       /\ Grows(state, stack, left, open, state', stack', left', next)
  BY <1>8, <1>9
<1> QED
  BY <1>1, <1>4, <1>9, <1>10 DEF LevelsInv, Accumulates, open, next

LEMMA OneTemplate ==
    ASSUME NEW hs, WellNested(hs), Len(hs) = 1
    PROVE  Nesting(hs) = Append(<< >>, Began(hs[1]))
<1>. DEFINE h == hs[1]
            none == << >>
<1>1. hs \in Seq(Calls) /\ hs # << >> /\ 1 \in DOMAIN hs
  BY DEF WellNested
<1>2. h.tag = "template"
  BY <1>1 DEF WellNested
<1>3. Front(hs) = none /\ Last(hs) = h
  <2>1. Len(Front(hs)) = Len(hs) - 1 /\ Front(hs) \in Seq(Calls) /\ Last(hs) = hs[Len(hs)]
    BY <1>1, FrontAndLast
  <2>2. Len(Front(hs)) = 0
    BY <2>1
  <2> QED
    BY <2>1, <2>2
<1>4. Nesting(none) = none
  BY NestingEmpty
<1>. HIDE DEF none, h
<1>5. Nesting(hs) = Enter(none, h)
  BY <1>1, <1>3, <1>4, NestingFront
<1>6. Nesting(hs) = Append(none, Began(h))
  BY <1>2, <1>5, EnterTemplate
<1> QED
  BY <1>6 DEF none, h

LEMMA ParseKept ==
    ASSUME TypeOK, LevelsInv, Parse
    PROVE  Kept
<1>. DEFINE h == [Call("template", NoName) EXCEPT !.at = tags]
            hs == <<h>>
<1>1. /\ pending = << >> /\ pending' = hs /\ parses < MaxParses /\ parses' = parses + 1
      /\ stack' = Append(stack, state) /\ state' = Fresh /\ varNameSalt' = 0
      /\ embeddedTemplateIndex' = embeddedTemplateIndex /\ tags' = tags /\ left' = left
  BY DEF Parse, Parsing
<1>2. h \in Calls /\ h.tag = "template"
  <2>1. tags \in Salts /\ "template" \in Tags /\ {} \in SUBSET Kinds
    BY DEF TypeOK, Tags
  <2>. DEFINE c == Call("template", NoName)
  <2>2. c.tag = "template" /\ tags + 1 \in Nat
    BY <2>1, BoundTypes DEF Call
  <2>3. c \in [tag : Tags, name : Names \cup Salts \cup {NoName}, at : Nat,
               stage : {"fork", "end"}, body : SUBSET Kinds, many : BOOLEAN]
    BY <2>1, <2>2 DEF Call
  <2>4. h = [c EXCEPT !.at = tags]
    OBVIOUS
  <2>. HIDE DEF c
  <2> QED
    BY <2>1, <2>2, <2>3, <2>4 DEF Calls
<1>. HIDE DEF h
<1>3. /\ hs \in Seq(Calls) /\ hs # << >> /\ Len(hs) = 1 /\ DOMAIN hs = {1} /\ hs[1] = h
  BY <1>2
<1>. HIDE DEF hs
<1>4. WellNested(hs)
  BY <1>2, <1>3 DEF WellNested
<1>5. Nesting(hs) = Append(<< >>, Began(h))
  BY <1>3, <1>4, OneTemplate
<1>6. Nesting(pending) = << >> /\ Nesting(pending) \in Seq(Levels)
  <2>1. Nesting(pending) = << >>
    BY <1>1, NestingEmpty
  <2>2. << >> \in Seq(Levels)
    OBVIOUS
  <2> QED
    BY <2>1, <2>2
<1>7. Nesting(pending') = Append(Nesting(pending), Began(h))
  BY <1>1, <1>5, <1>6
<1>8. /\ state' \in Fields /\ stack' \in Seq(Fields) /\ left' \in 0 .. Len(stack')
      /\ LevelsInv' /\ Accumulates
  BY <1>1, <1>2, <1>6, <1>7, TemplateBegins
<1>9. tags' \in Salts /\ tags' \in Nat /\ 0 \in 0 .. tags' /\ parses' \in 0 .. MaxParses
  BY <1>1, BoundTypes, ParserBounds DEF TypeOK
<1>10. embeddedTemplateIndex' \in Nat \ {0} /\ WellNested(pending')
  BY <1>1, <1>4 DEF TypeOK
<1>11. TypeOK'
  BY <1>1, <1>8, <1>9, <1>10 DEF TypeOK, WellNested
<1> QED
  BY <1>8, <1>11 DEF Kept

LEMMA EmbedKept ==
    ASSUME TypeOK, LevelsInv, Embed
    PROVE  Kept
<1>. DEFINE h == Call("embed", NoName)
<1>1. /\ More /\ pending' = Append(pending, h) /\ tags' = tags + 1
      /\ stack' = Append(stack, state) /\ state' = [Fresh EXCEPT !.parent = TRUE]
      /\ varNameSalt' = 0 /\ embeddedTemplateIndex' = embeddedTemplateIndex
      /\ parses' = parses /\ left' = left
  BY DEF Embed, Open
<1>2. h \in Calls /\ h.tag = "embed"
  <2>1. "embed" \in Tags
    BY DEF Tags
  <2> QED
    BY <1>1, <2>1, CallTyped
<1>. HIDE DEF h
<1>3. Parsing
  BY <1>1 DEF More
<1>4. WellNested(pending') /\ Nesting(pending') = Enter(Nesting(pending), h)
  <2>1. WellNested(pending) /\ pending # << >>
    BY <1>3, InTemplate
  <2>2. h.tag # "template" /\ h.tag \notin {"block", "macro"} /\ h.tag # "filter"
    BY <1>2
  <2>3. WellNested(Append(pending, h)) /\ Nesting(Append(pending, h)) = Enter(Nesting(pending), h)
    BY <1>2, <2>1, <2>2, AppendNested
  <2> QED
    BY <1>1, <2>3
<1>5. Nesting(pending') = Append(Nesting(pending), Began(h)) /\ Nesting(pending) \in Seq(Levels)
  BY <1>2, <1>3, <1>4, EnterTemplate, InTemplate
<1>6. /\ state' \in Fields /\ stack' \in Seq(Fields) /\ left' \in 0 .. Len(stack')
      /\ LevelsInv' /\ Accumulates
  BY <1>1, <1>2, <1>5, TemplateBegins
<1>7. tags' \in Salts /\ tags' \in Nat /\ 0 \in 0 .. tags'
  BY <1>1, NextTag, BoundTypes
<1>8. /\ embeddedTemplateIndex' \in Nat \ {0} /\ parses' \in 0 .. MaxParses
  BY <1>1 DEF TypeOK
<1>9. TypeOK'
  BY <1>1, <1>4, <1>6, <1>7, <1>8 DEF TypeOK, WellNested
<1> QED
  BY <1>6, <1>9 DEF Kept

LEMMA FunctionNodeKept ==
    ASSUME TypeOK, LevelsInv, getFunctionNode
    PROVE  Kept
<1>1. Adds({"output"})
  BY DEF getFunctionNode, Adds
<1>2. {"output"} \in SUBSET Kinds
  BY DEF Kinds
<1> QED
  BY <1>1, <1>2, AddsKept

(* No template is being parsed.                                            *)
LEMMA NoLevels ==
    ASSUME NEW st, NEW stk, NEW l \in Nat, NEW x, Len(stk) = l
    PROVE  Levelled(st, stk, l, x, << >>)
<1>1. Len(<< >>) = 0 /\ DOMAIN << >> = {} /\ l + 0 = l
  OBVIOUS
<1> QED
  BY <1>1 DEF Levelled

LEMMA NothingGrows ==
    ASSUME NEW st, NEW stk, NEW l, NEW open, NEW st2, NEW stk2, NEW l2
    PROVE  Grows(st, stk, l, open, st2, stk2, l2, << >>)
<1>1. DOMAIN << >> = {}
  OBVIOUS
<1> QED
  BY <1>1 DEF Grows

LEMMA EndOfTemplateKept ==
    ASSUME TypeOK, LevelsInv, EndOfTemplate
    PROVE  Kept
<1>1. /\ Len(pending) = 1 /\ pending' = << >>
      /\ state' = Last(stack) /\ stack' = Front(stack)
      /\ varNameSalt' = varNameSalt /\ embeddedTemplateIndex' = embeddedTemplateIndex
      /\ tags' = tags /\ parses' = parses /\ left' = left
  BY DEF EndOfTemplate
<1>2. WellNested(pending) /\ stack \in Seq(Fields) /\ left \in Nat /\ WellNested(<< >>)
  BY DEF TypeOK, WellNested
<1>3. Len(stack) = left + 1
  <2>. DEFINE b == Began(pending[1])
  <2>1. Nesting(pending) = Append(<< >>, b)
    BY <1>1, <1>2, OneTemplate
  <2>. HIDE DEF b
  <2>2. Len(Append(<< >>, b)) = 1
    OBVIOUS
  <2>3. Len(Nesting(pending)) = 1
    BY <2>1, <2>2
  <2> QED
    BY <2>3 DEF LevelsInv, Levelled
<1>4. state' \in Fields /\ stack' \in Seq(Fields) /\ Len(stack') = left
  <2>1. stack # << >>
    BY <1>2, <1>3
  <2>2. /\ Front(stack) \in Seq(Fields) /\ Last(stack) \in Fields
        /\ Len(Front(stack)) = Len(stack) - 1
    BY <1>2, <2>1, FrontAndLast
  <2> QED
    BY <1>1, <1>2, <1>3, <2>2
<1>5. Nesting(pending') = << >>
  BY <1>1, NestingEmpty
<1>6. LevelsInv'
  <2>1. Levelled(state', stack', left', embeddedTemplateIndex', << >>)
    BY <1>1, <1>2, <1>4, NoLevels
  <2> QED
    BY <1>5, <2>1 DEF LevelsInv
<1>7. Accumulates
  BY <1>5, NothingGrows DEF Accumulates
<1>8. left' \in 0 .. Len(stack')
  BY <1>1, <1>2, <1>4
<1>9. WellNested(pending')
  BY <1>1, <1>2
<1>10. TypeOK'
  BY <1>1, <1>4, <1>8, <1>9 DEF TypeOK, WellNested
<1> QED
  BY <1>6, <1>7, <1>10 DEF Kept

LEMMA ThrowKept ==
    ASSUME TypeOK, LevelsInv, Throw
    PROVE  Kept
<1>1. /\ left' = Len(stack) /\ pending' = << >>
      /\ stack' = stack /\ state' = state /\ varNameSalt' = varNameSalt
      /\ embeddedTemplateIndex' = embeddedTemplateIndex /\ tags' = tags /\ parses' = parses
  BY DEF Throw
<1>2. stack \in Seq(Fields) /\ Len(stack) \in Nat /\ Len(stack) \in 0 .. Len(stack)
  BY DEF TypeOK
<1>3. WellNested(pending')
  BY <1>1 DEF WellNested
<1>4. Nesting(pending') = << >>
  BY <1>1, NestingEmpty
<1>5. LevelsInv'
  <2>1. Levelled(state', stack', left', embeddedTemplateIndex', << >>)
    BY <1>1, <1>2, NoLevels
  <2> QED
    BY <1>4, <2>1 DEF LevelsInv
<1>6. Accumulates
  BY <1>4, NothingGrows DEF Accumulates
<1>7. TypeOK'
  BY <1>1, <1>2, <1>3 DEF TypeOK, WellNested
<1> QED
  BY <1>5, <1>6, <1>7 DEF Kept

LEMMA CloseEmbedKept ==
    ASSUME TypeOK, LevelsInv, CloseEmbed
    PROVE  Kept
<1>. DEFINE h == Last(pending)
            hs == Front(pending)
            x == embeddedTemplateIndex
            open == Nesting(pending)
            next == Nesting(pending')
<1>1. /\ pending # << >> /\ h.tag = "embed" /\ Parsing
      /\ pending' = AddNode(hs, "include")
      /\ state' = [Last(stack) EXCEPT !.embeddedTemplates =
                    Last(stack).embeddedTemplates \o state.embeddedTemplates \o <<x>>]
      /\ stack' = Front(stack) /\ varNameSalt' = varNameSalt
      /\ embeddedTemplateIndex' = x + 1
      /\ tags' = tags /\ parses' = parses /\ left' = left
  BY DEF CloseEmbed, Close, Current, Parsing
<1>2. /\ WellNested(hs) /\ hs # << >> /\ Nesting(pending) = Enter(Nesting(hs), h)
      /\ Nesting(hs) \in Seq(Levels) /\ Nesting(hs) # << >>
  BY <1>1, InTemplate, InnerNested
<1>. HIDE DEF h, hs
<1>3. WellNested(pending') /\ Nesting(pending') = Nesting(hs)
  <2>1. "include" \in Kinds
    BY DEF Kinds
  <2> QED
    BY <1>1, <1>2, <2>1, AddNodeNested
<1>4. open = Append(next, Began(h)) /\ next \in Seq(Levels) /\ next # << >>
  BY <1>1, <1>2, <1>3, EnterTemplate
<1>5. /\ state \in Fields /\ stack \in Seq(Fields) /\ left \in Nat /\ x \in Nat \ {0}
  BY DEF TypeOK
<1>6. Levelled(state, stack, left, x, open)
  BY DEF LevelsInv
<1>7. state' = WithEmbedded(Last(stack), state.embeddedTemplates, x)
  BY <1>1 DEF WithEmbedded, Joined
<1>. HIDE DEF open, next, x
<1>8. /\ state' \in Fields /\ Front(stack) \in Seq(Fields)
      /\ Levelled(state', Front(stack), left, x + 1, next)
      /\ Grows(state, stack, left, open, state', Front(stack), left, next)
  BY <1>4, <1>5, <1>6, <1>7, PopLevels
<1>9. /\ Levelled(state', stack', left', embeddedTemplateIndex', next)
      /\ Grows(state, stack, left, open, state', stack', left', next)
  BY <1>1, <1>8
<1>10. LevelsInv' /\ Accumulates
  BY <1>9 DEF LevelsInv, Accumulates, open, next
<1>11. left' \in 0 .. Len(stack')
  <2>1. Len(next) \in Nat /\ Len(stack') = left' + Len(next)
    BY <1>4, <1>9 DEF Levelled
  <2> QED
    BY <1>1, <1>5, <2>1
<1>12. stack' \in Seq(Fields) /\ embeddedTemplateIndex' \in Nat \ {0}
  BY <1>1, <1>5, <1>8
<1>13. TypeOK'
  BY <1>1, <1>3, <1>8, <1>11, <1>12 DEF TypeOK, WellNested
<1> QED
  BY <1>10, <1>13 DEF Kept

-----------------------------------------------------------------------------
(* The theorems *)

LEMMA StutterKept ==
    ASSUME TypeOK, LevelsInv, UNCHANGED vars
    PROVE  Kept
<1>1. /\ stack' = stack /\ state' = state /\ varNameSalt' = varNameSalt
      /\ embeddedTemplateIndex' = embeddedTemplateIndex /\ pending' = pending
      /\ tags' = tags /\ parses' = parses /\ left' = left
  BY DEF vars
<1>2. TypeOK'
  BY <1>1 DEF TypeOK
<1>3. LevelsInv' /\ Accumulates
  <2>1. CASE Parsing
    BY <1>1, <2>1, SameFields
  <2>2. CASE ~Parsing
    <3>1. Nesting(pending) = << >> /\ Nesting(pending') = << >>
      BY <1>1, <2>2, NestingEmpty DEF Parsing
    <3>2. LevelsInv'
      BY <1>1 DEF LevelsInv
    <3> QED
      BY <3>1, <3>2, NothingGrows DEF Accumulates
  <2> QED
    BY <2>1, <2>2
<1> QED
  BY <1>2, <1>3 DEF Kept

LEMMA InitKept ==
    ASSUME Init
    PROVE  TypeOK /\ LevelsInv
<1>1. /\ stack = << >> /\ state = Fresh /\ varNameSalt = 0 /\ embeddedTemplateIndex = 1
      /\ pending = << >> /\ tags = 0 /\ parses = 0 /\ left = 0
  BY DEF Init
<1>2. /\ state \in Fields /\ stack \in Seq(Fields) /\ Len(stack) = 0 /\ left \in 0 .. Len(stack)
  BY <1>1, FreshTyped
<1>3. WellNested(pending)
  BY <1>1 DEF WellNested
<1>4. tags \in Salts /\ parses \in 0 .. MaxParses /\ varNameSalt \in 0 .. tags
  BY <1>1, ParserBounds DEF Salts
<1>5. TypeOK
  BY <1>1, <1>2, <1>3, <1>4 DEF TypeOK, WellNested
<1>6. LevelsInv
  <2>1. Nesting(pending) = << >>
    BY <1>1, NestingEmpty
  <2>2. Levelled(state, stack, left, embeddedTemplateIndex, << >>)
    BY <1>1, <1>2, NoLevels
  <2> QED
    BY <2>1, <2>2 DEF LevelsInv
<1> QED
  BY <1>5, <1>6

LEMMA NextKept ==
    ASSUME TypeOK, LevelsInv, [Next]_vars
    PROVE  Kept
<1>1. CASE Parse
  BY <1>1, ParseKept
<1>2. CASE EndOfTemplate
  BY <1>2, EndOfTemplateKept
<1>3. CASE Throw
  BY <1>3, ThrowKept
<1>4. CASE \/ subparse \/ Do \/ Deprecated \/ Line \/ FlushTag \/ Include \/ Verbatim
  <2>1. PICK kinds \in SUBSET Kinds : Adds(kinds)
    BY <1>4 DEF subparse, Do, Deprecated, Line, FlushTag, Include, Verbatim, Kinds
  <2> QED
    BY <2>1, AddsKept
<1>5. CASE getFunctionNode
  BY <1>5, FunctionNodeKept
<1>6. CASE Extends
  BY <1>6, ExtendsKept
<1>7. CASE Use
  BY <1>7, UseKept
<1>8. CASE Import \/ From
  BY <1>8, ImportKept
<1>9. ASSUME NEW name \in Names, OpenBlock(name) \/ ShortBlock(name) \/ OpenMacro(name)
      PROVE  Kept
  BY <1>9, OpenBlockKept, ShortBlockKept, OpenMacroKept
<1>10. CASE Parsing /\ CloseBlock
  BY <1>10, CloseBlockKept
<1>11. CASE Parsing /\ CloseMacro
  BY <1>11, CloseMacroKept
<1>12. CASE If \/ For \/ WithTag \/ AutoEscape \/ Spaceless \/ Set \/ Sandbox
  BY <1>12, BodyTags
<1>13. CASE Fork
  BY <1>13, ForkKept
<1>14. CASE CloseBody \/ CloseSet \/ CloseSandbox \/ CloseApply
  BY <1>14, BodyEnds
<1>15. CASE Apply \/ FilterTag
  BY <1>15, NamingTagKept
<1>16. CASE CloseFilter
  BY <1>16, CloseFilterKept
<1>17. CASE Embed
  BY <1>17, EmbedKept
<1>18. CASE CloseEmbed
  BY <1>18, CloseEmbedKept
<1>19. CASE UNCHANGED vars
  BY <1>19, StutterKept
<1> QED
  BY <1>1, <1>2, <1>3, <1>4, <1>5, <1>6, <1>7, <1>8, <1>9, <1>10, <1>11, <1>12, <1>13, <1>14,
     <1>15, <1>16, <1>17, <1>18, <1>19 DEF Next, BodyTag

LEMMA InvMatchesTags == ParserInv => FieldsMatchTags
<1>. SUFFICES ASSUME ParserInv PROVE FieldsMatchTags
  OBVIOUS
<1>. DEFINE open == Nesting(pending)
<1>1. ASSUME NEW n \in DOMAIN open
      PROVE  LET f == FieldsOf(open, n)
             IN  /\ f.blockStack = open[n].blockStack
                 /\ Len(f.importedSymbols) = Len(open[n].scopes)
                 /\ {b \in DOMAIN f.blocks : f.blocks[b] = "empty"} = ToSet(f.blockStack)
  <2>1. Agree(FieldsOf(open, n), open[n])
    BY DEF ParserInv
  <2> QED
    BY <2>1 DEF Agree, Opens, Empties, Placed
<1> QED
  BY <1>1 DEF ParserInv, FieldsMatchTags

LEMMA InvResolves == ParserInv => CallsResolveInScope
<1>. SUFFICES ASSUME ParserInv, Parsing,
                     NEW type \in {"template", "function"}, NEW alias \in Aliases,
                     NEW symbol \in getImportedSymbol(type, alias)
              PROVE  symbol.in \in {Head(Last(Nesting(pending)).scopes),
                                    Last(Nesting(pending)).at}
  BY DEF CallsResolveInScope
<1>. DEFINE w == Last(Nesting(pending))
            scopes == state.importedSymbols
            k == <<type, alias>>
            n == Len(scopes)
<1>1. w \in Levels /\ Placed(scopes, w.scopes) /\ scopes \in Seq(Symbols)
  BY InvLevels, TopAgrees, TopFields
<1>. HIDE DEF w, scopes
<1>2. /\ w.scopes \in Seq(Salts) /\ w.scopes # << >> /\ Last(w.scopes) = w.at
  BY <1>1 DEF Levels
<1>3. /\ n \in Nat \ {0} /\ Len(w.scopes) = n /\ DOMAIN scopes = 1 .. n
      /\ 1 \in 1 .. n /\ n \in 1 .. n
      /\ Head(w.scopes) = w.scopes[1] /\ w.at = w.scopes[n]
      /\ Last(scopes) = scopes[n]
  BY <1>1, <1>2 DEF Placed, Last
<1>. HIDE DEF n
<1>4. \A i \in 1 .. n : \A s \in DOMAIN scopes[i] : scopes[i][s].in = w.scopes[i]
  BY <1>1, <1>3 DEF Placed
<1>5. \/ k \in DOMAIN scopes[1] /\ symbol = scopes[1][k]
      \/ k \in DOMAIN scopes[n] /\ symbol = scopes[n][k]
  BY <1>3 DEF getImportedSymbol, scopes
<1>. HIDE DEF k
<1>6. symbol.in \in {Head(w.scopes), w.at}
  BY <1>3, <1>4, <1>5
<1> QED
  BY <1>6 DEF w

LEMMA StepAccumulates ==
    ASSUME Accumulates
    PROVE  LET open == Nesting(pending)
           IN  \A n \in DOMAIN open \cap DOMAIN open' :
                 Includes(FieldsOf(open, n), FieldsOf(open, n)')
BY DEF Accumulates, Grows, FieldsOf, FieldsAt

LEMMA ParserInvKept == ParserInv /\ [Next]_vars => ParserInv'
<1>. SUFFICES ASSUME ParserInv, [Next]_vars PROVE ParserInv'
  OBVIOUS
<1>1. TypeOK /\ LevelsInv
  BY InvLevels
<1>2. TypeOK' /\ LevelsInv'
  BY <1>1, NextKept DEF Kept
<1>3. ParserInv' <=> TypeOK' /\ LevelsInv'
  BY InvLevels, PTL
<1> QED
  BY <1>2, <1>3

LEMMA ParserInvHolds == Spec => []ParserInv
<1>1. Init => ParserInv
  BY InitKept, InvLevels
<1> QED
  BY <1>1, ParserInvKept, PTL DEF Spec

(* Whatever is parsed, the fields and what is saved of them have their     *)
(* types, and a tag with a body is only ever open in a template.           *)
THEOREM ParserTyped == Spec => []TypeOK
<1>1. ParserInv => TypeOK
  BY DEF ParserInv
<1> QED
  BY <1>1, ParserInvHolds, PTL

(* However tags are nested, and whichever constructs have failed before,   *)
(* the block stack, the scopes and the blocks without a body of every      *)
(* template being parsed are those of the tags that are open in it.        *)
THEOREM ParserFieldsMatchTags == Spec => []FieldsMatchTags
BY InvMatchesTags, ParserInvHolds, PTL

(* What is called by a name that was imported was imported in the block or *)
(* macro of the call or in the body of the same template.                  *)
THEOREM ParserCallsResolveInScope == Spec => []CallsResolveInScope
BY InvResolves, ParserInvHolds, PTL

(* The modules compiled together have indexes of their own, however        *)
(* templates are embedded in one another and in each other's blocks.       *)
THEOREM ParserEmbeddedApart == Spec => []EmbeddedApart
<1>1. ParserInv => EmbeddedApart
  BY DEF ParserInv
<1> QED
  BY <1>1, ParserInvHolds, PTL

(* No step, not the end of an embedded template either, forgets what an    *)
(* enclosing template has said of itself.                                  *)
THEOREM ParserTemplateAccumulates == Spec => TemplateAccumulates
<1>1. ParserInv /\ [Next]_vars =>
        [ LET open == Nesting(pending)
          IN  \A n \in DOMAIN open \cap DOMAIN open' :
                Includes(FieldsOf(open, n), FieldsOf(open, n)') ]_vars
  <2>. SUFFICES ASSUME ParserInv, [Next]_vars
                PROVE  LET open == Nesting(pending)
                       IN  \A n \in DOMAIN open \cap DOMAIN open' :
                             Includes(FieldsOf(open, n), FieldsOf(open, n)')
    OBVIOUS
  <2>1. Accumulates
    BY InvLevels, NextKept DEF Kept
  <2> QED
    BY <2>1, StepAccumulates
<1> QED
  BY <1>1, ParserInvHolds, PTL DEF Spec, TemplateAccumulates
=============================================================================
