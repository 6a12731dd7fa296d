------------------- MODULE OutputBufferingClient_proofs -------------------
(***************************************************************************)
(* Theorems about OutputBufferingClient: whatever is called, in whatever   *)
(* order and however deep the stack, no text is lost, duplicated or        *)
(* reordered, and the buffers below the two topmost ones are left alone.   *)
(***************************************************************************)
EXTENDS OutputBufferingClient, SequenceTheorems, WellFoundedInduction, TLAPS

-----------------------------------------------------------------------------
(* The concatenation of a sequence of sequences, FlattenSeq. *)

(* A set of naturals that is not empty has a least element: the form in    *)
(* which the inductions below are done.                                    *)
LEMMA LeastNat ==
    ASSUME NEW T \in SUBSET Nat, T # {}
    PROVE  \E n \in T : \A m \in T : ~ (m < n)
<1>1. IsWellFoundedOn(OpToRel(<, Nat), Nat)
  BY NatLessThanWellFounded
<1>2. \E n \in T : \A m \in T : ~ (<<m, n>> \in OpToRel(<, Nat))
  BY <1>1, WFMin
<1> QED
  BY <1>2 DEF OpToRel

LEMMA AppendToConcat ==
    ASSUME NEW S, NEW s \in Seq(S), NEW t \in Seq(S), NEW e \in S
    PROVE  s \o Append(t, e) = Append(s \o t, e)
<1>1. Append(t, e) = t \o <<e>> /\ <<e>> \in Seq(S)
  OBVIOUS
<1>2. Append(s \o t, e) = (s \o t) \o <<e>>
  OBVIOUS
<1> QED
  BY <1>1, <1>2, ConcatAssociative

(* The function that FlattenSeq computes: f[i] is the concatenation of the *)
(* i first sequences of s.                                                 *)
Folded(f, s) ==
    f = [i \in 1 .. Len(s) |-> IF i = 1 THEN s[i] ELSE f[i - 1] \o s[i]]

LEMMA FoldedAt ==
    ASSUME NEW s, NEW f, Folded(f, s), NEW i \in 1 .. Len(s)
    PROVE  f[i] = IF i = 1 THEN s[i] ELSE f[i - 1] \o s[i]
BY DEF Folded

LEMMA FoldedExists ==
    ASSUME NEW C, NEW s \in Seq(Seq(C))
    PROVE  \E f : Folded(f, s)
<1>. DEFINE Prefix(f, n) ==
                \A i \in 1 .. n : f[i] = IF i = 1 THEN s[i] ELSE f[i - 1] \o s[i]
            Without == {n \in 0 .. Len(s) : ~ \E f \in [1 .. n -> Seq(C)] : Prefix(f, n)}
<1>0. Len(s) \in Nat
  OBVIOUS
<1>1. CASE Without # {}
  <2>0. Without \in SUBSET Nat
    BY <1>0
  <2>. HIDE DEF Without
  <2>1. PICK n \in Without : \A m \in Without : ~ (m < n)
    BY <1>1, <2>0, LeastNat
  <2>. USE DEF Without
  <2>2. n \in Nat /\ n <= Len(s)
    BY <1>0
  <2>3. n # 0
    <3>1. Prefix([i \in 1 .. 0 |-> <<>>], 0)
      OBVIOUS
    <3>2. [i \in 1 .. 0 |-> <<>>] \in [1 .. 0 -> Seq(C)]
      OBVIOUS
    <3> QED
      BY <3>1, <3>2
  <2>4. PICK f \in [1 .. n - 1 -> Seq(C)] : Prefix(f, n - 1)
    <3>1. n - 1 \in 0 .. Len(s) /\ n - 1 < n
      BY <1>0, <2>2, <2>3
    <3>2. n - 1 \notin Without
      BY <2>1, <3>1
    <3> QED
      BY <3>1, <3>2
  <2>. DEFINE last == IF n = 1 THEN s[n] ELSE f[n - 1] \o s[n]
              g == [i \in 1 .. n |-> IF i = n THEN last ELSE f[i]]
  <2>5. last \in Seq(C)
    BY <2>2, <2>3, <2>4
  <2>6. g \in [1 .. n -> Seq(C)]
    BY <2>2, <2>3, <2>4, <2>5
  <2>7. Prefix(g, n)
    <3>. SUFFICES ASSUME NEW i \in 1 .. n
                  PROVE  g[i] = IF i = 1 THEN s[i] ELSE g[i - 1] \o s[i]
      OBVIOUS
    <3>1. CASE i = n
      BY <2>2, <2>3, <3>1
    <3>2. CASE i # n
      <4>1. i \in 1 .. n - 1 /\ g[i] = f[i]
        BY <2>2, <3>2
      <4>2. i # 1 => g[i - 1] = f[i - 1]
        BY <2>2, <3>2
      <4> QED
        BY <2>4, <4>1, <4>2
    <3> QED
      BY <3>1, <3>2
  <2> QED
    BY <2>1, <2>6, <2>7
<1>2. CASE Without = {}
  <2>0. Len(s) \in 0 .. Len(s) /\ Len(s) \notin Without
    <3>1. Len(s) \notin Without
      <4>. HIDE DEF Without
      <4> QED
        BY <1>2
    <3> QED
      BY <1>0, <3>1
  <2>1. PICK f \in [1 .. Len(s) -> Seq(C)] : Prefix(f, Len(s))
    BY <2>0
  <2>2. Folded(f, s)
    BY <2>1 DEF Folded
  <2> QED
    BY <2>2
<1> QED
  BY <1>1, <1>2

(* The concatenation of the first sequences of s does not depend on those  *)
(* that follow them in a longer t.                                         *)
LEMMA FoldedPrefix ==
    ASSUME NEW s, NEW t, Len(s) \in Nat, Len(t) \in Nat, Len(s) <= Len(t),
           \A i \in 1 .. Len(s) : s[i] = t[i],
           NEW f, NEW g, Folded(f, s), Folded(g, t)
    PROVE  \A i \in 1 .. Len(s) : f[i] = g[i]
<1>. DEFINE Apart == {i \in 1 .. Len(s) : f[i] # g[i]}
<1>1. CASE Apart # {}
  <2>0. Apart \in SUBSET Nat
    OBVIOUS
  <2>. HIDE DEF Apart
  <2>1. PICK n \in Apart : \A m \in Apart : ~ (m < n)
    BY <1>1, <2>0, LeastNat
  <2>. USE DEF Apart
  <2>2. f[n] = IF n = 1 THEN s[n] ELSE f[n - 1] \o s[n]
    BY DEF Folded
  <2>3. g[n] = IF n = 1 THEN t[n] ELSE g[n - 1] \o t[n]
    <3>1. n \in 1 .. Len(t)
      OBVIOUS
    <3> QED
      BY <3>1 DEF Folded
  <2>4. n # 1 => f[n - 1] = g[n - 1]
    <3>1. n # 1 => n - 1 \in 1 .. Len(s) /\ n - 1 < n
      OBVIOUS
    <3> QED
      BY <2>1, <3>1
  <2> QED
    BY <2>2, <2>3, <2>4
<1> QED
  BY <1>1

LEMMA FoldedType ==
    ASSUME NEW C, NEW s \in Seq(Seq(C)), NEW f, Folded(f, s)
    PROVE  \A i \in 1 .. Len(s) : f[i] \in Seq(C)
<1>. DEFINE Outside == {i \in 1 .. Len(s) : f[i] \notin Seq(C)}
<1>1. CASE Outside # {}
  <2>0. Outside \in SUBSET Nat
    OBVIOUS
  <2>. HIDE DEF Outside
  <2>1. PICK n \in Outside : \A m \in Outside : ~ (m < n)
    BY <1>1, <2>0, LeastNat
  <2>. USE DEF Outside
  <2>2. f[n] = IF n = 1 THEN s[n] ELSE f[n - 1] \o s[n]
    BY DEF Folded
  <2>3. n # 1 => f[n - 1] \in Seq(C)
    <3>1. n # 1 => n - 1 \in 1 .. Len(s) /\ n - 1 < n
      OBVIOUS
    <3> QED
      BY <2>1, <3>1
  <2>4. s[n] \in Seq(C)
    OBVIOUS
  <2>5. f[n] \in Seq(C)
    <3>1. CASE n = 1
      BY <2>2, <2>4, <3>1
    <3>2. CASE n # 1
      <4>. DEFINE a == f[n - 1]
                  b == s[n]
      <4>1. a \in Seq(C) /\ b \in Seq(C)
        BY <2>3, <2>4, <3>2
      <4>2. f[n] = a \o b
        BY <2>2, <3>2
      <4>. HIDE DEF a, b
      <4> QED
        BY <4>1, <4>2
    <3> QED
      BY <3>1, <3>2
  <2> QED
    BY <2>5
<1> QED
  BY <1>1

LEMMA FlattenIsFolded ==
    ASSUME NEW C, NEW s \in Seq(Seq(C)), Len(s) # 0
    PROVE  \E f : Folded(f, s) /\ FlattenSeq(s) = f[Len(s)]
<1>. DEFINE f == CHOOSE g : g = [i \in 1 .. Len(s) |->
                                     IF i = 1 THEN s[i] ELSE g[i - 1] \o s[i]]
<1>1. Folded(f, s)
  BY FoldedExists DEF Folded
<1>2. FlattenSeq(s) = f[Len(s)]
  BY DEF FlattenSeq
<1> QED
  BY <1>1, <1>2

(* What FlattenSeq gives is a sequence, and one more sequence is added at  *)
(* the end.                                                                *)
LEMMA FlattenEmpty == FlattenSeq(<<>>) = <<>>
BY DEF FlattenSeq

LEMMA FlattenType ==
    ASSUME NEW C, NEW s \in Seq(Seq(C))
    PROVE  FlattenSeq(s) \in Seq(C)
<1>1. CASE Len(s) = 0
  <2>1. s = <<>>
    BY <1>1
  <2>2. FlattenSeq(s) = <<>>
    BY <2>1, FlattenEmpty
  <2> QED
    BY <2>2, EmptySeq
<1>2. CASE Len(s) # 0
  BY <1>2, FlattenIsFolded, FoldedType
<1> QED
  BY <1>1, <1>2

LEMMA FlattenAppend ==
    ASSUME NEW C, NEW s \in Seq(Seq(C)), NEW e \in Seq(C)
    PROVE  FlattenSeq(Append(s, e)) = FlattenSeq(s) \o e
<1>. DEFINE t == Append(s, e)
            n == Len(s)
<1>1. /\ t \in Seq(Seq(C)) /\ Len(t) = n + 1 /\ n \in Nat
      /\ \A i \in 1 .. n : t[i] = s[i]
      /\ t[n + 1] = e
  OBVIOUS
<1>. HIDE DEF t
<1>. HIDE DEF n
<1>2. PICK g : Folded(g, t) /\ FlattenSeq(t) = g[n + 1]
  <2>1. Len(t) # 0
    BY <1>1
  <2> QED
    BY <1>1, <2>1, FlattenIsFolded
<1>3. g[n + 1] = IF n + 1 = 1 THEN e ELSE g[n] \o e
  <2>. DEFINE k == n + 1
  <2>1. k \in 1 .. Len(t) /\ k - 1 = n
    BY <1>1
  <2>. HIDE DEF k
  <2>2. g[k] = IF k = 1 THEN t[k] ELSE g[k - 1] \o t[k]
    BY <1>2, <2>1, FoldedAt
  <2> QED
    BY <1>1, <2>1, <2>2 DEF k
<1>4. CASE n = 0
  <2>1. s = <<>>
    BY <1>4 DEF n
  <2>2. FlattenSeq(s) \o e = e
    BY <2>1, FlattenEmpty
  <2> QED
    BY <1>2, <1>3, <1>4, <2>2 DEF t
<1>5. CASE n # 0
  <2>1. PICK f : Folded(f, s) /\ FlattenSeq(s) = f[n]
    BY <1>5, FlattenIsFolded DEF n
  <2>2. f[n] = g[n]
    <3>1. n = Len(s) /\ n <= Len(t) /\ Len(t) \in Nat /\ n \in 1 .. n
      BY <1>1, <1>5 DEF n
    <3>2. /\ Len(s) \in Nat /\ Len(t) \in Nat /\ Len(s) <= Len(t)
          /\ \A i \in 1 .. Len(s) : s[i] = t[i]
      BY <1>1, <3>1
    <3>3. \A i \in 1 .. Len(s) : f[i] = g[i]
      BY <1>2, <2>1, <3>2, FoldedPrefix
    <3> QED
      BY <3>1, <3>3
  <2> QED
    BY <1>1, <1>2, <1>3, <1>5, <2>1, <2>2 DEF t
<1> QED
  BY <1>4, <1>5

-----------------------------------------------------------------------------
(* The text in the buffers and on stdout. *)

(* All the text that the buffer stack b has been given and not told to     *)
(* drop: what is on stdout, then the buffers from the bottom to the top.   *)
Text(b) == Written(b) \o FlattenSeq(b.handlers)

(* What Written takes from each chunk that stdout has got.                 *)
Shown(o) == [i \in DOMAIN o |-> IF o[i] = Notice THEN <<>> ELSE <<o[i]>>]

LEMMA ShownType ==
    ASSUME NEW o \in Seq(Chunk \cup {Notice})
    PROVE  Shown(o) \in Seq(Seq(Chunk)) /\ Len(Shown(o)) = Len(o)
<1>1. DOMAIN o = 1 .. Len(o) /\ Len(o) \in Nat
  OBVIOUS
<1>2. \A i \in 1 .. Len(o) : (IF o[i] = Notice THEN <<>> ELSE <<o[i]>>) \in Seq(Chunk)
  OBVIOUS
<1>3. Shown(o) \in [1 .. Len(o) -> Seq(Chunk)]
  BY <1>1, <1>2 DEF Shown
<1> QED
  BY <1>1, <1>3

LEMMA ShownAppend ==
    ASSUME NEW o \in Seq(Chunk \cup {Notice}), NEW c \in Chunk \cup {Notice}
    PROVE  Shown(Append(o, c)) =
               Append(Shown(o), IF c = Notice THEN <<>> ELSE <<c>>)
<1>. DEFINE p == Append(o, c)
            e == IF c = Notice THEN <<>> ELSE <<c>>
            q == Append(Shown(o), e)
<1>1. p \in Seq(Chunk \cup {Notice}) /\ Len(p) = Len(o) + 1 /\ Len(o) \in Nat
  OBVIOUS
<1>2. e \in Seq(Chunk)
  OBVIOUS
<1>3. Shown(p) \in Seq(Seq(Chunk)) /\ Len(Shown(p)) = Len(o) + 1
  BY <1>1, ShownType
<1>4. Shown(o) \in Seq(Seq(Chunk)) /\ Len(Shown(o)) = Len(o)
  BY ShownType
<1>5. q \in Seq(Seq(Chunk)) /\ Len(q) = Len(o) + 1
  BY <1>2, <1>4
<1>6. ASSUME NEW i \in 1 .. Len(o) + 1 PROVE Shown(p)[i] = q[i]
  <2>1. DOMAIN p = 1 .. Len(o) + 1 /\ DOMAIN o = 1 .. Len(o)
    BY <1>1
  <2>2. Shown(p)[i] = IF p[i] = Notice THEN <<>> ELSE <<p[i]>>
    BY <2>1 DEF Shown
  <2>3. CASE i = Len(o) + 1
    BY <1>1, <1>4, <2>2, <2>3
  <2>4. CASE i # Len(o) + 1
    <3>1. i \in 1 .. Len(o) /\ p[i] = o[i]
      BY <1>1, <2>4
    <3>2. q[i] = Shown(o)[i]
      BY <1>1, <1>2, <1>4, <3>1
    <3>3. Shown(o)[i] = IF o[i] = Notice THEN <<>> ELSE <<o[i]>>
      BY <2>1, <3>1 DEF Shown
    <3> QED
      BY <2>2, <3>1, <3>2, <3>3
  <2> QED
    BY <2>3, <2>4
<1>. HIDE DEF p, q
<1>7. Shown(p) = q
  BY <1>3, <1>5, <1>6, SeqEqual
<1> QED
  BY <1>7 DEF p, q

LEMMA WrittenIsShown ==
    ASSUME NEW b
    PROVE  Written(b) = FlattenSeq(Shown(b.stdout))
BY DEF Written, Shown

(* A notice is no text; a chunk is itself.                                 *)
LEMMA ShownText ==
    ASSUME NEW o \in Seq(Chunk \cup {Notice}), NEW c \in Chunk \cup {Notice}
    PROVE  /\ FlattenSeq(Shown(o)) \in Seq(Chunk)
           /\ FlattenSeq(Shown(Append(o, c))) =
                  IF c = Notice THEN FlattenSeq(Shown(o))
                                ELSE Append(FlattenSeq(Shown(o)), c)
<1>. DEFINE e == IF c = Notice THEN <<>> ELSE <<c>>
            f == FlattenSeq(Shown(o))
<1>1. e \in Seq(Chunk)
  OBVIOUS
<1>2. Shown(o) \in Seq(Seq(Chunk))
  BY ShownType
<1>3. f \in Seq(Chunk)
  BY <1>2, FlattenType
<1>4. Shown(Append(o, c)) = Append(Shown(o), e)
  BY ShownAppend
<1>. HIDE DEF e
<1>5. FlattenSeq(Append(Shown(o), e)) = f \o e
  BY <1>1, <1>2, FlattenAppend
<1>. HIDE DEF f
<1>6. f \o e = IF c = Notice THEN f ELSE Append(f, c)
  <2>1. CASE c = Notice
    BY <1>3, <2>1 DEF e
  <2>2. CASE c # Notice
    <3>1. e = <<c>>
      BY <2>2 DEF e
    <3> QED
      BY <1>3, <2>2, <3>1
  <2> QED
    BY <2>1, <2>2
<1> QED
  BY <1>3, <1>4, <1>5, <1>6 DEF f

LEMMA ShownConcat ==
    ASSUME NEW o \in Seq(Chunk \cup {Notice}), NEW s \in Seq(Chunk)
    PROVE  FlattenSeq(Shown(o \o s)) = FlattenSeq(Shown(o)) \o s
<1>. DEFINE Upto(n) == SubSeq(s, 1, n)
            Wrong == {n \in 0 .. Len(s) :
                         FlattenSeq(Shown(o \o Upto(n))) # FlattenSeq(Shown(o)) \o Upto(n)}
            f == FlattenSeq(Shown(o))
<1>0. Len(s) \in Nat /\ f \in Seq(Chunk)
  BY ShownType, FlattenType
<1>1. Wrong = {}
  <2>. SUFFICES ASSUME Wrong # {} PROVE FALSE
    OBVIOUS
  <2>0. Wrong \in SUBSET Nat
    BY <1>0
  <2>. HIDE DEF Wrong
  <2>1. PICK n \in Wrong : \A m \in Wrong : ~ (m < n)
    BY <2>0, LeastNat
  <2>. USE DEF Wrong
  <2>2. n \in Nat /\ n <= Len(s)
    BY <1>0
  <2>3. CASE n = 0
    <3>1. Upto(n) = <<>>
      BY <2>3
    <3>2. o \o <<>> = o /\ f \o <<>> = f
      BY <1>0
    <3> QED
      BY <3>1, <3>2
  <2>4. CASE n # 0
    <3>. DEFINE t == Upto(n - 1)
                p == o \o t
    <3>1. n - 1 \in 0 .. Len(s) /\ n - 1 < n /\ n \in 1 .. Len(s)
      BY <1>0, <2>2, <2>4
    <3>2. n - 1 \notin Wrong
      BY <2>1, <3>1
    <3>3. FlattenSeq(Shown(p)) = f \o t
      BY <3>1, <3>2
    <3>4. t \in Seq(Chunk) /\ s[n] \in Chunk /\ Upto(n) = Append(t, s[n])
      <4>1. t \in Seq(Chunk) /\ Len(t) = n - 1 /\ \A i \in 1 .. n - 1 : t[i] = s[i]
        BY <3>1
      <4>2. /\ Upto(n) \in Seq(Chunk) /\ Len(Upto(n)) = n
            /\ \A i \in 1 .. n : Upto(n)[i] = s[i]
        BY <3>1
      <4>3. s[n] \in Chunk
        BY <3>1
      <4>. HIDE DEF t, Upto
      <4>4. /\ Append(t, s[n]) \in Seq(Chunk) /\ Len(Append(t, s[n])) = n
            /\ \A i \in 1 .. n : Append(t, s[n])[i] = s[i]
        BY <3>1, <4>1, <4>3
      <4>5. Upto(n) = Append(t, s[n])
        BY <4>2, <4>4, SeqEqual
      <4> QED
        BY <4>1, <4>3, <4>5
    <3>. HIDE DEF t
    <3>5. o \o Append(t, s[n]) = Append(p, s[n])
      BY <3>4
    <3>6. p \in Seq(Chunk \cup {Notice}) /\ s[n] \in Chunk \cup {Notice} /\ s[n] # Notice
      BY <3>4, ClientAssumption
    <3>. HIDE DEF p
    <3>7. FlattenSeq(Shown(Append(p, s[n]))) = Append(f \o t, s[n])
      BY <3>3, <3>6, ShownText
    <3>8. Append(f \o t, s[n]) = f \o Append(t, s[n])
      <4>1. f \in Seq(Chunk) /\ t \in Seq(Chunk) /\ s[n] \in Chunk
        BY <1>0, <3>4
      <4>. DEFINE e == s[n]
      <4>. HIDE DEF f, Wrong, Upto, e
      <4>2. f \o Append(t, e) = Append(f \o t, e)
        BY <4>1, AppendToConcat DEF e
      <4> QED
        BY <4>2 DEF e
    <3> QED
      BY <3>4, <3>5, <3>7, <3>8
  <2> QED
    BY <2>3, <2>4
<1>2. Len(s) \in 0 .. Len(s) /\ Upto(Len(s)) = s
  BY <1>0, SubSeqFull
<1>. HIDE DEF Upto
<1> QED
  BY <1>1, <1>2

-----------------------------------------------------------------------------
(* What the methods do to the buffers and to their text. *)

(* The active buffer is the last of the handlers.                          *)
LEMMA ActiveIsLast ==
    ASSUME NEW b \in BufferState, HasActive(b)
    PROVE  /\ Popped(b) \in BufferState /\ Active(b) \in Seq(Chunk)
           /\ Popped(b).stdout = b.stdout
           /\ b.handlers = Append(Popped(b).handlers, Active(b))
<1>. DEFINE h == b.handlers
            n == Len(h)
            p == SubSeq(h, 1, n - 1)
<1>1. h \in Seq(Seq(Chunk)) /\ n \in Nat /\ n > 0
  BY DEF BufferState, Content, HasActive, ObGetLevel
<1>2. p \in Seq(Seq(Chunk)) /\ Len(p) = n - 1 /\ \A i \in 1 .. n - 1 : p[i] = h[i]
  BY <1>1
<1>3. Active(b) = h[n] /\ h[n] \in Seq(Chunk)
  BY <1>1 DEF Active, ObGetLevel
<1>4. Popped(b) = [b EXCEPT !.handlers = p]
  BY DEF Popped
<1>5. Popped(b) \in BufferState /\ Popped(b).handlers = p /\ Popped(b).stdout = b.stdout
  BY <1>2, <1>4 DEF BufferState, Content
<1>6. h = Append(p, h[n])
  <2>. HIDE DEF p, h
  <2>1. /\ Append(p, h[n]) \in Seq(Seq(Chunk)) /\ Len(Append(p, h[n])) = n
        /\ \A i \in 1 .. n : Append(p, h[n])[i] = h[i]
    BY <1>1, <1>2, <1>3
  <2> QED
    BY <1>1, <2>1, SeqEqual
<1> QED
  BY <1>3, <1>5, <1>6

LEMMA NoneActive ==
    ASSUME NEW b \in BufferState, ~ HasActive(b)
    PROVE  b.handlers = <<>>
BY DEF BufferState, HasActive, ObGetLevel

LEMMA PoppedAppend ==
    ASSUME NEW b \in BufferState, NEW h \in Seq(Content), NEW s \in Content,
           b.handlers = Append(h, s)
    PROVE  /\ HasActive(b) /\ Active(b) = s
           /\ Popped(b) \in BufferState
           /\ Popped(b).handlers = h /\ Popped(b).stdout = b.stdout
<1>1. Len(h) \in Nat /\ Len(b.handlers) = Len(h) + 1
  OBVIOUS
<1>2. HasActive(b) /\ Active(b) = s
  BY <1>1 DEF HasActive, Active, ObGetLevel
<1>3. SubSeq(Append(h, s), 1, Len(h)) = h
  OBVIOUS
<1>4. Popped(b) = [b EXCEPT !.handlers = h]
  BY <1>1, <1>3 DEF Popped
<1> QED
  BY <1>2, <1>4 DEF BufferState

LEMMA WithActiveReplaces ==
    ASSUME NEW b \in BufferState, HasActive(b), NEW s \in Content
    PROVE  /\ WithActive(b, s) \in BufferState
           /\ WithActive(b, s).handlers = Append(Popped(b).handlers, s)
           /\ WithActive(b, s).stdout = b.stdout
<1>. DEFINE h == b.handlers
            p == Popped(b).handlers
            n == Len(h)
            w == [h EXCEPT ![n] = s]
<1>1. /\ p \in Seq(Content) /\ h = Append(p, Active(b))
      /\ Active(b) \in Content
  BY ActiveIsLast DEF BufferState, Content
<1>2. w = Append(p, s)
  <2>0. n = Len(p) + 1 /\ h \in Seq(Content) /\ Len(p) \in Nat
    BY <1>1
  <2>. HIDE DEF h, p, n
  <2>1. /\ w \in Seq(Content) /\ Len(w) = Len(p) + 1 /\ Len(p) \in Nat
        /\ \A i \in 1 .. Len(p) + 1 : w[i] = IF i = Len(p) + 1 THEN s ELSE p[i]
    <3>1. n \in DOMAIN h /\ Len(h) = n
      BY <1>1, <2>0 DEF n
    <3>2. \A i \in 1 .. Len(p) : h[i] = p[i]
      BY <1>1
    <3> QED
      BY <2>0, <3>1, <3>2
  <2>2. /\ Append(p, s) \in Seq(Content) /\ Len(Append(p, s)) = Len(p) + 1
        /\ \A i \in 1 .. Len(p) + 1 :
               Append(p, s)[i] = IF i = Len(p) + 1 THEN s ELSE p[i]
    BY <1>1
  <2>. HIDE DEF w
  <2> QED
    BY <2>1, <2>2, SeqEqual
<1>3. WithActive(b, s) = [b EXCEPT !.handlers = Append(p, s)]
  BY <1>2 DEF WithActive
<1>4. Append(p, s) \in Seq(Content)
  BY <1>1
<1> QED
  BY <1>3, <1>4 DEF BufferState

LEMMA ObStartStacks ==
    ASSUME NEW b \in BufferState
    PROVE  /\ ObStart(b) \in BufferState
           /\ ObStart(b).handlers = Append(b.handlers, <<>>)
           /\ ObStart(b).stdout = b.stdout
<1>. DEFINE h == Append(b.handlers, <<>>)
<1>1. h \in Seq(Content)
  BY DEF BufferState, Content
<1>2. ObStart(b) = [b EXCEPT !.handlers = h]
  BY DEF ObStart
<1>. HIDE DEF h
<1>3. /\ ObStart(b) \in BufferState /\ ObStart(b).handlers = h
      /\ ObStart(b).stdout = b.stdout
  BY <1>1, <1>2 DEF BufferState
<1> QED
  BY <1>3 DEF h

LEMMA ComplainNotices ==
    ASSUME NEW b \in BufferState
    PROVE  /\ Complain(b) \in BufferState
           /\ Complain(b).handlers = b.handlers
           /\ Complain(b).stdout = Append(b.stdout, Notice)
BY DEF Complain, BufferState

LEMMA TextType ==
    ASSUME NEW b \in BufferState
    PROVE  /\ Written(b) \in Seq(Chunk) /\ FlattenSeq(b.handlers) \in Seq(Chunk)
           /\ Text(b) \in Seq(Chunk)
<1>1. b.handlers \in Seq(Seq(Chunk)) /\ b.stdout \in Seq(Chunk \cup {Notice})
  BY DEF BufferState, Content
<1>2. Written(b) \in Seq(Chunk)
  BY <1>1, ShownType, FlattenType, WrittenIsShown
<1>3. FlattenSeq(b.handlers) \in Seq(Chunk)
  BY <1>1, FlattenType
<1> QED
  BY <1>2, <1>3 DEF Text

(* One buffer more has its text at the end.                                *)
LEMMA TextOfAppend ==
    ASSUME NEW b \in BufferState, NEW c \in BufferState, NEW s \in Seq(Chunk),
           c.handlers = Append(b.handlers, s), c.stdout = b.stdout
    PROVE  Text(c) = Text(b) \o s
<1>. DEFINE w == Written(b)
            f == FlattenSeq(b.handlers)
<1>1. w \in Seq(Chunk) /\ f \in Seq(Chunk)
  BY TextType
<1>2. Written(c) = w
  BY DEF Written
<1>3. FlattenSeq(c.handlers) = f \o s
  BY FlattenAppend DEF BufferState, Content
<1>4. Text(c) = w \o (f \o s) /\ Text(b) = w \o f
  BY <1>2, <1>3 DEF Text
<1>. HIDE DEF w, f
<1>5. w \o (f \o s) = (w \o f) \o s
  BY <1>1, ConcatAssociative
<1> QED
  BY <1>4, <1>5

LEMMA ObStartText ==
    ASSUME NEW b \in BufferState
    PROVE  Text(ObStart(b)) = Text(b)
<1>. DEFINE c == ObStart(b)
            t == Text(b)
<1>1. /\ c \in BufferState /\ c.stdout = b.stdout
      /\ c.handlers = Append(b.handlers, <<>>)
  BY ObStartStacks
<1>2. <<>> \in Seq(Chunk) /\ t \in Seq(Chunk)
  BY TextType
<1>. HIDE DEF c
<1>3. Text(c) = t \o <<>>
  BY <1>1, <1>2, TextOfAppend
<1>. HIDE DEF t
<1> QED
  BY <1>2, <1>3, ConcatEmptySeq DEF c, t

LEMMA PoppedText ==
    ASSUME NEW b \in BufferState, HasActive(b)
    PROVE  Text(b) = Text(Popped(b)) \o Active(b)
BY ActiveIsLast, TextOfAppend

LEMMA ComplainText ==
    ASSUME NEW b \in BufferState
    PROVE  Text(Complain(b)) = Text(b)
<1>1. Written(Complain(b)) = Written(b)
  BY ComplainNotices, ShownText, WrittenIsShown DEF BufferState
<1> QED
  BY <1>1, ComplainNotices DEF Text

(* outputWrite puts the text after all the text there is.                  *)
LEMMA OutputWriteText ==
    ASSUME NEW b \in BufferState, NEW s \in Seq(Chunk)
    PROVE  /\ OutputWrite(b, s) \in BufferState
           /\ Text(OutputWrite(b, s)) = Text(b) \o s
           /\ IF HasActive(b)
              THEN OutputWrite(b, s).handlers = Append(Popped(b).handlers, Active(b) \o s)
              ELSE OutputWrite(b, s).handlers = b.handlers
<1>. DEFINE c == OutputWrite(b, s)
<1>1. CASE HasActive(b)
  <2>. DEFINE p == Popped(b)
              a == Active(b)
  <2>1. a \in Seq(Chunk) /\ p \in BufferState /\ p.stdout = b.stdout
    BY <1>1, ActiveIsLast
  <2>2. Text(b) = Text(p) \o a /\ Text(p) \in Seq(Chunk)
    BY <1>1, <2>1, PoppedText, TextType
  <2>3. a \o s \in Seq(Chunk)
    BY <2>1
  <2>4. c = WithActive(b, a \o s)
    BY <1>1 DEF OutputWrite
  <2>. HIDE DEF a, c
  <2>5. /\ c \in BufferState /\ c.handlers = Append(p.handlers, a \o s)
        /\ c.stdout = p.stdout
    BY <1>1, <2>1, <2>3, <2>4, WithActiveReplaces DEF Content
  <2>. HIDE DEF p
  <2>6. Text(c) = Text(p) \o (a \o s)
    BY <2>1, <2>3, <2>5, TextOfAppend
  <2>7. Text(c) = Text(b) \o s
    BY <2>1, <2>2, <2>6, ConcatAssociative
  <2> QED
    BY <1>1, <2>5, <2>7 DEF a, c, p
<1>2. CASE ~ HasActive(b)
  <2>1. c = [b EXCEPT !.stdout = b.stdout \o s]
    BY <1>2 DEF OutputWrite
  <2>2. b.stdout \o s \in Seq(Chunk \cup {Notice})
    BY DEF BufferState
  <2>3. /\ c \in BufferState /\ c.handlers = b.handlers
        /\ c.stdout = b.stdout \o s
    BY <2>1, <2>2 DEF BufferState
  <2>. HIDE DEF c
  <2>4. Written(c) = Written(b) \o s
    BY <2>3, ShownConcat, WrittenIsShown DEF BufferState
  <2>5. FlattenSeq(b.handlers) = <<>>
    BY <1>2, NoneActive, FlattenEmpty
  <2>. DEFINE w == Written(b)
  <2>6. w \in Seq(Chunk) /\ Text(b) = w \o <<>> /\ Text(c) = (w \o s) \o <<>>
    BY <2>3, <2>4, <2>5, TextType DEF Text
  <2>. HIDE DEF w
  <2>7. Text(c) = Text(b) \o s
    BY <2>6
  <2> QED
    BY <1>2, <2>3, <2>7 DEF c
<1> QED
  BY <1>1, <1>2

(* obFlush moves the text of the active buffer down, and keeps them all.   *)
LEMMA ObFlushText ==
    ASSUME NEW b \in BufferState, HasActive(b)
    PROVE  /\ ObFlush(b) \in BufferState /\ HasActive(ObFlush(b))
           /\ Text(ObFlush(b)) = Text(b) /\ Active(ObFlush(b)) = <<>>
           /\ Popped(ObFlush(b)).handlers =
                  OutputWrite(Popped(b), Active(b)).handlers
<1>. DEFINE p == Popped(b)
            a == Active(b)
            w == OutputWrite(p, a)
<1>1. p \in BufferState /\ a \in Seq(Chunk)
  BY ActiveIsLast
<1>2. Text(b) = Text(p) \o a
  BY PoppedText
<1>3. ObFlush(b) = ObStart(w)
  BY DEF ObFlush
<1>. HIDE DEF p, a
<1>4. w \in BufferState /\ Text(w) = Text(p) \o a
  BY <1>1, OutputWriteText
<1>. HIDE DEF w
<1>5. /\ ObStart(w) \in BufferState /\ Text(ObStart(w)) = Text(w)
      /\ ObStart(w).handlers = Append(w.handlers, <<>>)
  BY <1>4, ObStartStacks, ObStartText
<1>6. w.handlers \in Seq(Content) /\ <<>> \in Content
  BY <1>4 DEF BufferState, Content
<1>7. /\ HasActive(ObStart(w)) /\ Active(ObStart(w)) = <<>>
      /\ Popped(ObStart(w)).handlers = w.handlers
  BY <1>5, <1>6, PoppedAppend
<1> QED
  BY <1>2, <1>3, <1>4, <1>5, <1>7 DEF w, p, a

LEMMA ObEndFlushText ==
    ASSUME NEW b \in BufferState, HasActive(b)
    PROVE  /\ ObEndFlush(b) \in BufferState
           /\ Text(ObEndFlush(b)) = Text(b)
           /\ ObEndFlush(b).handlers = OutputWrite(Popped(b), Active(b)).handlers
<1>. DEFINE f == ObFlush(b)
<1>1. ObEndFlush(b) = Popped(f)
  BY DEF ObEndFlush
<1>2. /\ f \in BufferState /\ HasActive(f) /\ Text(f) = Text(b)
      /\ Active(f) = <<>>
      /\ Popped(f).handlers = OutputWrite(Popped(b), Active(b)).handlers
  BY ObFlushText
<1>. HIDE DEF f
<1>3. Popped(f) \in BufferState /\ Text(f) = Text(Popped(f)) \o <<>>
  BY <1>2, ActiveIsLast, PoppedText
<1>. DEFINE t == Text(Popped(f))
<1>4. t \in Seq(Chunk)
  BY <1>3, TextType
<1>. HIDE DEF t
<1>5. t \o <<>> = t
  BY <1>4, ConcatEmptySeq
<1> QED
  BY <1>1, <1>2, <1>3, <1>5 DEF t

(* obClean drops the text of the active buffer; obEndClean the buffer too. *)
LEMMA ObCleanText ==
    ASSUME NEW b \in BufferState, HasActive(b)
    PROVE  /\ ObClean(b) \in BufferState /\ Text(ObClean(b)) = Text(Popped(b))
           /\ ObClean(b).handlers = Append(Popped(b).handlers, <<>>)
<1>. DEFINE c == ObClean(b)
            p == Popped(b)
<1>1. c = WithActive(b, <<>>) /\ <<>> \in Content /\ <<>> \in Seq(Chunk)
  BY DEF ObClean, Content
<1>2. p \in BufferState /\ p.stdout = b.stdout
  BY ActiveIsLast
<1>. HIDE DEF c
<1>3. c \in BufferState /\ c.handlers = Append(p.handlers, <<>>) /\ c.stdout = p.stdout
  BY <1>1, <1>2, WithActiveReplaces
<1>. HIDE DEF p
<1>4. Text(c) = Text(p) \o <<>>
  BY <1>1, <1>2, <1>3, TextOfAppend
<1>. DEFINE t == Text(p)
<1>5. t \in Seq(Chunk)
  BY <1>2, TextType
<1>. HIDE DEF t
<1>6. t \o <<>> = t
  BY <1>5, ConcatEmptySeq
<1> QED
  BY <1>3, <1>4, <1>6 DEF t, c, p

LEMMA ObEndCleanText ==
    ASSUME NEW b \in BufferState, HasActive(b)
    PROVE  /\ ObEndClean(b) \in BufferState
           /\ Text(ObEndClean(b)) = Text(Popped(b))
           /\ ObEndClean(b).handlers = Popped(b).handlers
<1>. DEFINE c == ObClean(b)
            p == Popped(b)
<1>1. ObEndClean(b) = Popped(c)
  BY DEF ObEndClean
<1>2. /\ c \in BufferState /\ c.handlers = Append(p.handlers, <<>>)
      /\ p \in BufferState /\ p.handlers \in Seq(Content) /\ <<>> \in Content
  BY ObCleanText, ActiveIsLast DEF BufferState, Content
<1>3. c.stdout = p.stdout
  BY ActiveIsLast DEF ObClean, WithActive, BufferState
<1>. HIDE DEF c, p
<1>4. /\ Popped(c) \in BufferState
      /\ Popped(c).handlers = p.handlers /\ Popped(c).stdout = p.stdout
  BY <1>2, <1>3, PoppedAppend
<1>5. Text(Popped(c)) = Text(p)
  BY <1>4 DEF Text, Written
<1> QED
  BY <1>1, <1>4, <1>5 DEF p

(* The chunks of the active buffer are the last ones of all the text.      *)
LEMMA TextBelow ==
    ASSUME NEW b \in BufferState, HasActive(b)
    PROVE  SubSeq(Text(b), 1, Len(Text(b)) - Len(Active(b))) = Text(Popped(b))
<1>. DEFINE t == Text(Popped(b))
            a == Active(b)
<1>1. t \in Seq(Chunk) /\ a \in Seq(Chunk) /\ Text(b) = t \o a
  BY ActiveIsLast, PoppedText, TextType
<1>. HIDE DEF t, a
<1>2. Len(t \o a) - Len(a) = Len(t) /\ Len(t) \in Nat
  BY <1>1
<1>3. SubSeq(t \o a, 1, Len(t)) = t
  <2>. DEFINE u == SubSeq(t \o a, 1, Len(t))
  <2>1. u \in Seq(Chunk) /\ Len(u) = Len(t) /\ \A i \in 1 .. Len(t) : u[i] = t[i]
    BY <1>1, <1>2
  <2>. HIDE DEF u
  <2>2. u = t
    BY <1>1, <2>1, SeqEqual
  <2> QED
    BY <2>2 DEF u
<1> QED
  BY <1>1, <1>2, <1>3 DEF t, a

-----------------------------------------------------------------------------
(* The theorems. *)

(* The handlers n differ from h in the two topmost ones at most, and are   *)
(* one more or one less at most.                                           *)
TopOnly(h, n) ==
    /\ Len(n) \in Len(h) - 1 .. Len(h) + 1
    /\ \A i \in 1 .. Len(h) - 2 : n[i] = h[i]

LostInv == TypeOK /\ NothingLost

LEMMA NothingLostIsText == NothingLost <=> kept = Text(ob)
BY DEF NothingLost, Text

(* What is left when the active buffer of b has been written to the one    *)
(* below, or to stdout.                                                    *)
LEMMA MovedDownIsTop ==
    ASSUME NEW b \in BufferState, HasActive(b),
           NEW h \in Seq(Content), h = OutputWrite(Popped(b), Active(b)).handlers
    PROVE  TopOnly(b.handlers, h) /\ TopOnly(b.handlers, Append(h, <<>>))
<1>. DEFINE p == Popped(b)
            a == Active(b)
            l == Len(p.handlers)
<1>1. p \in BufferState /\ a \in Seq(Chunk) /\ b.handlers = Append(p.handlers, a)
  BY ActiveIsLast
<1>2. /\ p.handlers \in Seq(Content) /\ l \in Nat /\ Len(b.handlers) = l + 1
      /\ \A i \in 1 .. l : b.handlers[i] = p.handlers[i]
  BY <1>1 DEF BufferState
<1>. HIDE DEF p, a
<1>3. Len(h) = l /\ \A i \in 1 .. l - 1 : h[i] = p.handlers[i]
  <2>1. CASE HasActive(p)
    <3>. DEFINE q == Popped(p).handlers
                s == Active(p)
    <3>1. /\ q \in Seq(Content) /\ s \in Seq(Chunk)
          /\ p.handlers = Append(q, s)
      BY <1>1, <2>1, ActiveIsLast DEF BufferState
    <3>2. h = Append(q, s \o a)
      BY <1>1, <2>1, OutputWriteText DEF p, a
    <3>3. s \o a \in Content
      BY <1>1, <3>1 DEF Content
    <3>. HIDE DEF q, s
    <3>4. l = Len(q) + 1 /\ Len(q) \in Nat /\ Len(h) = Len(q) + 1
      BY <3>1, <3>2, <3>3
    <3>5. ASSUME NEW i \in 1 .. l - 1 PROVE h[i] = p.handlers[i]
      <4>1. i \in 1 .. Len(q)
        BY <3>4
      <4> QED
        BY <3>1, <3>2, <3>3, <4>1
    <3> QED
      BY <3>4, <3>5
  <2>2. CASE ~ HasActive(p)
    BY <1>1, <2>2, OutputWriteText DEF p, a
  <2> QED
    BY <2>1, <2>2
<1>. HIDE DEF l
<1>4. <<>> \in Content
  BY DEF Content
<1>5. /\ Len(Append(h, <<>>)) = l + 1
      /\ \A i \in 1 .. l - 1 : Append(h, <<>>)[i] = p.handlers[i]
  BY <1>2, <1>3, <1>4
<1> QED
  BY <1>2, <1>3, <1>5 DEF TopOnly

(* What every call does: the state keeps its types, the text is what has   *)
(* been kept, and only the top of the stack is touched.                    *)
CallIsRight ==
    /\ ob' \in BufferState /\ echoed' \in 0 .. MaxChunks
    /\ kept' \in Seq(Chunk) /\ kept' = Text(ob')
    /\ TopOnly(ob.handlers, ob'.handlers)

LEMMA EchoTop ==
    ASSUME NEW b \in BufferState, NEW s \in Seq(Chunk)
    PROVE  TopOnly(b.handlers, OutputWrite(b, s).handlers)
<1>. DEFINE h == OutputWrite(b, s).handlers
<1>1. b.handlers \in Seq(Content) /\ Len(b.handlers) \in Nat
  BY DEF BufferState
<1>2. CASE ~ HasActive(b)
  <2>1. h = b.handlers
    BY <1>2, OutputWriteText
  <2> QED
    BY <1>1, <2>1 DEF TopOnly
<1>3. CASE HasActive(b)
  <2>. DEFINE q == Popped(b).handlers
              a == Active(b)
  <2>1. q \in Seq(Content) /\ a \in Seq(Chunk) /\ b.handlers = Append(q, a)
    BY <1>3, ActiveIsLast DEF BufferState
  <2>2. h = Append(q, a \o s)
    BY <1>3, OutputWriteText
  <2>3. a \o s \in Content
    BY <2>1 DEF Content
  <2>. HIDE DEF q, a, h
  <2>4. /\ Len(h) = Len(b.handlers) /\ Len(b.handlers) = Len(q) + 1 /\ Len(q) \in Nat
        /\ \A i \in 1 .. Len(q) : h[i] = b.handlers[i]
    BY <2>1, <2>2, <2>3 DEF Content
  <2> QED
    BY <2>4 DEF TopOnly, h
<1> QED
  BY <1>2, <1>3

LEMMA ComplainIsRight ==
    ASSUME LostInv, ob' = Complain(ob), UNCHANGED <<echoed, kept>>
    PROVE  CallIsRight
<1>1. ob \in BufferState /\ kept = Text(ob)
  BY NothingLostIsText DEF LostInv, TypeOK
<1>2. ob' \in BufferState /\ Text(ob') = Text(ob) /\ ob'.handlers = ob.handlers
  BY <1>1, ComplainNotices, ComplainText
<1>3. ob.handlers \in Seq(Content) /\ Len(ob.handlers) \in Nat
  BY <1>1 DEF BufferState
<1>4. TopOnly(ob.handlers, ob'.handlers)
  BY <1>2, <1>3 DEF TopOnly
<1> QED
  BY <1>1, <1>2, <1>4 DEF CallIsRight, LostInv, TypeOK

LEMMA NextIsRight ==
    ASSUME LostInv, Next
    PROVE  CallIsRight
<1>1. /\ ob \in BufferState /\ kept = Text(ob) /\ kept \in Seq(Chunk)
      /\ echoed \in 0 .. MaxChunks /\ MaxChunks \in Nat
      /\ ob.handlers \in Seq(Content) /\ Len(ob.handlers) \in Nat
  BY NothingLostIsText, ClientAssumption DEF LostInv, TypeOK, BufferState
<1>2. CASE CallEcho
  <2>. DEFINE c == echoed + 1
  <2>1. c \in 0 .. MaxChunks /\ c \in Chunk /\ echoed' = c
    BY <1>1, <1>2, ClientAssumption DEF CallEcho
  <2>. HIDE DEF c
  <2>. DEFINE s == <<c>>
  <2>0. s \in Seq(Chunk)
    BY <2>1
  <2>. HIDE DEF s
  <2>2. s \in Seq(Chunk) /\ s # NoContent
    BY <2>0, NoContentAssumption
  <2>. USE DEF s
  <2>3. ob' = OutputWrite(ob, <<c>>) /\ kept' = Append(kept, c)
    BY <1>2, <2>1, <2>2 DEF CallEcho, Echo
  <2>4. /\ ob' \in BufferState /\ Text(ob') = Text(ob) \o <<c>>
        /\ TopOnly(ob.handlers, ob'.handlers)
    BY <1>1, <2>2, <2>3, OutputWriteText, EchoTop
  <2>5. kept' = kept \o <<c>> /\ kept' \in Seq(Chunk)
    BY <1>1, <2>1, <2>3
  <2> QED
    BY <1>1, <2>1, <2>4, <2>5 DEF CallIsRight
<1>3. CASE CallObStart
  <2>1. ob' = ObStart(ob)
    BY <1>3 DEF CallObStart
  <2>2. /\ ob' \in BufferState /\ Text(ob') = Text(ob)
        /\ ob'.handlers = Append(ob.handlers, <<>>)
    BY <1>1, <2>1, ObStartStacks, ObStartText
  <2>3. TopOnly(ob.handlers, ob'.handlers)
    BY <1>1, <2>2 DEF TopOnly, Content
  <2> QED
    BY <1>1, <1>3, <2>2, <2>3 DEF CallIsRight, CallObStart
<1>4. CASE CallObFlush /\ HasActive(ob)
  <2>. DEFINE h == OutputWrite(Popped(ob), Active(ob)).handlers
  <2>1. ob' = ObFlush(ob) /\ UNCHANGED <<echoed, kept>>
    BY <1>4 DEF CallObFlush
  <2>2. /\ ob' \in BufferState /\ Text(ob') = Text(ob)
        /\ HasActive(ob') /\ Active(ob') = <<>> /\ Popped(ob').handlers = h
    BY <1>1, <1>4, <2>1, ObFlushText
  <2>3. h \in Seq(Content)
    BY <2>2, ActiveIsLast DEF BufferState
  <2>4. ob'.handlers = Append(h, <<>>)
    BY <2>2, ActiveIsLast
  <2>5. TopOnly(ob.handlers, ob'.handlers)
    BY <1>1, <1>4, <2>3, <2>4, MovedDownIsTop
  <2> QED
    BY <1>1, <2>1, <2>2, <2>5 DEF CallIsRight
<1>5. CASE CallObEndFlush /\ HasActive(ob)
  <2>. DEFINE h == OutputWrite(Popped(ob), Active(ob)).handlers
  <2>1. ob' = ObEndFlush(ob) /\ UNCHANGED <<echoed, kept>>
    BY <1>5 DEF CallObEndFlush
  <2>2. ob' \in BufferState /\ Text(ob') = Text(ob) /\ ob'.handlers = h
    BY <1>1, <1>5, <2>1, ObEndFlushText
  <2>3. h \in Seq(Content)
    BY <2>2 DEF BufferState
  <2>4. TopOnly(ob.handlers, ob'.handlers)
    BY <1>1, <1>5, <2>2, <2>3, MovedDownIsTop
  <2> QED
    BY <1>1, <2>1, <2>2, <2>4 DEF CallIsRight
<1>6. CASE (CallObClean \/ CallObEndClean) /\ HasActive(ob)
  <2>. DEFINE q == Popped(ob).handlers
              t == Text(Popped(ob))
  <2>1. kept' = t /\ UNCHANGED echoed /\ (ob' = ObClean(ob) \/ ob' = ObEndClean(ob))
    BY <1>1, <1>6, TextBelow DEF CallObClean, CallObEndClean, KeptBelow
  <2>2. /\ ob' \in BufferState /\ Text(ob') = t
        /\ ob'.handlers = Append(q, <<>>) \/ ob'.handlers = q
    BY <1>1, <1>6, <2>1, ObCleanText, ObEndCleanText
  <2>3. q \in Seq(Content) /\ ob.handlers = Append(q, Active(ob)) /\ t \in Seq(Chunk)
    BY <1>1, <1>6, ActiveIsLast, TextType DEF BufferState
  <2>4. <<>> \in Content /\ Active(ob) \in Content
    BY <1>1, <1>6, ActiveIsLast DEF Content
  <2>. HIDE DEF q, t
  <2>5. TopOnly(ob.handlers, ob'.handlers)
    BY <2>2, <2>3, <2>4 DEF TopOnly
  <2> QED
    BY <1>1, <2>1, <2>2, <2>3, <2>5 DEF CallIsRight
<1>7. CASE CallObGetCleanAndEcho
  <2>. DEFINE c == ObEndClean(ob)
              a == Active(ob)
              p == Popped(ob)
  <2>1. HasActive(ob) /\ UNCHANGED <<echoed, kept>>
    BY <1>7 DEF CallObGetCleanAndEcho
  <2>2. a \in Seq(Chunk) /\ a # NoContent
    BY <1>1, <2>1, ActiveIsLast, NoContentAssumption
  <2>3. ob' = OutputWrite(c, a)
    BY <1>7, <2>1, <2>2
    DEF CallObGetCleanAndEcho, ObGetClean, ObGetContents, Echo
  <2>4. /\ c \in BufferState /\ Text(c) = Text(p)
        /\ c.handlers = p.handlers
        /\ p \in BufferState /\ Text(ob) = Text(p) \o a
    BY <1>1, <2>1, ObEndCleanText, PoppedText, ActiveIsLast
  <2>. HIDE DEF c, p
  <2>5. ob' \in BufferState /\ Text(ob') = Text(c) \o a
    BY <2>2, <2>3, <2>4, OutputWriteText
  <2>6. ob'.handlers = OutputWrite(p, a).handlers
    BY <2>3, <2>4 DEF OutputWrite, HasActive, ObGetLevel, WithActive, Active,
                      BufferState
  <2>7. ob'.handlers \in Seq(Content)
    BY <2>5 DEF BufferState
  <2>8. TopOnly(ob.handlers, ob'.handlers)
    BY <1>1, <2>1, <2>6, <2>7, MovedDownIsTop DEF p
  <2> QED
    BY <1>1, <2>1, <2>4, <2>5, <2>8 DEF CallIsRight
<1>8. CASE /\ CallObFlush \/ CallObEndFlush \/ CallObClean \/ CallObEndClean
           /\ ~ HasActive(ob)
  <2>1. ob' = Complain(ob) /\ UNCHANGED <<echoed, kept>>
    BY <1>8 DEF CallObFlush, CallObEndFlush, CallObClean, CallObEndClean, KeptBelow,
                ObFlush, ObEndFlush, ObClean, ObEndClean
  <2> QED
    BY <2>1, ComplainIsRight
<1> QED
  BY <1>2, <1>3, <1>4, <1>5, <1>6, <1>7, <1>8 DEF Next

LEMMA InitLost == Init => LostInv
<1>. SUFFICES ASSUME Init PROVE LostInv
  OBVIOUS
<1>1. TypeOK
  BY ClientAssumption DEF Init, TypeOK, BufferState
<1>2. Shown(<<>>) = <<>>
  BY DEF Shown
<1>3. Written(ob) = <<>> /\ FlattenSeq(ob.handlers) = <<>>
  BY <1>2, FlattenEmpty, WrittenIsShown DEF Init
<1>4. NothingLost
  BY <1>3 DEF Init, NothingLost
<1> QED
  BY <1>1, <1>4 DEF LostInv

LEMMA StepLost ==
    ASSUME LostInv, [Next]_vars
    PROVE  LostInv' /\ TopOnly(ob.handlers, ob'.handlers)
<1>1. CASE Next
  <2>1. CallIsRight
    BY <1>1, NextIsRight
  <2>2. TypeOK'
    BY <2>1 DEF CallIsRight, TypeOK
  <2>3. NothingLost'
    BY <2>1 DEF CallIsRight, NothingLost, Text
  <2> QED
    BY <2>1, <2>2, <2>3 DEF CallIsRight, LostInv
<1>2. CASE UNCHANGED vars
  <2>1. LostInv'
    BY <1>2 DEF vars, LostInv, TypeOK, NothingLost, Written
  <2>2. ob.handlers \in Seq(Content) /\ Len(ob.handlers) \in Nat /\ ob' = ob
    BY <1>2 DEF vars, LostInv, TypeOK, BufferState
  <2>. DEFINE h == ob.handlers
  <2>3. ob'.handlers = h /\ Len(h) \in Nat
    BY <2>2
  <2>. HIDE DEF h
  <2>4. TopOnly(h, h)
    BY <2>3 DEF TopOnly
  <2> QED
    BY <2>1, <2>3, <2>4 DEF h
<1> QED
  BY <1>1, <1>2

(* No sequence of calls loses, duplicates or reorders a chunk: what is on  *)
(* stdout followed by the buffers, from the bottom to the top, is what has *)
(* been echoed and not cleaned, for any number of chunks and any depth.    *)
THEOREM ClientLosesNothing == Spec => []NothingLost
<1>1. LostInv /\ [Next]_vars => LostInv'
  BY StepLost
<1>2. LostInv => NothingLost
  BY DEF LostInv
<1> QED
  BY InitLost, <1>1, <1>2, PTL DEF Spec

(* No call touches a buffer below the two topmost ones, or stacks or       *)
(* unstacks more than one: what a template calls leaves the buffers of its *)
(* callers further down alone.                                             *)
THEOREM ClientTouchesTheTop == Spec => OnlyTopBuffersTouched
<1>1. LostInv /\ [Next]_vars => LostInv'
  BY StepLost
<1>2. LostInv /\ [Next]_vars =>
          [ LET h == ob.handlers
                n == ob'.handlers
            IN  /\ Len(n) \in Len(h) - 1 .. Len(h) + 1
                /\ \A i \in 1 .. Len(h) - 2 : n[i] = h[i] ]_vars
  BY StepLost DEF TopOnly
<1> QED
  BY InitLost, <1>1, <1>2, PTL DEF Spec, OnlyTopBuffersTouched

=============================================================================
