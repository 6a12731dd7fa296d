------------------------- MODULE ChainLoader_proofs -------------------------
(***************************************************************************)
(* Theorems about ChainLoader, for every chain and every number of calls:  *)
(* the type invariant, whatever changes when; and, as long as the chain    *)
(* and its loaders do not change under a call (Quiet), the answers of get  *)
(* and exists and what exists leaves in its cache.                         *)
(***************************************************************************)
EXTENDS ChainLoader, TLAPS

(* A call that searches has passed only loaders that have no template; one *)
(* that is about to get it stands at one that has it.                      *)
Searching(c) ==
    call[c].pc \in {"asking", "getting"} =>
        /\ \A j \in 1 .. call[c].index - 1 : loaders[j] \notin holds
        /\ call[c].pc = "getting" =>
              call[c].op = "get" /\ loaders[call[c].index] \in holds

(* A walk of exists that is over has the answer.                           *)
Settled(c) ==
    call[c].pc = "settling" =>
        /\ call[c].op = "exists"
        /\ call[c].answer = TRUE <=> ~ FirstWith(None)

(* The cache never says that there is a template when there is none; it    *)
(* may deny one that there is, as long as the call that has done so is     *)
(* still there to correct it.                                              *)
CacheRight ==
    templateChanges = 0 =>
        /\ hasSourceCache = TRUE => ~ FirstWith(None)
        /\ hasSourceCache \notin {Unknown, TRUE} /\ ~ FirstWith(None) =>
              \E c \in Calls : InFlight(c) /\ call[c].op = "exists"

QuietInv ==
    /\ TypeOK
    /\ \A c \in Calls : Searching(c) /\ Settled(c)
    /\ CacheRight

(* What a step of a call with the variables j leaves it with when it goes  *)
(* on at an index of the list.                                             *)
LEMMA AtIndexType ==
    ASSUME loaders \in Seq(Loaders), NEW j \in Call, NEW i \in Nat \ {0}
    PROVE  /\ AtIndex(j, i) \in Call
           /\ AtIndex(j, i).op = j.op
           /\ IF i <= Len(loaders)
              THEN /\ AtIndex(j, i).pc = "asking"
                   /\ AtIndex(j, i).index = i /\ i \in DOMAIN loaders
              ELSE IF j.op = "exists"
              THEN AtIndex(j, i).pc = "settling" /\ AtIndex(j, i).answer = None
              ELSE AtIndex(j, i).pc = "rejected" /\ AtIndex(j, i).loader = None
<1>1. CASE i <= Len(loaders)
  <2>1. AtIndex(j, i) = [j EXCEPT !.pc = "asking", !.index = i]
    BY <1>1 DEF AtIndex
  <2>2. i \in DOMAIN loaders
    BY <1>1
  <2> QED
    BY <1>1, <2>1, <2>2 DEF Call
<1>2. CASE ~ (i <= Len(loaders)) /\ j.op = "exists"
  BY <1>2 DEF AtIndex, Settling, Call, Answers
<1>3. CASE ~ (i <= Len(loaders)) /\ j.op # "exists"
  BY <1>3 DEF AtIndex, Rejected, Call
<1> QED
  BY <1>1, <1>2, <1>3

LEMMA EndedType ==
    ASSUME NEW j \in Call, NEW l \in Loaders
    PROVE  /\ Resolved(j, l) \in Call
           /\ Resolved(j, l).pc = "resolved" /\ Resolved(j, l).loader = l
           /\ Rejected(j) \in Call
           /\ Rejected(j).pc = "rejected" /\ Rejected(j).loader = None
BY DEF Resolved, Rejected, Call

LEMMA SettlingType ==
    ASSUME NEW j \in Call
    PROVE  /\ Settling(j, TRUE) \in Call
           /\ Settling(j, TRUE).pc = "settling" /\ Settling(j, TRUE).answer = TRUE
           /\ Settling(j, TRUE).op = j.op
BY DEF Settling, Call, Answers

LEMMA NoCallType == NoCall \in Call /\ NoCall.pc = "idle"
BY DEF NoCall, Call, Answers, Operations

(* The loader that a call asks is one of the chain.                        *)
LEMMA AskedType ==
    ASSUME TypeOK, NEW c \in Calls, call[c].pc \in {"asking", "getting"}
    PROVE  /\ call[c] \in Call /\ call[c].index \in DOMAIN loaders
           /\ call[c].index + 1 \in Nat \ {0}
           /\ Asked(c) \in Loaders
BY DEF TypeOK, Asked, Call

(* Where the search of the call c goes when a loader has said no.          *)
Onwards(c) == AtIndex(call[c], call[c].index + 1)

LEMMA OnwardsType ==
    ASSUME TypeOK, NEW c \in Calls, call[c].pc \in {"asking", "getting"}
    PROVE  /\ Onwards(c) \in Call /\ Onwards(c).op = call[c].op
           /\ \/ /\ Onwards(c).pc = "asking"
                 /\ Onwards(c).index = call[c].index + 1
                 /\ Onwards(c).index \in DOMAIN loaders
              \/ /\ call[c].index = Len(loaders) /\ call[c].op = "exists"
                 /\ Onwards(c).pc = "settling" /\ Onwards(c).answer = None
              \/ /\ call[c].index = Len(loaders) /\ call[c].op # "exists"
                 /\ Onwards(c).pc = "rejected" /\ Onwards(c).loader = None
<1>. DEFINE i == call[c].index + 1
<1>1. call[c] \in Call /\ call[c].index \in DOMAIN loaders /\ i \in Nat \ {0}
  BY AskedType
<1>2. loaders \in Seq(Loaders)
  BY DEF TypeOK
<1>3. call[c].index \in 1 .. Len(loaders)
  BY <1>1, <1>2
<1>4. i > Len(loaders) <=> call[c].index = Len(loaders)
  BY <1>2, <1>3
<1>. HIDE DEF i
<1>5. /\ AtIndex(call[c], i) \in Call
      /\ AtIndex(call[c], i).op = call[c].op
      /\ IF i <= Len(loaders)
         THEN /\ AtIndex(call[c], i).pc = "asking"
              /\ AtIndex(call[c], i).index = i /\ i \in DOMAIN loaders
         ELSE IF call[c].op = "exists"
         THEN AtIndex(call[c], i).pc = "settling" /\ AtIndex(call[c], i).answer = None
         ELSE AtIndex(call[c], i).pc = "rejected" /\ AtIndex(call[c], i).loader = None
  BY <1>1, <1>2, AtIndexType
<1>6. i \in Nat /\ Len(loaders) \in Nat
  BY <1>1, <1>2
<1>7. Onwards(c) = AtIndex(call[c], i)
  BY DEF Onwards, i
<1> QED
  BY <1>4, <1>5, <1>6, <1>7 DEF i

(* A step of the call c: the others keep their variables.                  *)
OfCall(c) ==
    \/ \E op \in Operations : Begin(c, op)
    \/ AskExists(c) \/ Settle(c) \/ AskGet(c) \/ Get(c) \/ AskResolve(c)
    \/ Forget(c)

LEMMA OthersKept ==
    ASSUME TypeOK, NEW c \in Calls, OfCall(c)
    PROVE  /\ UNCHANGED <<loaders, holds, templateChanges>>
           /\ call' = [call EXCEPT ![c] = call'[c]]
           /\ \A d \in Calls \ {c} : call'[d] = call[d]
BY DEF OfCall, TypeOK, Begin, AskExists, Settle, AskGet, Get, AskResolve, Forget

(* Each step of a call leaves the variables of a call, an answer in the    *)
(* cache, and an index in the list if it asks.                             *)
LEMMA CallStepType ==
    ASSUME TypeOK, NEW c \in Calls, OfCall(c)
    PROVE  /\ call'[c] \in Call /\ hasSourceCache' \in Answers \cup {Unknown}
           /\ call'[c].pc \in {"asking", "getting"} =>
                  call'[c].index \in DOMAIN loaders
<1>. call[c] \in Call /\ hasSourceCache \in Answers \cup {Unknown}
  BY DEF TypeOK
<1>. loaders \in Seq(Loaders)
  BY DEF TypeOK
<1>. DEFINE Typed == /\ call'[c] \in Call
                     /\ hasSourceCache' \in Answers \cup {Unknown}
                     /\ call'[c].pc \in {"asking", "getting"} =>
                            call'[c].index \in DOMAIN loaders
<1>1. ASSUME NEW op \in Operations, Begin(c, op) PROVE Typed
  <2>. DEFINE j == [NoCall EXCEPT !.op = op]
  <2>1. j \in Call
    BY NoCallType DEF Call
  <2>2. CASE op = "exists" /\ hasSourceCache # Unknown
    <3>1. call'[c] = [j EXCEPT !.pc = "resolved", !.answer = hasSourceCache]
      BY <1>1, <2>2 DEF Begin, TypeOK
    <3>. hasSourceCache \in Answers
      BY <2>2
    <3>. HIDE DEF j
    <3>2. call'[c] \in Call /\ call'[c].pc = "resolved"
      BY <2>1, <3>1 DEF Call
    <3> QED
      BY <1>1, <3>2 DEF Begin
  <2>3. CASE ~ (op = "exists" /\ hasSourceCache # Unknown)
    <3>1. call'[c] = AtIndex(j, 1)
      BY <1>1, <2>3 DEF Begin, TypeOK
    <3> QED
      BY <1>1, <2>1, <3>1, AtIndexType DEF Begin
  <2> QED
    BY <2>2, <2>3
<1>2. CASE AskExists(c)
  <2>1. call'[c] = IF Asked(c) \in holds THEN Settling(call[c], TRUE)
                                         ELSE Onwards(c)
    BY <1>2 DEF AskExists, TypeOK, Onwards
  <2> QED
    <3>1. call'[c] \in Call /\ (call'[c].pc \in {"asking", "getting"} =>
                                  call'[c].index \in DOMAIN loaders)
      <4>1. /\ Settling(call[c], TRUE) \in Call
            /\ Settling(call[c], TRUE).pc = "settling"
        BY SettlingType
      <4>2. /\ Onwards(c) \in Call
            /\ Onwards(c).pc = "asking" => Onwards(c).index \in DOMAIN loaders
            /\ Onwards(c).pc # "getting"
        BY <1>2, OnwardsType DEF AskExists
      <4> QED
        BY <2>1, <4>1, <4>2
    <3>2. hasSourceCache' \in Answers \cup {Unknown}
      BY <1>2 DEF AskExists, Answers
    <3> QED
      BY <3>1, <3>2
<1>3. CASE Settle(c)
  <2>1. call'[c] = [call[c] EXCEPT !.pc = "resolved"]
    BY <1>3 DEF Settle, TypeOK
  <2> QED
    BY <1>3, <2>1 DEF Settle, Call
<1>4. CASE AskGet(c)
  <2>1. call'[c] = IF Asked(c) \in holds THEN [call[c] EXCEPT !.pc = "getting"]
                                         ELSE Onwards(c)
    BY <1>4 DEF AskGet, TypeOK, Onwards
  <2>2. [call[c] EXCEPT !.pc = "getting"] \in Call
    BY DEF Call
  <2> QED
    BY <1>4, <2>1, <2>2, AskedType, OnwardsType DEF AskGet
<1>5. CASE Get(c)
  <2>1. call'[c] = IF Asked(c) \in holds THEN Resolved(call[c], Asked(c))
                                         ELSE Onwards(c)
    BY <1>5 DEF Get, TypeOK, Onwards
  <2> QED
    <3>1. /\ Resolved(call[c], Asked(c)) \in Call
          /\ Resolved(call[c], Asked(c)).pc = "resolved"
      BY <1>5, AskedType, EndedType DEF Get
    <3>2. /\ Onwards(c) \in Call
          /\ Onwards(c).pc = "asking" => Onwards(c).index \in DOMAIN loaders
          /\ Onwards(c).pc # "getting"
      BY <1>5, OnwardsType DEF Get
    <3> QED
      BY <1>5, <2>1, <3>1, <3>2 DEF Get
<1>6. CASE AskResolve(c)
  <2>1. \/ call'[c] = Resolved(call[c], Asked(c))
        \/ call'[c] = Onwards(c)
        \/ call'[c] = Rejected(call[c])
    BY <1>6 DEF AskResolve, TypeOK, Onwards
  <2> QED
    <3>1. /\ Resolved(call[c], Asked(c)) \in Call /\ Rejected(call[c]) \in Call
          /\ Resolved(call[c], Asked(c)).pc = "resolved"
          /\ Rejected(call[c]).pc = "rejected"
      BY <1>6, AskedType, EndedType DEF AskResolve
    <3>2. /\ Onwards(c) \in Call
          /\ Onwards(c).pc = "asking" => Onwards(c).index \in DOMAIN loaders
          /\ Onwards(c).pc # "getting"
      BY <1>6, OnwardsType DEF AskResolve
    <3> QED
      BY <1>6, <2>1, <3>1, <3>2 DEF AskResolve
<1>7. CASE Forget(c)
  BY <1>7, NoCallType DEF Forget, TypeOK
<1> QED
  BY <1>1, <1>2, <1>3, <1>4, <1>5, <1>6, <1>7 DEF OfCall

LEMMA NextTyped ==
    ASSUME TypeOK, [Next]_vars
    PROVE  TypeOK'
<1>1. ASSUME NEW c \in Calls, OfCall(c) PROVE TypeOK'
  BY <1>1, OthersKept, CallStepType DEF TypeOK
<1>2. ASSUME NEW l \in Loaders, AddLoader(l) PROVE TypeOK'
  BY <1>2 DEF AddLoader, TypeOK
<1>3. ASSUME NEW l \in Loaders, ChangeTemplate(l) PROVE TypeOK'
  BY <1>3, ChainAssumption DEF ChangeTemplate, TypeOK
<1>4. CASE UNCHANGED vars
  BY <1>4 DEF vars, TypeOK
<1> QED
  BY <1>1, <1>2, <1>3, <1>4 DEF Next, OfCall

LEMMA InitTyped == Init => TypeOK
BY ChainAssumption, NoCallType DEF Init, TypeOK

(* Whatever changes when, the variables have their types, and a call that  *)
(* asks a loader asks one of the chain.                                    *)
THEOREM ChainTyped == Spec => []TypeOK
<1> QED
  BY InitTyped, NextTyped, PTL DEF Spec

-----------------------------------------------------------------------------
(* The answers, while the chain keeps still under the calls. *)

(* What the two action properties ask of a step of the call c.             *)
Answered(c) ==
    /\ Ends(c) /\ call[c].op = "get" =>
          /\ FirstWith(call'[c].loader)
          /\ call'[c].pc = "rejected" <=> call'[c].loader = None
    /\ call[c].pc = "settling" /\ call'[c].pc = "resolved" =>
          (call'[c].answer = TRUE <=> ~ FirstWith(None))

(* The loader asked is the first that has the template if it has it; if it *)
(* has not, the search goes on past loaders that have none, or ends with   *)
(* the answer that there is none.                                          *)
LEMMA AskedIsFirst ==
    ASSUME TypeOK, NEW c \in Calls, call[c].pc \in {"asking", "getting"},
           Searching(c), Asked(c) \in holds
    PROVE  FirstWith(Asked(c)) /\ ~ FirstWith(None) /\ Asked(c) # None
<1>1. Asked(c) \in Loaders /\ call[c].index \in DOMAIN loaders
  BY AskedType
<1>2. Asked(c) # None
  BY <1>1, ChainAssumption
<1> QED
  BY <1>1, <1>2 DEF FirstWith, Asked, Searching

LEMMA OnwardsIsRight ==
    ASSUME TypeOK, NEW c \in Calls, call[c].pc \in {"asking", "getting"},
           Searching(c), Asked(c) \notin holds
    PROVE  /\ Onwards(c).pc = "asking" =>
                 \A j \in 1 .. Onwards(c).index - 1 : loaders[j] \notin holds
           /\ Onwards(c).pc # "asking" => FirstWith(None)
<1>1. call[c].index \in 1 .. Len(loaders) /\ loaders \in Seq(Loaders)
  BY AskedType DEF TypeOK
<1>2. \A j \in 1 .. call[c].index : loaders[j] \notin holds
  BY <1>1 DEF Searching, Asked
<1>3. CASE Onwards(c).pc = "asking"
  <2>1. Onwards(c).index = call[c].index + 1
    BY <1>3, OnwardsType
  <2> QED
    BY <1>1, <1>2, <1>3, <2>1
<1>4. CASE Onwards(c).pc # "asking"
  <2>1. call[c].index = Len(loaders)
    BY <1>4, OnwardsType
  <2> QED
    BY <1>1, <1>2, <1>4, <2>1 DEF FirstWith
<1> QED
  BY <1>3, <1>4

(* What a step of the call c leaves of the invariant: its own part, and    *)
(* the cache either corrected, or denying a template while c is in flight, *)
(* or as it was when c was not a call of exists in flight.                 *)
StepIsRight(c) ==
    /\ call'[c].pc \in {"asking", "getting"} =>
           /\ \A j \in 1 .. call'[c].index - 1 : loaders[j] \notin holds
           /\ call'[c].pc = "getting" =>
                 call'[c].op = "get" /\ loaders[call'[c].index] \in holds
    /\ call'[c].pc = "settling" =>
           /\ call'[c].op = "exists"
           /\ call'[c].answer = TRUE <=> ~ FirstWith(None)
    /\ Answered(c)
    /\ \/ hasSourceCache' = TRUE /\ ~ FirstWith(None)
       \/ hasSourceCache' # TRUE /\ FirstWith(None)
       \/ /\ hasSourceCache' # TRUE
          /\ call'[c].pc \in {"asking", "settling"} /\ call'[c].op = "exists"
       \/ /\ hasSourceCache' = hasSourceCache
          /\ call[c].pc \in {"asking", "getting", "settling"} =>
                 call[c].op # "exists"

LEMMA BeginRight ==
    ASSUME QuietInv, NEW c \in Calls, NEW op \in Operations, Begin(c, op)
    PROVE  StepIsRight(c)
<1>. DEFINE j == [NoCall EXCEPT !.op = op]
<1>1. call[c].pc = "idle" /\ hasSourceCache' = hasSourceCache
  BY DEF Begin
<1>2. ~ Ends(c)
  BY <1>1 DEF Ends, InFlight
<1>3. CASE op = "exists" /\ hasSourceCache # Unknown
  <2>1. call'[c].pc = "resolved"
    BY <1>3, NoCallType DEF Begin, QuietInv, TypeOK, Call
  <2> QED
    BY <1>1, <1>2, <2>1 DEF StepIsRight, Answered
<1>4. CASE ~ (op = "exists" /\ hasSourceCache # Unknown)
  <2>1. call'[c] = AtIndex(j, 1)
    BY <1>4 DEF Begin, QuietInv, TypeOK
  <2>2. j \in Call /\ j.op = op
    BY NoCallType DEF Call
  <2>3. loaders \in Seq(Loaders) /\ Len(loaders) \in Nat
    BY DEF QuietInv, TypeOK
  <2>. HIDE DEF j
  <2>4. \/ call'[c].pc = "asking" /\ call'[c].index = 1
        \/ /\ Len(loaders) = 0 /\ call'[c].op = "exists"
           /\ call'[c].pc = "settling" /\ call'[c].answer = None
        \/ call'[c].pc = "rejected"
    BY <2>1, <2>2, <2>3, AtIndexType
  <2>5. Len(loaders) = 0 => FirstWith(None)
    BY <2>3 DEF FirstWith
  <2>6. None # TRUE
    BY ChainAssumption
  <2> QED
    <3>1. call'[c].pc = "asking" =>
              \A i \in 1 .. call'[c].index - 1 : loaders[i] \notin holds
      BY <2>4
    <3>2. Answered(c)
      BY <1>1, <1>2 DEF Answered
    <3> QED
      BY <1>1, <2>4, <2>5, <2>6, <3>1, <3>2 DEF StepIsRight
<1> QED
  BY <1>3, <1>4

LEMMA AskExistsRight ==
    ASSUME QuietInv, NEW c \in Calls, AskExists(c)
    PROVE  StepIsRight(c)
<1>1. /\ TypeOK /\ Searching(c)
      /\ call[c].pc = "asking" /\ call[c].op = "exists"
  BY DEF QuietInv, AskExists
<1>2. call'[c] = IF Asked(c) \in holds THEN Settling(call[c], TRUE) ELSE Onwards(c)
  BY <1>1 DEF AskExists, TypeOK, Onwards
<1>3. call[c] \in Call /\ None # TRUE
  BY <1>1, AskedType, ChainAssumption
<1>4. ~ (Ends(c) /\ call[c].op = "get")
  BY <1>1
<1>5. CASE Asked(c) \in holds
  <2>1. hasSourceCache' = TRUE /\ ~ FirstWith(None)
    BY <1>1, <1>5, AskedIsFirst DEF AskExists
  <2>2. /\ call'[c].pc = "settling" /\ call'[c].answer = TRUE
        /\ call'[c].op = "exists"
    BY <1>1, <1>2, <1>3, <1>5, SettlingType
  <2> QED
    BY <1>1, <1>4, <2>1, <2>2 DEF StepIsRight, Answered
<1>6. CASE Asked(c) \notin holds
  <2>1. hasSourceCache' # TRUE
    BY <1>6 DEF AskExists
  <2>2. /\ call'[c].op = "exists"
        /\ \/ call'[c].pc = "asking"
           \/ call'[c].pc = "settling" /\ call'[c].answer = None
    BY <1>1, <1>2, <1>6, OnwardsType
  <2>3. /\ call'[c].pc = "asking" =>
              \A j \in 1 .. call'[c].index - 1 : loaders[j] \notin holds
        /\ call'[c].pc # "asking" => FirstWith(None)
    BY <1>1, <1>2, <1>6, OnwardsIsRight
  <2> QED
    BY <1>1, <1>3, <1>4, <2>1, <2>2, <2>3 DEF StepIsRight, Answered
<1> QED
  BY <1>5, <1>6

LEMMA SettleRight ==
    ASSUME QuietInv, NEW c \in Calls, Settle(c)
    PROVE  StepIsRight(c)
<1>1. /\ call[c].pc = "settling" /\ call[c].op = "exists"
      /\ call[c].answer = TRUE <=> ~ FirstWith(None)
  BY DEF QuietInv, Settled, Settle
<1>2. call'[c].pc = "resolved" /\ call'[c].answer = call[c].answer
  BY DEF Settle, QuietInv, TypeOK, Call
<1>3. hasSourceCache' = call[c].answer
  BY DEF Settle
<1> QED
  BY <1>1, <1>2, <1>3 DEF StepIsRight, Answered

LEMMA AskGetRight ==
    ASSUME QuietInv, NEW c \in Calls, AskGet(c)
    PROVE  StepIsRight(c)
<1>1. /\ TypeOK /\ Searching(c) /\ hasSourceCache' = hasSourceCache
      /\ call[c].pc = "asking" /\ call[c].op = "get"
  BY DEF QuietInv, AskGet
<1>2. call'[c] = IF Asked(c) \in holds THEN [call[c] EXCEPT !.pc = "getting"]
                                       ELSE Onwards(c)
  BY <1>1 DEF AskGet, TypeOK, Onwards
<1>3. CASE Asked(c) \in holds
  <2>1. /\ call'[c].pc = "getting" /\ call'[c].op = "get"
        /\ call'[c].index = call[c].index
    BY <1>1, <1>2, <1>3, AskedType DEF Call
  <2> QED
    BY <1>1, <1>3, <2>1 DEF StepIsRight, Answered, Ends, Searching, Asked
<1>4. CASE Asked(c) \notin holds
  <2>1. \/ call'[c].pc = "asking"
        \/ call'[c].pc = "rejected" /\ call'[c].loader = None
    BY <1>1, <1>2, <1>4, OnwardsType
  <2>2. /\ call'[c].pc = "asking" =>
              \A j \in 1 .. call'[c].index - 1 : loaders[j] \notin holds
        /\ call'[c].pc # "asking" => FirstWith(None)
    BY <1>1, <1>2, <1>4, OnwardsIsRight
  <2> QED
    BY <1>1, <2>1, <2>2 DEF StepIsRight, Answered, Ends
<1> QED
  BY <1>3, <1>4

LEMMA GetRight ==
    ASSUME QuietInv, NEW c \in Calls, Get(c)
    PROVE  StepIsRight(c)
<1>1. /\ TypeOK /\ Searching(c) /\ hasSourceCache' = hasSourceCache
      /\ call[c].pc = "getting" /\ call[c].op = "get" /\ Asked(c) \in holds
  BY DEF QuietInv, Get, Searching, Asked
<1>2. call'[c] = Resolved(call[c], Asked(c))
  BY <1>1 DEF Get, TypeOK
<1>3. call'[c].pc = "resolved" /\ call'[c].loader = Asked(c)
  BY <1>1, <1>2, AskedType, EndedType
<1>4. FirstWith(Asked(c)) /\ Asked(c) # None
  BY <1>1, AskedIsFirst
<1> QED
  BY <1>1, <1>3, <1>4 DEF StepIsRight, Answered, Ends

LEMMA AskResolveRight ==
    ASSUME QuietInv, NEW c \in Calls, AskResolve(c)
    PROVE  StepIsRight(c)
<1>1. /\ TypeOK /\ Searching(c) /\ hasSourceCache' = hasSourceCache
      /\ call[c].pc = "asking" /\ call[c].op = "resolve"
  BY DEF QuietInv, AskResolve
<1>2. \/ call'[c] = Resolved(call[c], Asked(c))
      \/ call'[c] = Onwards(c) /\ Asked(c) \notin holds
      \/ call'[c] = Rejected(call[c])
  BY <1>1 DEF AskResolve, TypeOK, Onwards
<1>3. CASE call'[c] = Onwards(c) /\ Asked(c) \notin holds
  <2>1. call'[c].pc \in {"asking", "rejected"}
    BY <1>1, <1>3, OnwardsType
  <2>2. call'[c].pc = "asking" =>
            \A j \in 1 .. call'[c].index - 1 : loaders[j] \notin holds
    BY <1>1, <1>3, OnwardsIsRight
  <2> QED
    BY <1>1, <2>1, <2>2 DEF StepIsRight, Answered
<1>4. CASE ~ (call'[c] = Onwards(c) /\ Asked(c) \notin holds)
  <2>1. call'[c].pc \in {"resolved", "rejected"}
    BY <1>1, <1>2, <1>4, AskedType, EndedType
  <2> QED
    BY <1>1, <2>1 DEF StepIsRight, Answered
<1> QED
  BY <1>3, <1>4

LEMMA ForgetRight ==
    ASSUME QuietInv, NEW c \in Calls, Forget(c)
    PROVE  StepIsRight(c)
<1>1. /\ call[c].pc \in {"resolved", "rejected"} /\ call'[c].pc = "idle"
      /\ hasSourceCache' = hasSourceCache
  BY NoCallType DEF Forget, QuietInv, TypeOK
<1> QED
  BY <1>1 DEF StepIsRight, Answered, Ends, InFlight

(* A step of a call keeps the invariant.                                   *)
LEMMA CallStepQuiet ==
    ASSUME QuietInv, NEW c \in Calls, OfCall(c)
    PROVE  QuietInv' /\ \A d \in Calls : Answered(d)
<1>1. StepIsRight(c)
  BY BeginRight, AskExistsRight, SettleRight, AskGetRight, GetRight,
     AskResolveRight, ForgetRight DEF OfCall
<1>2. /\ UNCHANGED <<loaders, holds, templateChanges>>
      /\ \A d \in Calls \ {c} : call'[d] = call[d]
  BY OthersKept DEF QuietInv
<1>3. TypeOK'
  BY NextTyped DEF QuietInv, Next, OfCall
<1>4. FirstWith(None)' = FirstWith(None)
  BY <1>2 DEF FirstWith
<1>5. ASSUME NEW d \in Calls PROVE (Searching(d) /\ Settled(d))' /\ Answered(d)
  <2>1. CASE d = c
    BY <1>1, <1>2, <1>4, <2>1 DEF StepIsRight, Searching, Settled
  <2>2. CASE d # c
    <3>1. call'[d] = call[d]
      BY <1>2, <2>2
    <3> QED
      BY <1>2, <1>4, <3>1 DEF QuietInv, Searching, Settled, Answered, Ends, InFlight
  <2> QED
    BY <2>1, <2>2
<1>6. CacheRight'
  <2>. SUFFICES ASSUME templateChanges = 0
                PROVE  /\ hasSourceCache' = TRUE => ~ FirstWith(None)
                       /\ /\ hasSourceCache' \notin {Unknown, TRUE}
                          /\ ~ FirstWith(None)
                          => \E d \in Calls : InFlight(d)' /\ call'[d].op = "exists"
    BY <1>2, <1>4 DEF CacheRight
  <2>1. CASE \/ hasSourceCache' = TRUE /\ ~ FirstWith(None)
             \/ hasSourceCache' # TRUE /\ FirstWith(None)
    BY <2>1
  <2>2. CASE /\ hasSourceCache' # TRUE
             /\ call'[c].pc \in {"asking", "settling"} /\ call'[c].op = "exists"
    BY <2>2 DEF InFlight
  <2>3. CASE /\ hasSourceCache' = hasSourceCache
             /\ call[c].pc \in {"asking", "getting", "settling"} =>
                    call[c].op # "exists"
    <3>1. hasSourceCache = TRUE => ~ FirstWith(None)
      BY DEF QuietInv, CacheRight
    <3>2. ASSUME hasSourceCache \notin {Unknown, TRUE}, ~ FirstWith(None)
          PROVE  \E d \in Calls : InFlight(d)' /\ call'[d].op = "exists"
      <4>1. PICK d \in Calls : InFlight(d) /\ call[d].op = "exists"
        BY <3>2 DEF QuietInv, CacheRight
      <4>2. d # c
        BY <2>3, <4>1 DEF InFlight
      <4> QED
        BY <1>2, <4>1, <4>2 DEF InFlight
    <3> QED
      BY <2>3, <3>1, <3>2
  <2> QED
    BY <1>1, <2>1, <2>2, <2>3 DEF StepIsRight
<1> QED
  BY <1>3, <1>5, <1>6 DEF QuietInv

(* A change comes while no call is in flight: the chain forgets what it    *)
(* has cached when it gets a loader.                                       *)
LEMMA ChangeQuiet ==
    ASSUME QuietInv, Quiet, NEW l \in Loaders, AddLoader(l) \/ ChangeTemplate(l)
    PROVE  QuietInv' /\ \A d \in Calls : Answered(d)
<1>1. \A d \in Calls : call[d].pc \notin {"asking", "getting", "settling"}
  BY DEF AddLoader, ChangeTemplate, CanChange, InFlight
<1>2. call' = call
  BY DEF AddLoader, ChangeTemplate
<1>3. TypeOK'
  BY NextTyped DEF QuietInv, Next
<1>4. \A d \in Calls : (Searching(d) /\ Settled(d))' /\ Answered(d)
  BY <1>1, <1>2 DEF Searching, Settled, Answered, Ends, InFlight
<1>5. CacheRight'
  <2>1. CASE AddLoader(l)
    BY <2>1, ChainAssumption DEF AddLoader, CacheRight
  <2>2. CASE ChangeTemplate(l)
    BY <2>2 DEF ChangeTemplate, CacheRight, QuietInv, TypeOK
  <2> QED
    BY <2>1, <2>2
<1> QED
  BY <1>3, <1>4, <1>5 DEF QuietInv

LEMMA NextQuiet ==
    ASSUME QuietInv, Quiet, [Next]_vars
    PROVE  QuietInv' /\ \A c \in Calls : Answered(c)
<1>1. CASE UNCHANGED vars
  <2>1. TypeOK'
    BY NextTyped DEF QuietInv
  <2>2. \A c \in Calls : (Searching(c) /\ Settled(c))' /\ Answered(c)
    BY <1>1 DEF vars, QuietInv, Searching, Settled, FirstWith, Answered, Ends, InFlight
  <2>3. CacheRight'
    BY <1>1 DEF vars, QuietInv, CacheRight, FirstWith, InFlight
  <2> QED
    BY <2>1, <2>2, <2>3 DEF QuietInv
<1> QED
  BY <1>1, CallStepQuiet, ChangeQuiet DEF Next, OfCall

LEMMA InitQuiet == Init => QuietInv
<1>. SUFFICES ASSUME Init PROVE QuietInv
  OBVIOUS
<1>1. TypeOK
  BY InitTyped
<1>2. \A c \in Calls : Searching(c) /\ Settled(c)
  BY NoCallType DEF Init, Searching, Settled
<1>3. CacheRight
  BY ChainAssumption DEF Init, CacheRight
<1> QED
  BY <1>1, <1>2, <1>3 DEF QuietInv

(* While the chain keeps still under its calls, what exists leaves in the  *)
(* cache once its calls are over is whether a loader has the template,     *)
(* however many calls have written to it and in whatever order.            *)
THEOREM QuietCacheSettles == Quiet => (Spec => []CacheSettles)
<1>. SUFFICES ASSUME Quiet PROVE Spec => []CacheSettles
  OBVIOUS
<1>1. QuietInv /\ [Next]_vars => QuietInv'
  BY NextQuiet
<1>2. QuietInv => CacheSettles
  BY DEF QuietInv, CacheRight, CacheSettles
<1> QED
  BY InitQuiet, <1>1, <1>2, PTL DEF Spec

(* Under the same condition a search ends with the first loader of the     *)
(* chain that has the template, and rejects only if none has.              *)
THEOREM QuietGetTriesInTurn == Quiet => (Spec => GetTriesInTurn)
<1>. SUFFICES ASSUME Quiet PROVE Spec => GetTriesInTurn
  OBVIOUS
<1>1. QuietInv /\ [Next]_vars => QuietInv'
  BY NextQuiet
<1>2. QuietInv /\ [Next]_vars =>
          [ \A c \in Calls : Ends(c) /\ call[c].op = "get" =>
                /\ FirstWith(call'[c].loader)
                /\ call'[c].pc = "rejected" <=> call'[c].loader = None ]_vars
  BY NextQuiet DEF Answered
<1> QED
  BY InitQuiet, <1>1, <1>2, PTL DEF Spec, GetTriesInTurn

(* And a call of exists that has walked the chain answers whether a loader *)
(* of it has the template.                                                 *)
THEOREM QuietExistsIsRight == Quiet => (Spec => ExistsIsRight)
<1>. SUFFICES ASSUME Quiet PROVE Spec => ExistsIsRight
  OBVIOUS
<1>1. QuietInv /\ [Next]_vars => QuietInv'
  BY NextQuiet
<1>2. QuietInv /\ [Next]_vars =>
          [ \A c \in Calls : call[c].pc = "settling" /\ call'[c].pc = "resolved" =>
                (call'[c].answer = TRUE <=> ~ FirstWith(None)) ]_vars
  BY NextQuiet DEF Answered
<1> QED
  BY InitQuiet, <1>1, <1>2, PTL DEF Spec, ExistsIsRight

=============================================================================
