---------------------------- MODULE ChainLoader ----------------------------
(***************************************************************************)
(* loader/chain.ts: the search of one template through a list of loaders,  *)
(* by concurrent calls, with the cache that exists keeps of its answers.   *)
(*                                                                         *)
(* A step of a call is the answer of one loader and the callback it is     *)
(* handed to.  getSourceContext, getCacheKey and isFresh ask a loader in   *)
(* the same two steps, exists and then the method itself: they are all the *)
(* operation "get" here.                                                   *)
(*                                                                         *)
(* The exists of a loader of the chain tells whether it has the template:  *)
(* that is so of an array or filesystem loader, and of a loader of the     *)
(* program's own it is assumed.  It is not so of another chain, whose      *)
(* hasSourceCache has wrong answers for a while as the one here has: a     *)
(* chain is not among the loaders.                                         *)
(***************************************************************************)
EXTENDS Naturals, Sequences

CONSTANTS
    Loaders,            \* the loaders a program may put in the chain
    Kind,               \* what each of them is: a function on Loaders
    Calls,              \* the calls of the methods of the chain
    Unknown,            \* the template is not in hasSourceCache
    None,               \* null, the answer of no loader
    Quiet,              \* TRUE: changes only while no call is in flight
    MaxTemplateChanges  \* bound: how many times a template comes or goes

(* "TwingLoaderChain accepts any loader that implements                    *)
(* TwingLoaderInterface" (docs/api.md); the other ones are those whose     *)
(* resolve rejects a template that they do not have.                       *)
Kinds == {"array", "filesystem", "other"}
Operations == {"exists", "get", "resolve"}

ASSUME ChainAssumption ==
    /\ Kind \in [Loaders -> Kinds]
    /\ None \notin Loaders \cup BOOLEAN /\ Unknown \notin {None} \cup BOOLEAN
    /\ Quiet \in BOOLEAN /\ MaxTemplateChanges \in Nat

VARIABLES
    loaders,            \* this.loaders
    holds,              \* the loaders that have the template
    hasSourceCache,     \* what this.hasSourceCache says of the template
    call,               \* the variables of each call
    templateChanges     \* how many times the template has come or gone

vars == <<loaders, holds, hasSourceCache, call, templateChanges>>

Answers == BOOLEAN \cup {None}

Call == [op : Operations,
         pc : {"idle", "asking", "getting", "settling", "resolved", "rejected"},
         index : Nat, loader : Loaders \cup {None}, answer : Answers]

NoCall == [op |-> "exists", pc |-> "idle", index |-> 0, loader |-> None,
           answer |-> None]

InFlight(c) == call[c].pc \in {"asking", "getting", "settling"}

(* l is the first loader of the chain that has the template, or None.      *)
FirstWith(l) ==
    IF l = None THEN \A i \in DOMAIN loaders : loaders[i] \notin holds
    ELSE \E i \in DOMAIN loaders :
            /\ loaders[i] = l /\ l \in holds
            /\ \A j \in 1 .. i - 1 : loaders[j] \notin holds

Init ==
    /\ loaders = <<>>
    /\ holds \in SUBSET Loaders
    /\ hasSourceCache = Unknown
    /\ call = [c \in Calls |-> NoCall]
    /\ templateChanges = 0

-----------------------------------------------------------------------------
(* The calls. *)

Resolved(j, l) == [j EXCEPT !.pc = "resolved", !.loader = l, !.index = 0]
Rejected(j) == [j EXCEPT !.pc = "rejected", !.loader = None, !.index = 0]
Settling(j, a) == [j EXCEPT !.pc = "settling", !.answer = a, !.index = 0]

(* A mutant of AtIndex: the last loader is not asked.                      *)
AtIndexButLast(j, i) ==
    IF i < Len(loaders) THEN [j EXCEPT !.pc = "asking", !.index = i]
    ELSE IF j.op = "exists" THEN Settling(j, None) ELSE Rejected(j)

(* The call j goes on with the loader at an index of the list as it is     *)
(* now, or has none left.                                                  *)
AtIndex(j, i) ==
    IF i <= Len(loaders) THEN [j EXCEPT !.pc = "asking", !.index = i]
    ELSE IF j.op = "exists" THEN Settling(j, None) ELSE Rejected(j)

Begin(c, op) ==
    /\ call[c].pc = "idle"
    /\ LET j == [NoCall EXCEPT !.op = op]
       IN  call' = [call EXCEPT ![c] =
               IF op = "exists" /\ hasSourceCache # Unknown
               THEN [j EXCEPT !.pc = "resolved", !.answer = hasSourceCache]
               ELSE AtIndex(j, 1)]
    /\ UNCHANGED <<loaders, holds, hasSourceCache, templateChanges>>

Asked(c) == loaders[call[c].index]

(* A mutant of AskExists: the first loader has the last word.              *)
AskExistsOnce(c) ==
    /\ call[c].pc = "asking" /\ call[c].op = "exists"
    /\ hasSourceCache' = (Asked(c) \in holds)
    /\ call' = [call EXCEPT ![c] = Settling(@, Asked(c) \in holds)]
    /\ UNCHANGED <<loaders, holds, templateChanges>>

(* exists: the answer of each loader is cached at once, a negative one too.*)
AskExists(c) ==
    /\ call[c].pc = "asking" /\ call[c].op = "exists"
    /\ hasSourceCache' = (Asked(c) \in holds)
    /\ call' = [call EXCEPT ![c] = IF Asked(c) \in holds
                                   THEN Settling(@, TRUE)
                                   ELSE AtIndex(@, @.index + 1)]
    /\ UNCHANGED <<loaders, holds, templateChanges>>

(* The answer of the whole search is cached: null if it is negative.       *)
Settle(c) ==
    /\ call[c].pc = "settling"
    /\ hasSourceCache' = call[c].answer
    /\ call' = [call EXCEPT ![c].pc = "resolved"]
    /\ UNCHANGED <<loaders, holds, templateChanges>>

(* The other operations: does a loader have the template?                  *)
AskGet(c) ==
    /\ call[c].pc = "asking" /\ call[c].op = "get"
    /\ call' = [call EXCEPT ![c] = IF Asked(c) \in holds
                                   THEN [@ EXCEPT !.pc = "getting"]
                                   ELSE AtIndex(@, @.index + 1)]
    /\ UNCHANGED <<loaders, holds, hasSourceCache, templateChanges>>

(* If it does it is asked for it; it rejects if it no longer has it.       *)
Get(c) ==
    /\ call[c].pc = "getting"
    /\ call' = [call EXCEPT ![c] = IF Asked(c) \in holds
                                   THEN Resolved(@, Asked(c))
                                   ELSE AtIndex(@, @.index + 1)]
    /\ UNCHANGED <<loaders, holds, hasSourceCache, templateChanges>>

(* resolve goes on to the next loader when one rejects, but not when one   *)
(* resolves with null, as the filesystem loader does; an array loader      *)
(* resolves any name.                                                      *)
AskResolve(c) ==
    /\ call[c].pc = "asking" /\ call[c].op = "resolve"
    /\ call' = [call EXCEPT ![c] =
           IF Asked(c) \in holds \/ Kind[Asked(c)] = "array"
           THEN Resolved(@, Asked(c))
           ELSE IF Kind[Asked(c)] = "other" THEN AtIndex(@, @.index + 1)
           ELSE Rejected(@)]
    /\ UNCHANGED <<loaders, holds, hasSourceCache, templateChanges>>

(* The answer has been used: the call may serve again.                     *)
Forget(c) ==
    /\ call[c].pc \in {"resolved", "rejected"}
    /\ call' = [call EXCEPT ![c] = NoCall]
    /\ UNCHANGED <<loaders, holds, hasSourceCache, templateChanges>>

-----------------------------------------------------------------------------
(* The changes. *)

CanChange == Quiet => \A c \in Calls : ~ InFlight(c)

(* A mutant of AddLoader: the cache is kept.                               *)
AddLoaderKeepingCache(l) ==
    /\ CanChange
    /\ \A i \in DOMAIN loaders : loaders[i] # l
    /\ loaders' = Append(loaders, l)
    /\ UNCHANGED <<hasSourceCache, holds, call, templateChanges>>

AddLoader(l) ==
    /\ CanChange
    /\ \A i \in DOMAIN loaders : loaders[i] # l
    /\ loaders' = Append(loaders, l)
    /\ hasSourceCache' = Unknown
    /\ UNCHANGED <<holds, call, templateChanges>>

(* A loader gets or loses the template: setTemplate, a file.               *)
ChangeTemplate(l) ==
    /\ CanChange
    /\ templateChanges < MaxTemplateChanges
    /\ templateChanges' = templateChanges + 1
    /\ holds' = IF l \in holds THEN holds \ {l} ELSE holds \cup {l}
    /\ UNCHANGED <<loaders, hasSourceCache, call>>

Next ==
    \/ \E c \in Calls :
          \/ \E op \in Operations : Begin(c, op)
          \/ AskExists(c) \/ Settle(c) \/ AskGet(c) \/ Get(c) \/ AskResolve(c)
          \/ Forget(c)
    \/ \E l \in Loaders : AddLoader(l) \/ ChangeTemplate(l)

Spec == Init /\ [][Next]_vars

-----------------------------------------------------------------------------

(* Type invariant; a call that asks a loader asks one of the chain.        *)
TypeOK ==
    /\ loaders \in Seq(Loaders) /\ holds \subseteq Loaders
    /\ hasSourceCache \in Answers \cup {Unknown}
    /\ call \in [Calls -> Call]
    /\ templateChanges \in 0 .. MaxTemplateChanges
    /\ \A c \in Calls : call[c].pc \in {"asking", "getting"} =>
                            call[c].index \in DOMAIN loaders

Ends(c) == InFlight(c) /\ call'[c].pc \in {"resolved", "rejected"}

(* "Twing will try each loader in turn and it will return as soon as the   *)
(* template is found" (docs/api.md): whatever the other calls do meanwhile,*)
(* a search ends with the first loader that has the template, and rejects  *)
(* only if none has.                                                       *)
GetTriesInTurn ==
    [][ \A c \in Calls : Ends(c) /\ call[c].op = "get" =>
            /\ FirstWith(call'[c].loader)
            /\ call'[c].pc = "rejected" <=> call'[c].loader = None ]_vars

(* Once the calls of exists are over, what they have left in the cache is  *)
(* the answer: the negative one that each loader before the right one adds *)
(* for a while is never what remains.                                      *)
CacheSettles ==
    /\ templateChanges = 0
    /\ \A c \in Calls : InFlight(c) => call[c].op # "exists"
    /\ hasSourceCache # Unknown
    => (hasSourceCache = TRUE <=> ~ FirstWith(None))

(* A call of exists that has walked the chain answers whether the chain    *)
(* has the template: "@returns {Promise<boolean>} If the template source   *)
(* code is handled by this loader or not" (loader-interface.ts:49).  What  *)
(* it answers from the cache is the matter of CacheSettles.                *)
ExistsIsRight ==
    [][ \A c \in Calls : call[c].pc = "settling" /\ call'[c].pc = "resolved" =>
            (call'[c].answer = TRUE <=> ~ FirstWith(None)) ]_vars

=============================================================================
