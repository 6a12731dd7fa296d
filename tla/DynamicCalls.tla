---------------------------- MODULE DynamicCalls ----------------------------
(***************************************************************************)
(* How a call of a filter, a function or a test finds its wrapper, and     *)
(* what it passes for its name (src/lib/extension-set.ts,                  *)
(* src/lib/node/expression).                                               *)
(*                                                                         *)
(* A name is a sequence of letters, that of a dynamic filter is a pattern  *)
(* with "*".  What a pattern has matched is kept in its wrapper, which all *)
(* calls share: a call that is compiled looks its wrapper up and takes its *)
(* arguments before its operands are compiled, which are calls again.      *)
(***************************************************************************)
EXTENDS Integers, Sequences, FiniteSets, LastCall

CONSTANTS Registers, Called    \* the names of filters that are registered, and that are called

Star == "*"
IsDynamic(name) == \E k \in DOMAIN name : name[k] = Star

\* The regular expression, letter by letter from its end: by where in a name its rest
\* begins, what (.*?) takes for each "*" that is left, if anything; as little as possible.
AtEnd(name) == [j \in 1 .. Len(name) + 1 |-> IF j > Len(name) THEN {<< >>} ELSE {}]

MatchLetter(letter, name, rest) ==
  [j \in 1 .. Len(name) + 1 |->
     LET fits == {k \in j .. Len(name) + 1 : rest[k] # {}}
     IN  IF letter = Star
         THEN UNION {{<<SubSeq(name, j, k - 1)>> \o m : m \in rest[k]} : k \in {k \in fits : \A l \in fits : k <= l}}
         ELSE IF j <= Len(name) /\ name[j] = letter THEN rest[j + 1] ELSE {}]

Match(pattern, name) ==
  LET matched[n \in 0 .. Len(pattern)] ==
        IF n = 0 THEN AtEnd(name) ELSE MatchLetter(pattern[Len(pattern) + 1 - n], name, matched[n - 1])
  IN  matched[Len(pattern)][1]

\* getFilter, getFunction and getTest: the number of a wrapper, and what its pattern has
\* matched if it has one; 0 if there is none.
Foremost(S) == CHOOSE k \in S : \A l \in S : k <= l

getCallable(registered, name) ==
  LET exact == {k \in DOMAIN registered : registered[k] = name}
      fits == {k \in DOMAIN registered : IsDynamic(registered[k]) /\ Match(registered[k], name) # {}}
  IN  IF exact # {} THEN [wrapper |-> Foremost(exact), matches |-> {}]
      ELSE IF fits # {} THEN [wrapper |-> Foremost(fits), matches |-> Match(registered[Foremost(fits)], name)]
      ELSE [wrapper |-> 0, matches |-> {}]

\* Names of calls have no "*", and the parser refuses those that are not registered.
ASSUME DynamicCallsAssumption ==
  /\ \A name \in Called : name \in Seq({name[k] : k \in DOMAIN name}) /\ ~IsDynamic(name)
  /\ \A registered \in Registers :
       /\ registered \in Seq({registered[k] : k \in DOMAIN registered})
       /\ \A k \in DOMAIN registered : registered[k] \in Seq({registered[k][j] : j \in DOMAIN registered[k]})
       /\ \A name \in Called : getCallable(registered, name).wrapper # 0

\* A mutant of Held: a wrapper that has been found before keeps what it holds.
HeldOnce(c, found) ==
  [k \in DOMAIN c.registered |->
     IF k = found.wrapper /\ found.matches # {} /\ c.held[k] = << >> THEN CHOOSE m \in found.matches : TRUE ELSE c.held[k]]

\* What the wrappers hold once one has been found: it is given what its pattern has matched.
Held(c, found) ==
  [k \in DOMAIN c.registered |->
     IF k = found.wrapper /\ found.matches # {} THEN CHOOSE m \in found.matches : TRUE ELSE c.held[k]]

CompileCall(c, name) ==
  LET found == getCallable(c.registered, name)
      held == Held(c, found)
  IN  [of |-> "compiled", registered |-> c.registered, held |-> held,
       name |-> name, wrapper |-> found.wrapper, arguments |-> held[found.wrapper]]

Registering ==
  \E registered \in Registers :
    call' = [of |-> "registered", registered |-> registered, held |-> [k \in DOMAIN registered |-> << >>]]

\* The parser asks for a wrapper, or a template that runs does, between two calls.
Asking ==
  /\ call.of \in {"registered", "compiled"}
  /\ \E name \in Called : call' = [call EXCEPT !.held = Held(call, getCallable(call.registered, name))]

Compiling ==
  /\ call.of \in {"registered", "compiled"}
  /\ \E name \in Called : call' = CompileCall(call, name)

\* Calls are compiled one after the other, among whatever else happens.
CompilingSpec ==
  /\ call.of \notin {"registered", "compiled"}
  /\ [][Registering \/ Asking \/ Compiling \/ call'.of \notin {"registered", "compiled"}]_call

-----------------------------------------------------------------------------

\* A pattern whose every "*" is replaced by an argument, letter by letter from its end.
Stars(pattern, n) == Cardinality({j \in 1 .. n : pattern[j] = Star})
Put(pattern, arguments, k) == IF pattern[k] = Star THEN arguments[Stars(pattern, k)] ELSE <<pattern[k]>>
Filled(pattern, arguments) ==
  LET filled[n \in 0 .. Len(pattern)] ==
        IF n = 0 THEN << >> ELSE Put(pattern, arguments, Len(pattern) + 1 - n) \o filled[n - 1]
  IN  filled[Len(pattern)]

\* A call of a dynamic filter passes what its own name has matched, one argument for
\* each "*", whatever other names the same filter was asked for before; a filter
\* that is registered under the exact name comes first, whatever the order, and passes
\* nothing (TwingExtensionSet.getFilter, TwingNodeExpressionFilter.compile).
CallsKeepArguments ==
  call.of = "compiled" =>
    LET used == call.registered[call.wrapper]
    IN  IF \E k \in DOMAIN call.registered : call.registered[k] = call.name
        THEN used = call.name /\ call.arguments = << >>
        ELSE /\ IsDynamic(used)
             /\ Len(call.arguments) = Stars(used, Len(used))
             /\ Filled(used, call.arguments) = call.name
=============================================================================
