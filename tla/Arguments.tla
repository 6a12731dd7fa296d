----------------------------- MODULE Arguments ------------------------------
(***************************************************************************)
(* TwingNodeExpressionCall.getArguments: what a call of a filter, function *)
(* or test gives is bound to the parameters that are accepted.             *)
(*                                                                         *)
(* What is given is a sequence of <<name, value>>, where the name of a     *)
(* positional argument is Positional.  What is accepted has a name and may *)
(* have a default.                                                         *)
(***************************************************************************)
EXTENDS Integers, Sequences, LastCall

CONSTANTS
  Calls,          \* what calls are given
  Signatures,     \* what is accepted
  normalizeName   \* the snake case of a name, in lower case: a function

Positional == "(positional)"
Rejected == << <<"rejected">> >>

\* The nodes of the arguments are a map of places and names, where no name is twice
\* until it is normalised, and no two parameters of a callable have the same name.
ASSUME ArgumentsAssumption ==
  /\ \A name \in DOMAIN normalizeName : normalizeName[name] # Positional
  /\ \A given \in Calls :
       /\ given \in Seq({given[k] : k \in DOMAIN given})
       /\ \A j, k \in DOMAIN given : given[j][1] = given[k][1] /\ given[j][1] # Positional => j = k
       /\ \A k \in DOMAIN given :
            /\ given[k][1] = Positional \/ given[k][1] \in DOMAIN normalizeName
            /\ given[k][2] # Rejected[1] /\ given[k][2][1] # "rest"
  /\ \A accepted \in Signatures :
       /\ accepted \in Seq({accepted[k] : k \in DOMAIN accepted})
       /\ \A k \in DOMAIN accepted : accepted[k].name \in DOMAIN normalizeName /\ accepted[k].optional \in BOOLEAN
       /\ \A j, k \in DOMAIN accepted : normalizeName[accepted[j].name] = normalizeName[accepted[k].name] => j = k

-----------------------------------------------------------------------------

\* Both, by their normalised names.
Parameters(given) ==
  [k \in DOMAIN given |->
     <<IF given[k][1] = Positional THEN Positional ELSE normalizeName[given[k][1]], given[k][2]>>]

CallableParameters(accepted) ==
  [k \in DOMAIN accepted |-> [name |-> normalizeName[accepted[k].name], optional |-> accepted[k].optional]]

\* parameters.set: an argument is lost if a later one has the same normalised name.
Overwritten(given, k) ==
  given[k][1] # Positional /\ \E j \in DOMAIN given : k < j /\ given[j][1] = given[k][1]

Survivors(given) == {k \in DOMAIN given : ~Overwritten(given, k)}

\* The arguments that are left, by the name and at the place of a parameter.
ByName(b, parameter) == {k \in b.left : b.given[k][1] = parameter.name}
ByPlace(b) == {k \in b.left : b.given[k][1] = Positional /\ k = b.pos}

\* An argument is passed, after the defaults of the parameters before it.
Pass(b, k) ==
  [b EXCEPT !.arguments = Append(@ \o b.optional, b.given[k][2]), !.optional = << >>, !.left = @ \ {k}]

\* A mutant of Bind: the defaults before a named argument are left out.
BindNoDefaults(b, parameter) ==
  IF b.rejected THEN b
  ELSE IF ByName(b, parameter) # {}
       THEN LET k == CHOOSE k \in ByName(b, parameter) : TRUE
            IN  [b EXCEPT !.arguments = Append(@, b.given[k][2]), !.left = @ \ {k}, !.rejected = ByPlace(b) # {}]
  ELSE IF ByPlace(b) # {} THEN [Pass(b, b.pos) EXCEPT !.pos = @ + 1]
  ELSE IF parameter.optional THEN b
  ELSE [b EXCEPT !.rejected = TRUE]

\* One accepted parameter. Defaults are only passed if something follows.
Bind(b, parameter) ==
  IF b.rejected THEN b
  ELSE IF ByName(b, parameter) # {}
       THEN [Pass(b, CHOOSE k \in ByName(b, parameter) : TRUE) EXCEPT !.rejected = ByPlace(b) # {}]
  ELSE IF ByPlace(b) # {} THEN [Pass(b, b.pos) EXCEPT !.pos = @ + 1]
  ELSE IF parameter.optional THEN [b EXCEPT !.optional = Append(@, <<"default", parameter.name>>)]
  ELSE [b EXCEPT !.rejected = TRUE]

Unbound(given) ==
  [given |-> given, arguments |-> << >>, optional |-> << >>, left |-> Survivors(given), pos |-> 1, rejected |-> FALSE]

\* All of them, in turn.
Bound(given, accepted) ==
  LET bound[n \in 0 .. Len(accepted)] == IF n = 0 THEN Unbound(given) ELSE Bind(bound[n - 1], accepted[n])
  IN  bound[Len(accepted)]

Misplaced(given) == \E j, k \in DOMAIN given : j < k /\ given[j][1] # Positional /\ given[k][1] = Positional
HasNamed(given) == \E k \in DOMAIN given : given[k][1] # Positional

\* What is left goes to a variadic callable as one argument, here the places of
\* what it consists of.  hasCallable: the filter, function or test has a callable.
getArguments(given, accepted, isVariadic, hasCallable) ==
  LET parameters == Parameters(given)
      b == Bound(parameters, CallableParameters(accepted))
  IN  IF Misplaced(parameters) THEN Rejected
      ELSE IF ~HasNamed(parameters) /\ ~isVariadic THEN [k \in DOMAIN parameters |-> parameters[k][2]]
      ELSE IF ~hasCallable \/ b.rejected \/ (b.left # {} /\ ~isVariadic) THEN Rejected
      ELSE IF b.left # {} THEN b.arguments \o b.optional \o << <<"rest", b.left>> >>
      ELSE b.arguments

Binding ==
  \E given \in Calls, accepted \in Signatures, isVariadic, hasCallable \in BOOLEAN :
    call' = [of |-> "bound", given |-> given, accepted |-> accepted,
             isVariadic |-> isVariadic, hasCallable |-> hasCallable,
             result |-> getArguments(given, accepted, isVariadic, hasCallable)]

\* Calls are bound, among whatever else happens.
BindingSpec == call.of # "bound" /\ [][Binding \/ call'.of # "bound"]_call

-----------------------------------------------------------------------------

IsPositional(given, k) == k \in DOMAIN given /\ given[k][1] = Positional
IsNamed(given, name) == \E k \in DOMAIN given : given[k][1] = name

\* What parameter k is meant to get: the last argument of its name, or the one at
\* its place, or its default.
Meant(given, accepted, k) ==
  IF IsNamed(given, accepted[k].name)
  THEN given[CHOOSE j \in Survivors(given) : given[j][1] = accepted[k].name][2]
  ELSE IF IsPositional(given, k) THEN given[k][2]
  ELSE <<"default", accepted[k].name>>

\* A parameter is given by its name and at its place, or not at all and it has no
\* default.
WrongAt(given, accepted, k) ==
  \/ IsNamed(given, accepted[k].name) /\ IsPositional(given, k)
  \/ ~IsNamed(given, accepted[k].name) /\ ~IsPositional(given, k) /\ ~accepted[k].optional

\* Something is given that no parameter takes.
Unknown(given, accepted) ==
  \/ IsPositional(given, Len(accepted) + 1)
  \/ \E k \in DOMAIN given : given[k][1] # Positional /\ \A j \in DOMAIN accepted : accepted[j].name # given[k][1]

\* A call without a name, of a callable that is not variadic, is not looked at.
WrongCall(given, accepted, isVariadic, hasCallable) ==
  \/ Misplaced(given)
  \/ /\ HasNamed(given) \/ isVariadic
     /\ \/ ~hasCallable
        \/ \E k \in DOMAIN accepted : WrongAt(given, accepted, k)
        \/ ~isVariadic /\ Unknown(given, accepted)

\* What a call compiles to gives every parameter the argument that was meant for
\* it, named or positional, or its default, in its place, and a call is rejected
\* only if it is wrong.  What is given is passed, to a parameter or with the rest of
\* a variadic callable, but for an argument whose name is once more that of a later
\* one when both are normalised: that one is lost, without an error
\* (TwingNodeExpressionCall).
ArgumentsInPlace ==
  call.of = "bound" =>
    LET given == Parameters(call.given)
        accepted == CallableParameters(call.accepted)
        result == call.result
        rest == {k \in DOMAIN given : result # << >> /\ result[Len(result)][1] = "rest" /\ k \in result[Len(result)][2]}
    IN  IF WrongCall(given, accepted, call.isVariadic, call.hasCallable) THEN result = Rejected
        ELSE /\ result # Rejected
             /\ \A k \in DOMAIN result : k <= Len(accepted) => result[k] = Meant(given, accepted, k)
             /\ \A k \in Survivors(given) : k \in rest \/ \E j \in DOMAIN result : result[j] = given[k][2]
             /\ rest \subseteq Survivors(given)
=============================================================================
