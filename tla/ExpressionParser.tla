-------------------------- MODULE ExpressionParser --------------------------
(***************************************************************************)
(* The expressions of TwingParser: precedence climbing over the tokens of  *)
(* a tag.                                                                  *)
(*                                                                         *)
(* A token is the string it is written with; a node is a tuple that begins *)
(* with its type.  A method of the parser reads the tokens s from position *)
(* i on and gives a node and the position after it; the position is 0 if   *)
(* it throws.                                                              *)
(***************************************************************************)
EXTENDS Integers, Sequences, FiniteSets, SequencesExt

\* What the tokens are.
Numbers == {"1"}
Strings == {"'s'"}
Words == {"a", "b", "f", "m", "g", "t", "slice", "same", "as", "true", "null", "parent", "block", "attribute"}

\* What the extensions and the imports of the template name.
KnownFunctions == {"f", "constant", "cycle", "date", "dump", "include", "max", "min", "random", "range", "source",
                   "template_from_string"}
Imported == {"m"}
Templates == {"b"}
KnownFilters == {"g", "slice"}
KnownTests ==
  {"t", "constant", "divisible by", "defined", "empty", "even", "iterable", "none", "null", "odd", "same as"}

UnaryOperators == [o \in {"not", "-", "+"} |-> IF o = "not" THEN 50 ELSE 500]

BinaryOperators ==
  LET at(p, os) == [o \in os |-> p]
  IN  at(10, {"or"}) @@ at(15, {"and"}) @@ at(16, {"b-or"}) @@ at(17, {"b-xor"}) @@ at(18, {"b-and"})
      @@ at(20, {"==", "!=", "<", "<=", ">", ">=", "not in", "in", "matches", "starts with", "ends with"})
      @@ at(25, {".."}) @@ at(30, {"+", "-"}) @@ at(40, {"~"}) @@ at(60, {"*", "/", "//", "%"})
      @@ at(100, {"is", "is not"}) @@ at(200, {"**"}) @@ at(300, {"??"})

RightAssociative == {"**", "??"}

\* Operators that are a name, and those that begin with one.
Wordlike == {"or", "and", "not", "in", "matches", "is"}
WordFirst == Wordlike \cup {"is not", "not in", "starts with", "ends with", "b-or", "b-xor", "b-and"}

Operators == DOMAIN UnaryOperators \cup DOMAIN BinaryOperators \cup {"="}

-----------------------------------------------------------------------------
(* The cursor *)

\* The value of a conditional without an else.
Nothing == <<"constant", "''">>

Throws == [node |-> << >>, at |-> 0]
Threw(r) == r.at = 0
At(s, i) == IF i \in DOMAIN s THEN s[i] ELSE "end of template"
Node(n, i) == [node |-> n, at |-> i]

\* What follows r, if r has not thrown.
Then(r, next) == IF Threw(r) THEN Throws ELSE next

\* expect: r, if the token after it is this one.
Expect(s, r, token) == IF ~Threw(r) /\ At(s, r.at) = token THEN [r EXCEPT !.at = @ + 1] ELSE Throws

RECURSIVE parseExpression(_, _, _, _), Climb(_, _, _), getPrimary(_, _), parsePrimaryExpression(_, _),
  parseStringNodes(_, _, _, _), parseArguments(_, _, _, _), ArgumentsFrom(_, _, _, _, _),
  parseElements(_, _, _), parsePairs(_, _, _), parsePostfixExpression(_, _), parseConditionalExpression(_, _),
  parseFilterExpressionRaw(_, _, _), parseNames(_, _, _)

-----------------------------------------------------------------------------

\* What parseArrow looks ahead for: a parenthesis around tokens separated by
\* commas, whatever they are, and an arrow.
LongArrow(s, i) ==
  /\ At(s, i) = "("
  /\ \E n \in 0..Len(s) : /\ \A k \in 1..n : At(s, i + 2 * k) = ","
                          /\ At(s, i + 2 * n + 2) = ")" /\ At(s, i + 2 * n + 3) = "=>"

parseExpression(s, i, precedence, allowArrow) ==
  LET short == At(s, i + 1) = "=>"
      names == IF short THEN IF At(s, i) \in Words THEN Node(<<s[i]>>, i + 1) ELSE Throws
               ELSE Expect(s, parseNames(s, i + 1, << >>), ")")
      arrow == allowArrow /\ (short \/ LongArrow(s, i))
      parameters == Expect(s, names, "=>")
      body == Then(parameters, parseExpression(s, parameters.at, 0, FALSE))
      r == Climb(s, getPrimary(s, i), precedence)
  IN  IF arrow THEN Then(body, Node(<<"arrow", parameters.node, body.node>>, body.at))
      ELSE IF precedence = 0 THEN parseConditionalExpression(s, r) ELSE r

\* The names of an arrow function.
parseNames(s, i, names) ==
  IF At(s, i) \notin Words THEN Throws
  ELSE IF At(s, i + 1) = "," THEN parseNames(s, i + 2, Append(names, s[i]))
  ELSE Node(Append(names, s[i]), i + 1)

\* getTest: a name, or else two names.
getTest(s, i) ==
  IF At(s, i) \in KnownTests THEN Node(s[i], i + 1)
  ELSE IF At(s, i) = "same" /\ At(s, i + 1) = "as" THEN Node("same as", i + 2)
  ELSE Throws

parseTestExpression(s, r, negated) ==
  LET test == getTest(s, r.at + 1)
      arguments == IF At(s, test.at) = "(" THEN parseArguments(s, test.at, TRUE, FALSE)
                   ELSE Node(<< >>, test.at)
      tested == IF test.node = "defined" /\ r.node[1] = "name" /\ r.node[2] \in Imported
                THEN <<"macro", r.node[2], << >> >> ELSE r.node
      node == <<"test", test.node, tested, arguments.node>>
  IN  Then(test, Then(arguments, Node(IF negated THEN <<"unary", "not", node>> ELSE node, arguments.at)))

\* A mutant of Climb: every operator associates to the left.
ClimbLeft(s, r, precedence) ==
  LET o == At(s, r.at)
      right == parseExpression(s, r.at + 1, BinaryOperators[o] + 1, FALSE)
  IN  IF Threw(r) \/ o \notin DOMAIN BinaryOperators THEN r
      ELSE IF BinaryOperators[o] < precedence THEN r
      ELSE IF o \in {"is", "is not"} THEN Climb(s, parseTestExpression(s, r, o = "is not"), precedence)
      ELSE Then(right, Climb(s, Node(<<"binary", o, r.node, right.node>>, right.at), precedence))

\* The loop over the operators that bind at least as tight as precedence.
Climb(s, r, precedence) ==
  LET o == At(s, r.at)
      right == parseExpression(s, r.at + 1, BinaryOperators[o] + (IF o \in RightAssociative THEN 0 ELSE 1), FALSE)
  IN  IF Threw(r) \/ o \notin DOMAIN BinaryOperators THEN r
      ELSE IF BinaryOperators[o] < precedence THEN r
      ELSE IF o \in {"is", "is not"} THEN Climb(s, parseTestExpression(s, r, o = "is not"), precedence)
      ELSE Then(right, Climb(s, Node(<<"binary", o, r.node, right.node>>, right.at), precedence))

getPrimary(s, i) ==
  LET operand == parseExpression(s, i + 1, UnaryOperators[s[i]], FALSE)
  IN  IF At(s, i) \in DOMAIN UnaryOperators
      THEN Then(operand, parsePostfixExpression(s, Node(<<"unary", s[i], operand.node>>, operand.at)))
      ELSE IF At(s, i) = "("
      THEN parsePostfixExpression(s, Expect(s, parseExpression(s, i + 1, 0, FALSE), ")"))
      ELSE parsePrimaryExpression(s, i)

\* The nodes of arguments, without the names.
Values(arguments) == [k \in DOMAIN arguments |-> arguments[k][2]]

\* The functions of the language itself, imported macros and those of extensions.
getFunctionNode(s, i) ==
  LET name == s[i]
      named == name \notin {"parent", "block", "attribute"} \cup Imported
      least == IF name = "block" THEN 1 ELSE IF name = "attribute" THEN 2 ELSE 0
      arguments == parseArguments(s, i + 1, named, FALSE)
  IN  IF Threw(arguments) \/ Len(arguments.node) < least \/ (named /\ name \notin KnownFunctions) THEN Throws
      ELSE IF name = "attribute"
      THEN Node(<<"attribute", Values(arguments.node)>>, arguments.at)
      ELSE Node(<<IF name \in Imported THEN "macro" ELSE "function", name, arguments.node>>, arguments.at)

parsePrimaryExpression(s, i) ==
  LET token == At(s, i)
      operand == parsePrimaryExpression(s, i + 1)
      elements == Expect(s, parseElements(s, i + 1, << >>), "]")
      pairs == Expect(s, parsePairs(s, i + 1, << >>), "}")
      r == IF token \in {"true", "null"} \cup Numbers THEN Node(<<"constant", token>>, i + 1)
           ELSE IF token \in Words /\ At(s, i + 1) = "(" THEN getFunctionNode(s, i)
           ELSE IF token \in Words \cup Wordlike THEN Node(<<"name", token>>, i + 1)
           ELSE IF token \in Strings \cup {"#{"} THEN parseStringNodes(s, i, << >>, TRUE)
           ELSE IF token \in DOMAIN UnaryOperators THEN Then(operand, Node(<<"unary", token, operand.node>>, operand.at))
           ELSE IF token = "[" THEN Then(elements, Node(<<"array", elements.node>>, elements.at))
           ELSE IF token = "{" THEN Then(pairs, Node(<<"hash", pairs.node>>, pairs.at))
           ELSE Throws
  IN  parsePostfixExpression(s, r)

\* parseStringExpression: strings and interpolations in turn, concatenated.
parseStringNodes(s, i, left, nextCanBeString) ==
  LET concat(n) == IF left = << >> THEN n ELSE <<"binary", "~", left, n>>
      part == Expect(s, parseExpression(s, i + 1, 0, FALSE), "}#")
  IN  IF nextCanBeString /\ At(s, i) \in Strings
      THEN parseStringNodes(s, i + 1, concat(<<"constant", s[i]>>), FALSE)
      ELSE IF At(s, i) = "#{"
      THEN Then(part, parseStringNodes(s, part.at, concat(part.node), TRUE))
      ELSE Node(left, i)

\* parseArrayExpression, up to the bracket; a comma may be trailing.
parseElements(s, i, elements) ==
  LET from == IF elements = << >> THEN i ELSE i + 1
      element == parseExpression(s, from, 0, FALSE)
  IN  IF At(s, i) = "]" THEN Node(elements, i)
      ELSE IF elements # << >> /\ At(s, i) # "," THEN Throws
      ELSE IF elements # << >> /\ At(s, from) = "]" THEN Node(elements, from)
      ELSE Then(element, parseElements(s, element.at, Append(elements, element.node)))

\* parseHashExpression, up to the brace.
parsePairs(s, i, pairs) ==
  LET from == IF pairs = << >> THEN i ELSE i + 1
      key == IF At(s, from) \in Strings \cup Words \cup Numbers THEN Node(<<"constant", s[from]>>, from + 1)
             ELSE IF At(s, from) = "(" THEN parseExpression(s, from, 0, FALSE)
             ELSE Throws
      colon == Expect(s, key, ":")
      value == Then(colon, parseExpression(s, colon.at, 0, FALSE))
  IN  IF At(s, i) = "}" THEN Node(pairs, i)
      ELSE IF pairs # << >> /\ At(s, i) # "," THEN Throws
      ELSE IF pairs # << >> /\ At(s, from) = "}" THEN Node(pairs, from)
      ELSE Then(value, parsePairs(s, value.at, Append(pairs, <<key.node, value.node>>)))

\* An attribute, a method of an imported template, a key or a slice.
parseSubscriptExpression(s, r) ==
  LET name == At(s, r.at + 1)
      method == At(s, r.at + 2) = "("
      arguments == IF method THEN parseArguments(s, r.at + 2, FALSE, FALSE) ELSE Node(<< >>, r.at + 2)
      open == At(s, r.at + 1) = ":"
      key == IF open THEN Node(<<"constant", "0">>, r.at + 1) ELSE parseExpression(s, r.at + 1, 0, FALSE)
      slice == ~Threw(key) /\ At(s, key.at) = ":"
      length == IF At(s, key.at + 1) = "]" THEN Node(<<"constant", "null">>, key.at + 1)
                ELSE parseExpression(s, key.at + 1, 0, FALSE)
      end == Expect(s, IF slice THEN length ELSE key, "]")
  IN  IF At(s, r.at) = "."
      THEN IF name \notin Words \cup Numbers \cup WordFirst THEN Throws
           ELSE Then(arguments, Node(
                  IF r.node[1] = "name" /\ r.node[2] \in Templates THEN <<"method", r.node, name, arguments.node>>
                  ELSE <<"get", r.node, <<"constant", name>>, arguments.node, IF method THEN "method" ELSE "any">>,
                  arguments.at))
      ELSE Then(end, Node(
             IF slice THEN <<"filter", "slice", r.node, << <<"", key.node>>, <<"", end.node>> >> >>
             ELSE <<"get", r.node, end.node, << >>, "array">>,
             end.at))

parsePostfixExpression(s, r) ==
  IF Threw(r) THEN Throws
  ELSE CASE At(s, r.at) \in {".", "["} -> parsePostfixExpression(s, parseSubscriptExpression(s, r))
         [] At(s, r.at) = "|" -> parsePostfixExpression(s, parseFilterExpressionRaw(s, r.at + 1, r.node))
         [] OTHER -> r

parseFilterExpressionRaw(s, i, node) ==
  LET arguments == IF At(s, i + 1) = "(" THEN parseArguments(s, i + 1, TRUE, TRUE) ELSE Node(<< >>, i + 1)
      r == Node(<<"filter", At(s, i), node, arguments.node>>, arguments.at)
  IN  IF At(s, i) \notin KnownFilters \/ Threw(arguments) THEN Throws
      ELSE IF At(s, r.at) = "|" THEN parseFilterExpressionRaw(s, r.at + 1, r.node) ELSE r

\* a ? b : c, a ?: c and a ? b
parseConditionalExpression(s, r) ==
  IF Threw(r) \/ At(s, r.at) # "?" THEN r
  ELSE LET elvis == At(s, r.at + 1) = ":"
           yes == IF elvis THEN Node(r.node, r.at + 1) ELSE parseExpression(s, r.at + 1, 0, FALSE)
           no == IF At(s, yes.at) = ":" THEN parseExpression(s, yes.at + 1, 0, FALSE)
                 ELSE Node(Nothing, yes.at)
       IN  IF Threw(yes) \/ Threw(no) THEN Throws
           ELSE parseConditionalExpression(s, Node(<<"conditional", r.node, yes.node, no.node>>, no.at))

\* One argument of a call: its name, or "", and its value.
parseArgument(s, i, named, allowArrow) ==
  LET first == parseExpression(s, i, 0, allowArrow)
      value == parseExpression(s, first.at + 1, 0, allowArrow)
  IN  IF ~Threw(first) /\ named /\ At(s, first.at) = "="
      THEN IF first.node[1] = "name" THEN Then(value, Node(<<first.node[2], value.node>>, value.at)) ELSE Throws
      ELSE Then(first, Node(<<"", first.node>>, first.at))

\* A named argument that comes again takes the place of the first.
Given(arguments, argument) ==
  LET same == {k \in DOMAIN arguments : argument[1] # "" /\ arguments[k][1] = argument[1]}
  IN  IF same = {} THEN Append(arguments, argument)
      ELSE [k \in DOMAIN arguments |-> IF k \in same THEN argument ELSE arguments[k]]

\* The rest of the arguments of a call, of which the first are parsed.
ArgumentsFrom(s, i, parsed, named, allowArrow) ==
  LET argument == parseArgument(s, IF parsed = << >> THEN i ELSE i + 1, named, allowArrow)
  IN  IF At(s, i) = ")" THEN Node(parsed, i + 1)
      ELSE IF parsed # << >> /\ At(s, i) # "," THEN Throws
      ELSE Then(argument, ArgumentsFrom(s, argument.at, Given(parsed, argument.node), named, allowArrow))

parseArguments(s, i, named, allowArrow) ==
  IF At(s, i) # "(" THEN Throws ELSE ArgumentsFrom(s, i + 1, << >>, named, allowArrow)

-----------------------------------------------------------------------------
(* The text of a node: the reference the parser is compared with *)

Joined(texts, separator) ==
  FoldLeft(LAMBDA x, y : IF x = << >> THEN y ELSE x \o <<separator>> \o y, << >>, texts)

\* How tight the outermost operator of a node binds.
Tightness(n) ==
  CASE n[1] = "conditional" -> 0
    [] n[1] = "unary" -> UnaryOperators[n[2]]
    [] n[1] = "binary" -> BinaryOperators[n[2]]
    [] n[1] = "test" -> BinaryOperators["is"]
    [] OTHER -> 1000

RECURSIVE TextOf(_, _)
\* The tokens of a node where it must bind as tight as precedence: it is
\* parenthesised if it does not. An operand on the left of an operator that
\* associates to the right must bind tighter than it, and so on the other side.
TextOf(n, precedence) ==
  LET list(ns) == Joined([k \in DOMAIN ns |-> TextOf(ns[k], 0)], ",")
      call(arguments) ==
        Joined([k \in DOMAIN arguments |->
                 IF arguments[k][1] = "" THEN TextOf(arguments[k][2], 0)
                 ELSE <<arguments[k][1], "=">> \o TextOf(arguments[k][2], 0)], ",")
      optional(arguments) == IF arguments = << >> THEN << >> ELSE <<"(">> \o call(arguments) \o <<")">>
      tight(m) == TextOf(m, 1000)
      bound(m) == IF m[2] \in {"0", "null"} THEN << >> ELSE TextOf(m, 0)
      side(o, right) == BinaryOperators[o] + IF right = (o \in RightAssociative) THEN 0 ELSE 1
      text ==
        CASE n[1] \in {"name", "constant"} -> <<n[2]>>
          [] n[1] = "unary" -> <<n[2]>> \o TextOf(n[3], UnaryOperators[n[2]])
          [] n[1] = "binary" -> TextOf(n[3], side(n[2], FALSE)) \o <<n[2]>> \o TextOf(n[4], side(n[2], TRUE))
          [] n[1] = "conditional" -> TextOf(n[2], 1) \o <<"?">> \o TextOf(n[3], 0)
                                     \o IF n[4] = Nothing THEN << >> ELSE <<":">> \o TextOf(n[4], 0)
          [] n[1] = "test" -> TextOf(n[3], 100) \o <<"is", n[2]>> \o optional(n[4])
          [] n[1] = "filter" /\ n[2] = "slice" -> tight(n[3]) \o <<"[">> \o bound(n[4][1][2]) \o <<":">>
                                                   \o bound(n[4][2][2]) \o <<"]">>
          [] n[1] = "filter" /\ n[2] # "slice" -> tight(n[3]) \o <<"|", n[2]>> \o optional(n[4])
          [] n[1] = "get" -> IF n[5] = "array" THEN tight(n[2]) \o <<"[">> \o TextOf(n[3], 0) \o <<"]">>
                             ELSE IF n[5] = "any" THEN tight(n[2]) \o <<".">> \o TextOf(n[3], 0)
                             ELSE tight(n[2]) \o <<".">> \o TextOf(n[3], 0) \o <<"(">> \o call(n[4]) \o <<")">>
          [] n[1] = "method" -> tight(n[2]) \o <<".", n[3]>> \o optional(n[4])
          [] n[1] \in {"function", "macro"} -> <<n[2], "(">> \o call(n[3]) \o <<")">>
          [] n[1] = "attribute" -> <<"attribute", "(">> \o list(n[2]) \o <<")">>
          [] n[1] = "array" -> <<"[">> \o list(n[2]) \o <<"]">>
          [] n[1] = "hash" -> <<"{">> \o Joined([k \in DOMAIN n[2] |->
               (IF n[2][k][1][1] = "constant" THEN TextOf(n[2][k][1], 0)
                ELSE <<"(">> \o TextOf(n[2][k][1], 0) \o <<")">>) \o <<":">> \o TextOf(n[2][k][2], 0)], ",") \o <<"}">>
          [] n[1] = "arrow" -> <<"(">> \o Joined([k \in DOMAIN n[2] |-> <<n[2][k]>>], ",") \o <<")", "=>">>
                               \o TextOf(n[3], 0)
  IN  IF Tightness(n) < precedence THEN <<"(">> \o text \o <<")">> ELSE text
=============================================================================
