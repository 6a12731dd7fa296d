----------------------------- MODULE Algorithms -----------------------------
(***************************************************************************)
(* The pure algorithms of the library, each called once on any of its      *)
(* inputs: a call takes the inputs and what the algorithm returned.        *)
(***************************************************************************)
EXTENDS ExpressionParser, NodeVisitors, Values, Contexts, Arguments, DynamicCalls

CONSTANTS
  Trees,        \* the expressions that are written and parsed
  Tokens, MaxTokens,   \* the tokens of the texts that are parsed, and how many
  Modules,      \* the templates the node visitors traverse
  Operands,     \* the values that are compared
  Objects,      \* what attributes are asked of
  Programs      \* the statements of templates

ASSUME AlgorithmsAssumption == MaxTokens \in Nat

Ready(algorithm) == [of |-> "nothing", next |-> algorithm]
Init ==
  call \in {Ready(a) : a \in {"printed", "parsed", "traversed", "compared", "sliced", "batched", "arranged",
                             "asked", "ran", "bound", "registered"}}

Printed(t) == [of |-> "printed", tree |-> t, text |-> TextOf(t, 0),
               result |-> parseExpression(TextOf(t, 0), 1, 0, FALSE)]

Parsed(s) == [of |-> "parsed", text |-> s, result |-> parseExpression(s, 1, 0, FALSE)]

Traversed(m, sandboxed) ==
  LET r == Prepared(m, sandboxed)
  IN  [of |-> "traversed", module |-> m, sandboxed |-> sandboxed, before |-> PrintsOf(m),
       prepared |-> r.node, after |-> PrintsOf(r.node), withLoop |-> Visit("optimizer", r.node, r.s).s.withLoop]

Compared(a, b) == [of |-> "compared", first |-> a, second |-> b, result |-> compare(a, b)]

Asked(object, item, type) ==
  [of |-> "asked", object |-> object, item |-> item, type |-> type,
   defined |-> getAttribute(object, item, type, TRUE, FALSE),
   strict |-> getAttribute(object, item, type, FALSE, TRUE),
   lenient |-> getAttribute(object, item, type, FALSE, FALSE)]

Ran(b) == [of |-> "ran", result |-> Executed(b), expected |-> Expected(b)]

Call ==
  \/ /\ call = Ready("printed")
     /\ \E t \in Trees : call' = Printed(t)
  \/ /\ call = Ready("parsed")
     /\ \E n \in 1..MaxTokens : \E s \in [1..n -> Tokens] : call' = Parsed(s)
  \/ /\ call = Ready("traversed")
     /\ \E m \in Modules, sandboxed \in BOOLEAN : call' = Traversed(m, sandboxed)
  \/ /\ call = Ready("compared")
     /\ \E a, b \in Operands : call' = Compared(a, b)
  \/ /\ call = Ready("sliced")
     /\ Slicing
  \/ /\ call = Ready("batched")
     /\ Batching
  \/ /\ call = Ready("arranged")
     /\ Arranging
  \/ /\ call = Ready("asked")
     /\ \E object \in Objects, item \in DOMAIN Lower \cup {"0", "true"}, type \in {"any", "array", "method"} :
          call' = Asked(object, item, type)
  \/ /\ call = Ready("ran")
     /\ \E b \in Programs : call' = Ran(b)
  \/ /\ call = Ready("bound")
     /\ Binding
  \/ /\ call = Ready("registered")
     /\ Registering
  \/ Asking
  \/ Compiling

Spec == Init /\ [][Call]_call

-----------------------------------------------------------------------------
(* Expressions *)

\* The parser gives back the tree an expression was written from, whatever its
\* operators: their precedences, their sides and the parentheses are respected.
\* So it does with the tree of whatever text it accepts, once that is written
\* with all its parentheses
\* (TwingParser.parseExpression, getPrimary, parsePostfixExpression).
RoundTrip ==
  /\ call.of = "printed" => call.result = Node(call.tree, Len(call.text) + 1)
  /\ (call.of = "parsed" /\ ~Threw(call.result)) =>
       LET text == TextOf(call.result.node, 0)
       IN  parseExpression(text, 1, 0, FALSE) = Node(call.result.node, Len(text) + 1)

-----------------------------------------------------------------------------
(* Node visitors *)

\* Wherever automatic escaping is on, what a print gives was escaped for the
\* strategy of its section, or needs no escaping, on every way through the
\* expression; the section of a block is that of its reference
\* (TwingNodeVisitorEscaper, TwingNodeVisitorSafeAnalysis).
EveryPrintEscaped ==
  call.of = "traversed" =>
    /\ Len(call.before) = Len(call.after)
    /\ \A k \in DOMAIN call.after : call.after[k].strategy # Off =>
         \A o \in Outcomes(call.after[k].expr, Macros(call.module), FALSE) : o.trusted \/ Times(o, call.after[k].strategy) > 0

\* No escape filter with more than a strategy, no conditional but the outermost.
RECURSIVE Flat(_)
Flat(n) ==
  /\ n.type = "filter" /\ n.name = "escape" => Len(n.kids) <= 2
  /\ \A k \in DOMAIN n.kids : n.kids[k].type # "conditional" /\ Flat(n.kids[k])

\* A print whose value was escaped at most once by the template, where a filter
\* that wants it escaped counts, is escaped at most once in the end.
Once(k) ==
  LET once(n, pre) == \A o \in Outcomes(n, Macros(call.module), pre) : Times(o, call.after[k].strategy) <= 1
  IN  once(call.before[k].expr, TRUE) => once(call.after[k].expr, FALSE)

\* Automatic escaping and pre_escape do not escape again what the template has
\* escaped, as long as its conditionals are not nested and its escape filters
\* have no charset.
NotEscapedTwiceFlat ==
  call.of = "traversed" => \A k \in DOMAIN call.after : Flat(call.before[k].expr) => Once(k)

\* The same for every expression: "autoescape" does not double-escape.
NotEscapedTwice == call.of = "traversed" => \A k \in DOMAIN call.after : Once(k)

\* The security check of a sandboxed template lists all that the template uses
\* in the end, also what the other visitors have put in it
\* (TwingNodeVisitorSandbox, TwingNodeCheckSecurity).
UsedIsChecked ==
  (call.of = "traversed" /\ call.sandboxed) =>
    \E k \in DOMAIN call.prepared.kids :
      LET check == call.prepared.kids[k]
      IN  /\ check.type = "check"
          /\ \A used \in Used(call.prepared) :
               used[2] \in CASE used[1] = "tag" -> check.tags
                             [] used[1] = "filter" -> check.filters
                             [] used[1] = "function" -> check.functions

\* The optimizer leaves a loop variable to every loop where one is looked up
\* (TwingNodeVisitorOptimizer).
LoopsKept == call.of = "traversed" => LookedUp(call.module) \subseteq call.withLoop

-----------------------------------------------------------------------------
(* Values *)

\* compare is the loose equality of PHP, on whichever side a value stands and
\* however deep it is in a map (the tables of compare.ts).
LooseEquality == call.of = "compared" => call.result = Loose(call.first, call.second)

\* The defined test is right about the access it announces: it holds if and only
\* if the access gives a value, even where strict variables would make it throw,
\* and it throws only where the access throws without strict variables as well.
DefinedMatchesAccess ==
  call.of = "asked" =>
    /\ call.defined = <<"boolean", TRUE>> <=> call.strict[1] = "value"
    /\ call.defined = <<"boolean", FALSE>> <=> call.strict = <<"throws", "runtime error">>
    /\ call.defined[1] = "throws" <=> call.lenient[1] = "throws"
    /\ call.strict[1] = "value" => call.lenient = call.strict

-----------------------------------------------------------------------------
(* Contexts *)

\* However for and with are nested, a template sees the variables and the loops of
\* the scopes it is in, and a for or a with leaves no trace of its own: its loop,
\* its target and its variables are those of the outer scope again (TwingNodeFor,
\* TwingNodeForLoop, TwingNodeWith).
ContextsNest ==
  call.of = "ran" =>
    /\ call.result.out = call.expected.out
    /\ Seen(call.result.context) = Seen(call.expected.context)
    /\ {"_seq", "_iterated", "_key", "_parent", "loop"} \cap DOMAIN call.result.context = {}
=============================================================================
