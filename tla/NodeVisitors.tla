---------------------------- MODULE NodeVisitors ----------------------------
(***************************************************************************)
(* The node visitors of the core extension, over small trees.              *)
(*                                                                         *)
(* A node is [type, name, kids]: name is the attribute a visitor reads (a  *)
(* name, the value of a constant, a strategy) and kids its child nodes in  *)
(* their order.  A module has a body, then blocks.  A for has a sequence   *)
(* and a body; its targets are not references.  The arguments of a filter  *)
(* or a function follow the node it is applied to.                         *)
(***************************************************************************)
EXTENDS Naturals, Sequences, FiniteSets, SequencesExt

Nd(type, name, kids) == [type |-> type, name |-> name, kids |-> kids]

\* The strategy false.
Off == "off"
None == "none"

RECURSIVE Safe(_, _), Visit(_, _, _), VisitFrom(_, _, _, _), Unwrap(_, _, _)

-----------------------------------------------------------------------------
(* TwingNodeVisitorSafeAnalysis: for which strategies a value is safe.     *)

\* The last constant among the arguments of escape.
escapeFilterIsSafe(arguments) ==
  LET constants == SelectSeq(arguments, LAMBDA n : n.type = "constant")
  IN  IF arguments = << >> THEN {"html"}
      ELSE IF constants = << >> THEN {} ELSE {Last(constants).name}

\* What the core filters and functions declare.
FilterSafe(name, arguments) ==
  CASE name \in {"escape", "e"} -> escapeFilterIsSafe(arguments)
    [] name \in {"nl2br", "convert_encoding", "spaceless"} -> {"html"}
    [] name = "raw" -> {"all"}
    [] OTHER -> {}

FunctionSafe(name) == IF name \in {"include", "source"} THEN {"all"} ELSE IF name = "dump" THEN {"html"} ELSE {}

PreEscape(name) == IF name \in {"nl2br", "convert_encoding"} THEN "html" ELSE None

intersectSafe(a, b) ==
  IF "all" \in a THEN b ELSE IF "all" \in b THEN a ELSE a \cap b

\* getSafe, once the analysis has visited the node: a value that may stand in
\* an attribute may stand anywhere in HTML.
Safe(n, safeVars) ==
  LET own ==
        CASE n.type \in {"constant", "blockExpression", "parent", "methodCall"} -> {"all"}
          [] n.type = "conditional" -> intersectSafe(Safe(n.kids[2], safeVars), Safe(n.kids[3], safeVars))
          [] n.type = "filter" -> FilterSafe(n.name, Tail(n.kids))
          [] n.type = "function" -> FunctionSafe(n.name)
          [] n.type = "getAttr" -> IF n.kids[1].type = "name" /\ n.kids[1].name \in safeVars THEN {"all"} ELSE {}
          [] OTHER -> {}
  IN  IF "html_attr" \in own THEN own \cup {"html"} ELSE own

isSafeFor(strategy, n, safeVars) == Safe(n, safeVars) \cap {strategy, "all"} # {}

-----------------------------------------------------------------------------
(* TwingNodeVisitorEscaper *)

getEscaperFilter(strategy, n) ==
  Nd("filter", "escape", <<n, Nd("constant", strategy, << >>), Nd("constant", "null", << >>),
                          Nd("constant", "true", << >>)>>)

needEscaping(s) == IF s.statusStack # << >> THEN Last(s.statusStack) ELSE s.defaultStrategy

Escaped(n, strategy, s) ==
  IF isSafeFor(strategy, n, s.safeVars) THEN n ELSE getEscaperFilter(strategy, n)

shouldUnwrapConditional(n, strategy, s) ==
  isSafeFor(strategy, n.kids[2], s.safeVars) # isSafeFor(strategy, n.kids[3], s.safeVars)

\* "echo a ? b : c" becomes "a ? echo b : echo c".
Unwrap(n, strategy, s) ==
  LET side(m) == IF m.type = "conditional" /\ shouldUnwrapConditional(m, strategy, s)
                 THEN Unwrap(m, strategy, s)
                 ELSE Nd("inlinePrint", None, <<Escaped(m, strategy, s)>>)
  IN  [n EXCEPT !.kids[2] = side(n.kids[2]), !.kids[3] = side(n.kids[3])]

\* A mutant of LeavePrint: a conditional is never taken apart.
LeavePrintWhole(n, s) ==
  IF needEscaping(s) = Off THEN n
  ELSE [n EXCEPT !.kids = <<Escaped(n.kids[1], needEscaping(s), s)>>]

LeavePrint(n, s) ==
  LET strategy == needEscaping(s)
      expr == n.kids[1]
  IN  IF strategy = Off THEN n
      ELSE IF expr.type = "conditional" /\ shouldUnwrapConditional(expr, strategy, s)
      THEN Nd("do", None, <<Unwrap(expr, strategy, s)>>)
      ELSE [n EXCEPT !.kids = <<Escaped(expr, strategy, s)>>]

preEscapeFilterNode(n, s) ==
  IF PreEscape(n.name) = None THEN n
  ELSE [n EXCEPT !.kids[1] = Escaped(n.kids[1], PreEscape(n.name), s)]

EnterEscaper(n, s) ==
  CASE n.type = "module" -> [s EXCEPT !.defaultStrategy = n.name, !.safeVars = {}, !.blocks = << >>]
    [] n.type = "autoescape" -> [s EXCEPT !.statusStack = Append(@, n.name)]
    [] n.type = "block" -> [s EXCEPT !.statusStack = Append(@,
         IF n.name \in DOMAIN s.blocks THEN s.blocks[n.name] ELSE needEscaping(s))]
    [] n.type = "import" -> [s EXCEPT !.safeVars = @ \cup {n.name}]
    [] OTHER -> s

\* A mutant of LeaveEscaper: the strategy of a block is that of the section
\* that is open when the block itself is visited.
LeaveEscaperForgetful(n, s) ==
  CASE n.type = "filter" -> [node |-> preEscapeFilterNode(n, s), s |-> s]
    [] n.type = "print" -> [node |-> LeavePrint(n, s), s |-> s]
    [] n.type \in {"autoescape", "block"} -> [node |-> n, s |-> [s EXCEPT !.statusStack = Front(@)]]
    [] OTHER -> [node |-> n, s |-> s]

LeaveEscaper(n, s) ==
  CASE n.type = "filter" -> [node |-> preEscapeFilterNode(n, s), s |-> s]
    [] n.type = "print" -> [node |-> LeavePrint(n, s), s |-> s]
    [] n.type \in {"autoescape", "block"} -> [node |-> n, s |-> [s EXCEPT !.statusStack = Front(@)]]
    [] n.type = "blockReference" ->
         [node |-> n, s |-> [s EXCEPT !.blocks = (n.name :> needEscaping(s)) @@ @]]
    [] OTHER -> [node |-> n, s |-> s]

-----------------------------------------------------------------------------
(* TwingNodeVisitorMacroAutoImport: _self.m() becomes a call of the macro.  *)

IsMacroCall(n) ==
  /\ n.type = "getAttr" /\ n.kids[2].type = "constant"
  /\ n.kids[1].type = "name" /\ n.kids[1].name = "_self"

LeaveAutoImport(n, s) ==
  CASE IsMacroCall(n) -> [node |-> Nd("methodCall", n.kids[2].name, <<n.kids[1]>>),
                          s |-> [s EXCEPT !.hasMacroCalls = TRUE]]
    [] n.type = "module" /\ s.hasMacroCalls ->
         [node |-> [n EXCEPT !.kids = Append(@, Nd("import", "_self", << >>))], s |-> s]
    [] OTHER -> [node |-> n, s |-> s]

-----------------------------------------------------------------------------
(* TwingNodeVisitorSandbox: what the module uses, and what is converted to  *)
(* a string without being asked to.                                         *)

wrapNode(n) == IF n.type \in {"name", "getAttr"} THEN Nd("checkToString", None, <<n>>) ELSE n

Tags == {"autoescape", "block", "for", "import", "include", "set"}

EnterSandbox(n, s) ==
  LET wrapping == s.needsToStringWrap \/ n.type \in {"print", "set"}
      t == [s EXCEPT !.tags = @ \cup ({n.type} \cap Tags),
                     !.filters = @ \cup IF n.type = "filter" THEN {n.name} ELSE {},
                     !.functions = @ \cup IF n.type = "function" THEN {n.name}
                                          ELSE IF n.type = "range" THEN {"range"} ELSE {},
                     !.needsToStringWrap = wrapping]
      wrapped == n.type = "print" \/ (wrapping /\ n.type \in {"concat", "filter", "function"})
  IN  IF n.type = "module" THEN [node |-> n, s |-> [s EXCEPT !.tags = {}, !.filters = {}, !.functions = {}]]
      ELSE [node |-> IF wrapped THEN [n EXCEPT !.kids = [k \in DOMAIN @ |-> wrapNode(@[k])]] ELSE n, s |-> t]

\* The check of the security policy is made of what was seen. A "check" node
\* stands for it.
LeaveSandbox(n, s) ==
  CASE n.type = "module" ->
         [node |-> [n EXCEPT !.kids = Append(@, [type |-> "check", name |-> None, kids |-> << >>,
                    tags |-> s.tags, filters |-> s.filters, functions |-> s.functions])], s |-> s]
    [] n.type \in {"print", "set"} -> [node |-> n, s |-> [s EXCEPT !.needsToStringWrap = FALSE]]
    [] OTHER -> [node |-> n, s |-> s]

-----------------------------------------------------------------------------
(* TwingNodeVisitorOptimizer: which loops create their loop variable. A for *)
(* is known by the number of fors entered before it, and withLoop says of   *)
(* which ones the attribute with_loop is set.                               *)

addLoopToCurrent(s) == [s EXCEPT !.withLoop = @ \cup {Head(s.loops)}]

addLoopToAll(s) == [s EXCEPT !.withLoop = @ \cup ToSet(s.loops)]

IsLoop(n) == n.type = "name" /\ n.name = "loop"

\* A mutant of ReachesOuterLoop: the parent of a loop is not looked for.
ReachesNoLoop(n, s) == n.type = "getAttr" /\ n.kids[2].type # "constant"

\* loop.parent, or an attribute that is only known at run time.
ReachesOuterLoop(n, s) ==
  /\ n.type = "getAttr"
  /\ n.kids[2].type # "constant" \/ n.kids[2].name = "parent"
  /\ Head(s.loops) \in s.withLoop \/ IsLoop(n.kids[1])

enterOptimizeFor(n, s) ==
  IF n.type = "for" THEN [s EXCEPT !.fors = @ + 1, !.loops = <<s.fors + 1>> \o @]
  ELSE IF s.loops = << >> THEN s
  ELSE IF \/ n.type = "include" /\ n.name # "only"
          \/ n.type = "function" /\ n.name = "include" /\ ~\E k \in DOMAIN n.kids : n.kids[k].name = "with_context=false"
          \/ ReachesOuterLoop(n, s)
  THEN addLoopToAll(s)
  ELSE IF IsLoop(n) \/ n.type \in {"blockReference", "blockExpression"} THEN addLoopToCurrent(s)
  ELSE s

\* A raw filter is removed; a print of a block or of parent() displays it.
LeaveOptimizer(n, s) ==
  [node |-> IF n.type = "filter" /\ n.name = "raw" THEN n.kids[1]
            ELSE IF n.type = "print" /\ n.kids[1].type \in {"blockExpression", "parent"} THEN n.kids[1]
            ELSE n,
   s |-> IF n.type = "for" THEN [s EXCEPT !.loops = Tail(@)] ELSE s]

-----------------------------------------------------------------------------
(* TwingNodeTraverser *)

Enter(visitor, n, s) ==
  CASE visitor = "escaper" -> [node |-> n, s |-> EnterEscaper(n, s)]
    [] visitor = "optimizer" -> [node |-> n, s |-> enterOptimizeFor(n, s)]
    [] visitor = "sandbox" -> EnterSandbox(n, s)
    [] OTHER -> [node |-> n, s |-> s]

Leave(visitor, n, s) ==
  CASE visitor = "escaper" -> LeaveEscaper(n, s)
    [] visitor = "optimizer" -> LeaveOptimizer(n, s)
    [] visitor = "sandbox" -> LeaveSandbox(n, s)
    [] OTHER -> LeaveAutoImport(n, s)

\* traverseForVisitor: a node, its children in turn, the node again.
Visit(visitor, n, s) ==
  LET entered == Enter(visitor, n, s)
      visited == VisitFrom(visitor, 1, entered.node, entered.s)
  IN  Leave(visitor, visited.node, visited.s)

\* The children of a node, from the k-th on.
VisitFrom(visitor, k, n, s) ==
  IF k > Len(n.kids) THEN [node |-> n, s |-> s]
  ELSE LET child == Visit(visitor, n.kids[k], s)
       IN  VisitFrom(visitor, k + 1, [n EXCEPT !.kids[k] = child.node], child.s)

\* What the visitors keep between two nodes.
Visitors ==
  [statusStack |-> << >>, blocks |-> << >>, safeVars |-> {}, defaultStrategy |-> Off,
   hasMacroCalls |-> FALSE,
   tags |-> {}, filters |-> {}, functions |-> {}, needsToStringWrap |-> FALSE,
   fors |-> 0, loops |-> << >>, withLoop |-> {}]

\* A mutant of Prepared: the sandbox visitor comes before the escaper.
PreparedSandboxFirst(module, sandboxed) ==
  FoldLeft(LAMBDA r, visitor : Visit(visitor, r.node, r.s), [node |-> module, s |-> Visitors],
           <<"autoimport">> \o (IF sandboxed THEN <<"sandbox">> ELSE << >>) \o <<"escaper">>)

\* Those of them that may change what is printed, in the order of their
\* priorities: -10, then 0 in the order of registration.
Prepared(module, sandboxed) ==
  FoldLeft(LAMBDA r, visitor : Visit(visitor, r.node, r.s), [node |-> module, s |-> Visitors],
           <<"autoimport", "escaper">> \o IF sandboxed THEN <<"sandbox">> ELSE << >>)

\* traverse: the optimizer, of priority 255, is the last.
Traverse(module, sandboxed) == LET r == Prepared(module, sandboxed) IN Visit("optimizer", r.node, r.s)

-----------------------------------------------------------------------------
(* What the visitors are compared with *)

RECURSIVE Sections(_, _), Prints(_, _, _), Outcomes(_, _, _), Used(_), Lookups(_, _, _)

\* The strategy of the section each block is referred to in.
Sections(n, strategy) ==
  IF n.type = "blockReference" THEN n.name :> strategy
  ELSE FoldLeft(LAMBDA f, m : Sections(m, IF n.type = "autoescape" THEN n.name ELSE strategy) @@ f,
                << >>, n.kids)

\* What a tree prints, in the order of its nodes, with the strategy of the
\* section it is in: that of its reference for what is in a block.
Prints(n, strategy, sections) ==
  LET inner == CASE n.type = "autoescape" -> n.name
                 [] n.type = "block" /\ n.name \in DOMAIN sections -> sections[n.name]
                 [] OTHER -> strategy
  IN  IF n.type \in {"print", "do"} THEN << [expr |-> n.kids[1], strategy |-> inner] >>
      ELSE FlattenSeq([k \in DOMAIN n.kids |-> Prints(n.kids[k], inner, sections)])

PrintsOf(module) == Prints(module, module.name, Sections(module, module.name))

\* How often it was escaped for a strategy; what may stand in an attribute may
\* stand in HTML.
Times(o, strategy) ==
  Cardinality({k \in DOMAIN o.by : o.by[k] \in {strategy} \cup IF strategy = "html" THEN {"html_attr"} ELSE {}})

\* What an expression may give, one outcome for each way through its
\* conditionals: the strategy it was escaped with, as often as it was, and
\* whether it needs none.  What is escaped for another context is a new value.
\* "pre" says that a filter which asks for it is given what is escaped already.
Outcomes(n, macros, pre) ==
  LET of(m) == Outcomes(m, macros, pre)
  IN  CASE n.type = "filter" /\ n.name = "escape" ->
             LET how == IF Len(n.kids) = 1 THEN "html" ELSE n.kids[2].name
             IN  {[o EXCEPT !.by = IF ToSet(@) = {how} THEN Append(@, how) ELSE <<how>>] : o \in of(n.kids[1])}
        [] n.type = "filter" /\ n.name = "nl2br" ->
             {IF ~pre \/ o.trusted \/ Times(o, "html") > 0 THEN o ELSE [o EXCEPT !.by = Append(@, "html")]
                : o \in of(n.kids[1])}
        [] n.type = "filter" /\ n.name = "raw" -> {[o EXCEPT !.trusted = TRUE] : o \in of(n.kids[1])}
        [] n.type = "conditional" -> of(n.kids[2]) \cup of(n.kids[3])
        [] n.type \in {"inlinePrint", "checkToString"} -> of(n.kids[1])
        [] n.type \in {"constant", "blockExpression", "parent", "methodCall"}
             \/ (n.type = "function" /\ n.name = "include")
             \/ (n.type = "getAttr" /\ n.kids[1].name \in macros) -> {[by |-> << >>, trusted |-> TRUE]}
        [] OTHER -> {[by |-> << >>, trusted |-> FALSE]}

\* The names of the imports of a template.
Macros(module) == {n.name : n \in {m \in ToSet(module.kids[1].kids) : m.type = "import"}}

\* The filters, functions and tags of a tree.
Used(n) ==
  (CASE n.type \in {"filter", "function"} -> {<<n.type, n.name>>}
     [] n.type = "range" -> {<<"function", "range">>}
     [] n.type \in Tags -> {<<"tag", n.type>>}
     [] OTHER -> {})
  \cup UNION {Used(n.kids[k]) : k \in DOMAIN n.kids}

\* Which loop variables the rendering of a tree looks up, and what an expression
\* is: a loop variable or a context, of which scope holds the loops it is in,
\* innermost first. Only the body of a for is in its loop. An included template
\* or a block may do with the context it is given what it likes; of a block we
\* ask for the loop it is in only.
Lookups(n, scope, r) ==
  LET fors == r.fors + 1
      each(ks, inside, from) == FoldLeft(LAMBDA x, k : Lookups(n.kids[k], inside, x), from, ks)
      inner == each([k \in DOMAIN n.kids |-> k], scope, r)
      object == Lookups(n.kids[1], scope, r)
      as(what, s) == [inner EXCEPT !.kind = what, !.scope = s,
                        !.found = @ \cup IF what = "loop" THEN {Head(s)} ELSE {}]
  IN  CASE n.type = "for" -> each(<<2>>, <<fors>> \o scope, each(<<1>>, scope, [r EXCEPT !.fors = fors]))
        [] IsLoop(n) /\ scope # << >> -> as("loop", scope)
        [] n.type = "getAttr" ->
             IF object.kind = "loop" /\ n.kids[2].name = "parent" THEN as("context", Tail(object.scope))
             ELSE IF object.kind = "context" /\ n.kids[2].name = "loop" /\ object.scope # << >>
             THEN as("loop", object.scope) ELSE as("other", << >>)
        [] (n.type = "include" /\ n.name # "only")
           \/ (n.type = "function" /\ n.name = "include" /\ Len(n.kids) = 1) ->
             [as("other", << >>) EXCEPT !.found = @ \cup ToSet(scope)]
        [] n.type \in {"blockReference", "blockExpression"} /\ scope # << >> ->
             [as("other", << >>) EXCEPT !.found = @ \cup {Head(scope)}]
        [] OTHER -> [inner EXCEPT !.kind = "other"]

LookedUp(n) == Lookups(n, << >>, [fors |-> 0, kind |-> "other", scope |-> << >>, found |-> {}]).found
=============================================================================
