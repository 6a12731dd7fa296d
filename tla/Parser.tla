------------------------------- MODULE Parser -------------------------------
(***************************************************************************)
(* TwingParser and the token parsers of the tags, one action per tag.      *)
(*                                                                         *)
(* A parser belongs to an environment and parses one template after the    *)
(* other.  What a tag means depends on what surrounds it: the block, the   *)
(* macro, the embedded template it is in.  The parser keeps that in fields *)
(* the token parsers push and pop themselves, around a recursive call of   *)
(* subparse; an embedded template is a nested call of parse, which saves   *)
(* all the fields on a stack and starts anew.                              *)
(*                                                                         *)
(* The token stream is the environment of this machine: at each turn of    *)
(* subparse any construct may come next, or a token that no one accepts.   *)
(***************************************************************************)
EXTENDS Naturals, Sequences, FiniteSets, SequencesExt

CONSTANTS
  Names,       \* the names a block can have
  Aliases,     \* the names an import can give
  NoName,      \* the name of a tag without one
  MaxTags,     \* how many constructs the templates have together
  MaxDepth,    \* how deep they are nested
  MaxParses    \* how many templates are parsed

ASSUME ParserBounds ==
  /\ MaxTags \in Nat /\ MaxDepth \in Nat /\ MaxParses \in Nat
  /\ NoName \notin Names \cup Nat
  /\ Names \cap Nat = {}   \* an author gives no name that getVarName gives

VARIABLES
  stack,                  \* what parse() saved of the calls it is nested in
  state,                  \* the fields of the template being parsed
  varNameSalt,            \* the counter of getVarName()
  embeddedTemplateIndex,  \* the counter of embedTemplate()
  pending,               \* the calls of parse() of tags in progress, outermost first
  tags,                   \* how many constructs have been met
  parses,                 \* how many templates were begun
  left                    \* how many entries the failed calls of parse() left on the stack

vars == <<stack, state, varNameSalt, embeddedTemplateIndex, pending, tags, parses, left>>

\* What is in the body of a tag, as far as an enclosing template can tell:
\* white space, other text, a node without children, an include, a node that
\* captures what it contains, a reference to a block, something with children
\* that puts nothing out itself, something that puts out.
Kinds == {"blank", "text", "leaf", "include", "capture", "reference", "plain", "output"}

\* A call of the parse() of a token parser that waits for its end tag. "at"
\* is the number of the construct that opened it, "stage" whether an else may
\* still come, "body" the kinds of its nodes so far, "many" whether there are
\* several of them.
Call(tag, name) ==
  [tag |-> tag, name |-> name, at |-> tags + 1, stage |-> "fork", body |-> {}, many |-> FALSE]

\* The fields parse() starts with. A scope says of each imported symbol where
\* it was imported. "names" are those getVarName gave while this template was
\* parsed.
Fresh ==
  [parent |-> FALSE, blocks |-> << >>, blockStack |-> << >>, macros |-> {},
   importedSymbols |-> << << >> >>, traits |-> 0, embeddedTemplates |-> << >>, names |-> << >>]

Init ==
  /\ stack = << >>
  /\ state = Fresh   \* undefined fields: nothing reads them before the first parse
  /\ varNameSalt = 0
  /\ embeddedTemplateIndex = 1
  /\ pending = << >>
  /\ tags = 0
  /\ parses = 0
  /\ left = 0

-----------------------------------------------------------------------------
(* The tags that are open *)

\* A template that is being parsed, as the tags that are open in it tell: the
\* one it began with, the names of its blocks, and the ones that opened its
\* scopes, the innermost first.
Began(h) == [at |-> h.at, blockStack |-> << >>, scopes |-> <<h.at>>]

\* The templates being parsed when one more tag is open.
Enter(open, h) ==
  IF h.tag \in {"template", "embed"} THEN Append(open, Began(h))
  ELSE IF h.tag = "block"
  THEN [open EXCEPT ![Len(open)].blockStack = Append(@, h.name),
                    ![Len(open)].scopes = <<h.at>> \o @]
  ELSE IF h.tag = "macro" THEN [open EXCEPT ![Len(open)].scopes = <<h.at>> \o @]
  ELSE open

\* The templates being parsed, each embedded in the one before it.
Nesting(hs) ==
  LET entered[i \in 0..Len(hs)] == IF i = 0 THEN << >> ELSE Enter(entered[i - 1], hs[i])
  IN  entered[Len(hs)]

-----------------------------------------------------------------------------
(* The helpers of the parser *)

Parsing == pending # << >>
Current == Last(pending)
More == Parsing /\ tags < MaxTags

peekBlockStack == Last(state.blockStack)

isMainScope == Len(state.importedSymbols) = 1

PushScope(scopes) == << << >> >> \o scopes

PopScope(scopes) == Tail(scopes)

\* A map when k is set to v.
Put(map, k, v) == [j \in DOMAIN map \cup {k} |-> IF j = k THEN v ELSE map[j]]

setBlock(blocks, name, what) == Put(blocks, name, what)

\* The construct that opened the scope an import is made in.
ScopeOf(hs) == Head(Last(Nesting(hs)).scopes)

addImportedSymbol(type, alias, name) ==
  [state.importedSymbols EXCEPT
     ![1] = Put(@, <<type, alias>>, [in |-> ScopeOf(pending), name |-> name])]

\* An imported symbol is looked for in the current scope, then in the main one.
getImportedSymbol(type, alias) ==
  LET scopes == state.importedSymbols
      k == <<type, alias>>
  IN  IF k \in DOMAIN scopes[1] THEN {scopes[1][k]}
      ELSE IF k \in DOMAIN Last(scopes) THEN {Last(scopes)[k]} ELSE {}

\* The node of a construct goes to the body of the handler that is waiting.
AddNode(hs, kind) ==
  [hs EXCEPT ![Len(hs)].body = @ \cup {kind}, ![Len(hs)].many = hs[Len(hs)].body # {}]

\* getVarName: the counter is part of the name.
GiveName(f) == [f EXCEPT !.names = Append(@, varNameSalt)]

\* filterBodyNodes refuses, in a template that extends another one, a body
\* that puts something out outside of its blocks.
filterBodyNodes(h) == state.parent => h.body \cap {"text", "output"} = {}

\* What a node that contains a body is to the body around it.
Around(h) == IF h.body \cap {"text", "output"} # {} THEN "output" ELSE "plain"

-----------------------------------------------------------------------------
(* parse() and subparse() *)

\* A template begins: the fields of the previous one are saved, whatever they are.
Parse ==
  /\ ~Parsing /\ parses < MaxParses
  /\ stack' = Append(stack, state)
  /\ state' = Fresh
  /\ varNameSalt' = 0
  /\ parses' = parses + 1
  /\ pending' = <<[Call("template", NoName) EXCEPT !.at = tags]>>
  /\ UNCHANGED <<embeddedTemplateIndex, tags, left>>

\* The end of the stream, in no tag: the module node is made and traversed and
\* what was saved is restored.
EndOfTemplate ==
  /\ Len(pending) = 1
  /\ filterBodyNodes(Current)
  /\ state' = Last(stack)
  /\ stack' = Front(stack)
  /\ pending' = << >>
  /\ UNCHANGED <<varNameSalt, embeddedTemplateIndex, tags, parses, left>>

\* Any token may be one that is not accepted: expect, a check of a tag, a name
\* nobody registered or a node visitor throws. The calls are gone; what they and
\* parse() have pushed is not popped.
Throw ==
  /\ Parsing
  /\ left' = Len(stack)
  /\ pending' = << >>
  /\ UNCHANGED <<stack, state, varNameSalt, embeddedTemplateIndex, tags, parses>>

\* A construct without a body that changes no field.
Adds(kinds) ==
  /\ More
  /\ \E kind \in kinds : pending' = AddNode(pending, kind)
  /\ tags' = tags + 1
  /\ UNCHANGED <<stack, state, varNameSalt, embeddedTemplateIndex, parses, left>>

\* Text, comment, print
subparse == Adds({"blank", "text", "leaf", "output"})

Do == Adds({"plain"})
Deprecated == Adds({"plain"})
Line == Adds({"leaf"})
FlushTag == Adds({"leaf"})
Include == Adds({"include"})

\* It puts out its text, and has no children, like text.
Verbatim == Adds({"text"})

\* parent() is printed: there must be a block, and a parent or a trait.
getFunctionNode ==
  /\ More
  /\ state.blockStack # << >>
  /\ state.parent \/ state.traits > 0
  /\ pending' = AddNode(pending, "output")
  /\ tags' = tags + 1
  /\ UNCHANGED <<stack, state, varNameSalt, embeddedTemplateIndex, parses, left>>

-----------------------------------------------------------------------------
(* The tags that change the fields and have no body *)

\* {% extends %} adds no node.
Extends ==
  /\ More
  /\ state.blockStack = << >>
  /\ isMainScope
  /\ ~state.parent
  /\ state' = [state EXCEPT !.parent = TRUE]
  /\ tags' = tags + 1
  /\ UNCHANGED <<stack, varNameSalt, embeddedTemplateIndex, pending, parses, left>>

\* {% use %}
Use ==
  /\ More
  /\ state' = [state EXCEPT !.traits = state.traits + 1]
  /\ pending' = AddNode(pending, "leaf")
  /\ tags' = tags + 1
  /\ UNCHANGED <<stack, varNameSalt, embeddedTemplateIndex, parses, left>>

\* {% import as %} names the template of the macros.
Import ==
  /\ More
  /\ \E alias \in Aliases :
       state' = [state EXCEPT !.importedSymbols = addImportedSymbol("template", alias, alias)]
  /\ pending' = AddNode(pending, "plain")
  /\ tags' = tags + 1
  /\ UNCHANGED <<stack, varNameSalt, embeddedTemplateIndex, parses, left>>

\* {% from import %} keeps the template under a name of its own.
From ==
  /\ More
  /\ \E alias \in Aliases :
       state' = GiveName([state EXCEPT !.importedSymbols = addImportedSymbol("function", alias, varNameSalt)])
  /\ varNameSalt' = varNameSalt + 1
  /\ pending' = AddNode(pending, "plain")
  /\ tags' = tags + 1
  /\ UNCHANGED <<stack, embeddedTemplateIndex, parses, left>>

-----------------------------------------------------------------------------
(* The tags with a body *)

\* A handler calls subparse for a body.
Open(h) == More /\ Len(pending) < MaxDepth /\ pending' = Append(pending, h) /\ tags' = tags + 1

\* Its end tag comes and it returns a node of this kind.
Close(hs, kind) == pending' = AddNode(Front(hs), kind)

Keep == UNCHANGED <<stack, embeddedTemplateIndex, parses, left>>

OpenBlock(name) ==
  /\ name \notin DOMAIN state.blocks
  /\ Open(Call("block", name))
  /\ state' = [state EXCEPT !.blocks = setBlock(state.blocks, name, "empty"),
                           !.importedSymbols = PushScope(state.importedSymbols),
                           !.blockStack = Append(state.blockStack, name)]
  /\ UNCHANGED varNameSalt /\ Keep

\* A mutant of CloseBlock: the block stays on the block stack.
CloseBlockUnpopped ==
  /\ Current.tag = "block"
  /\ Close(pending, "reference")
  /\ state' = [state EXCEPT !.blocks = setBlock(state.blocks, Current.name, "complete"),
                           !.importedSymbols = PopScope(state.importedSymbols)]
  /\ UNCHANGED <<varNameSalt, tags>> /\ Keep

\* {% endblock %}, with the name of the block or without one.
CloseBlock ==
  /\ Current.tag = "block"
  /\ Close(pending, "reference")
  /\ state' = [state EXCEPT !.blocks = setBlock(state.blocks, Current.name, "complete"),
                           !.importedSymbols = PopScope(state.importedSymbols),
                           !.blockStack = Front(state.blockStack)]
  /\ UNCHANGED <<varNameSalt, tags>> /\ Keep

\* {% block name expression %} pushes and pops around the expression.
ShortBlock(name) ==
  /\ More
  /\ name \notin DOMAIN state.blocks
  /\ state' = [state EXCEPT !.blocks = setBlock(state.blocks, name, "complete")]
  /\ pending' = AddNode(pending, "reference")
  /\ tags' = tags + 1
  /\ UNCHANGED varNameSalt /\ Keep

OpenMacro(name) ==
  /\ Open(Call("macro", name))
  /\ state' = [state EXCEPT !.importedSymbols = PushScope(state.importedSymbols)]
  /\ UNCHANGED varNameSalt /\ Keep

\* A mutant of CloseMacro: the scope of the macro stays.
CloseMacroUnpopped ==
  /\ Current.tag = "macro"
  /\ pending' = Front(pending)
  /\ state' = [state EXCEPT !.macros = state.macros \cup {Current.name}]
  /\ UNCHANGED <<varNameSalt, tags>> /\ Keep

\* The macro is a field of the template: it adds no node to the body.
CloseMacro ==
  /\ Current.tag = "macro"
  /\ pending' = Front(pending)
  /\ state' = [state EXCEPT !.importedSymbols = PopScope(state.importedSymbols),
                           !.macros = state.macros \cup {Current.name}]
  /\ UNCHANGED <<varNameSalt, tags>> /\ Keep

\* {% if %} and {% elseif %}, {% else %} of it
If == Open(Call("if", NoName)) /\ UNCHANGED <<state, varNameSalt>> /\ Keep

\* {% for %}
For == Open(Call("for", NoName)) /\ UNCHANGED <<state, varNameSalt>> /\ Keep

\* {% elseif %} and {% else %} begin another body of the same handler.
Fork ==
  /\ More
  /\ Current.tag \in {"if", "for"} /\ Current.stage = "fork"
  /\ \E stage \in IF Current.tag = "if" THEN {"fork", "end"} ELSE {"end"} :
       pending' = [pending EXCEPT ![Len(pending)].stage = stage]
  /\ tags' = tags + 1
  /\ UNCHANGED <<state, varNameSalt>> /\ Keep

WithTag == Open(Call("with", NoName)) /\ UNCHANGED <<state, varNameSalt>> /\ Keep

AutoEscape == Open(Call("autoescape", NoName)) /\ UNCHANGED <<state, varNameSalt>> /\ Keep

Spaceless == Open(Call("spaceless", NoName)) /\ UNCHANGED <<state, varNameSalt>> /\ Keep

\* {% endif %}, {% endfor %}, {% endwith %}, {% endautoescape %}, {% endspaceless %}
CloseBody ==
  /\ Parsing /\ Current.tag \in {"if", "for", "with", "autoescape", "spaceless"}
  /\ Close(pending, Around(Current))
  /\ UNCHANGED <<state, varNameSalt, tags>> /\ Keep

\* {% set %} without a value
Set == Open(Call("set", NoName)) /\ UNCHANGED <<state, varNameSalt>> /\ Keep

CloseSet ==
  /\ Parsing /\ Current.tag = "set"
  /\ Close(pending, "capture")
  /\ UNCHANGED <<state, varNameSalt, tags>> /\ Keep

Sandbox == Open(Call("sandbox", NoName)) /\ UNCHANGED <<state, varNameSalt>> /\ Keep

\* A sandbox may only contain includes, of which an embed is one, and white space:
\* the nodes of the body are looked at, which for a body of one node are the
\* children of that node.
CloseSandbox ==
  /\ Parsing /\ Current.tag = "sandbox"
  /\ Current.body \subseteq IF Current.many THEN {"blank", "include"}
                                           ELSE {"blank", "include", "text", "leaf"}
  /\ Close(pending, Around(Current))
  /\ UNCHANGED <<state, varNameSalt, tags>> /\ Keep

\* {% apply %} sets a variable of a name of its own to what it contains, and
\* prints it through the filters.
Apply ==
  /\ Open(Call("apply", varNameSalt))
  /\ state' = GiveName(state)
  /\ varNameSalt' = varNameSalt + 1
  /\ Keep

CloseApply ==
  /\ Parsing /\ Current.tag = "apply"
  /\ Close(pending, "output")
  /\ UNCHANGED <<state, varNameSalt, tags>> /\ Keep

\* {% filter %} makes a block, of a name of its own, of what it contains.
FilterTag ==
  /\ Open(Call("filter", varNameSalt))
  /\ state' = GiveName(state)
  /\ varNameSalt' = varNameSalt + 1
  /\ Keep

CloseFilter ==
  /\ Parsing /\ Current.tag = "filter"
  /\ Close(pending, "output")
  /\ state' = [state EXCEPT !.blocks = setBlock(state.blocks, Current.name, "complete")]
  /\ UNCHANGED <<varNameSalt, tags>> /\ Keep

\* A mutant of Embed: the nested parse numbers embedded templates from 1 again,
\* as it does the names.
EmbedFromOne ==
  /\ Open(Call("embed", NoName))
  /\ stack' = Append(stack, state)
  /\ state' = [Fresh EXCEPT !.parent = TRUE]
  /\ varNameSalt' = 0
  /\ embeddedTemplateIndex' = 1
  /\ UNCHANGED <<parses, left>>

\* {% embed %} parses what follows as a template of its own, after a tag that
\* makes it extend the embedded one.
Embed ==
  /\ Open(Call("embed", NoName))
  /\ stack' = Append(stack, state)
  /\ state' = [Fresh EXCEPT !.parent = TRUE]
  /\ varNameSalt' = 0
  /\ UNCHANGED <<embeddedTemplateIndex, parses, left>>

\* A mutant of CloseEmbed: the macros of the enclosing template are not restored.
CloseEmbedKeepingMacros ==
  /\ Parsing /\ Current.tag = "embed"
  /\ filterBodyNodes(Current)
  /\ state' = [Last(stack) EXCEPT !.macros = state.macros, !.embeddedTemplates =
                Last(stack).embeddedTemplates \o state.embeddedTemplates \o <<embeddedTemplateIndex>>]
  /\ stack' = Front(stack)
  /\ embeddedTemplateIndex' = embeddedTemplateIndex + 1
  /\ Close(pending, "include")
  /\ UNCHANGED <<varNameSalt, tags, parses, left>>

\* {% endembed %}: the nested parse() restores the fields, embedTemplate numbers
\* its module. A template is compiled with all those embedded in it.
CloseEmbed ==
  /\ Parsing /\ Current.tag = "embed"
  /\ filterBodyNodes(Current)
  /\ state' = [Last(stack) EXCEPT !.embeddedTemplates =
                Last(stack).embeddedTemplates \o state.embeddedTemplates \o <<embeddedTemplateIndex>>]
  /\ stack' = Front(stack)
  /\ embeddedTemplateIndex' = embeddedTemplateIndex + 1
  /\ Close(pending, "include")
  /\ UNCHANGED <<varNameSalt, tags, parses, left>>

-----------------------------------------------------------------------------

BodyTag == If \/ For \/ Fork \/ WithTag \/ AutoEscape \/ Spaceless \/ CloseBody \/ Set \/ CloseSet
             \/ Sandbox \/ CloseSandbox \/ Apply \/ CloseApply \/ FilterTag \/ CloseFilter

Next ==
  \/ Parse \/ EndOfTemplate \/ Throw \/ subparse \/ getFunctionNode
  \/ Do \/ Deprecated \/ Line \/ FlushTag \/ Include \/ Verbatim
  \/ Extends \/ Use \/ Import \/ From
  \/ \E name \in Names : OpenBlock(name) \/ ShortBlock(name) \/ OpenMacro(name)
  \/ (Parsing /\ CloseBlock)
  \/ (Parsing /\ CloseMacro)
  \/ BodyTag \/ Embed \/ CloseEmbed

Spec == Init /\ [][Next]_vars
-----------------------------------------------------------------------------
(* Properties *)

Salts == 0..MaxTags

\* The functions on some elements of a set.
Partial(S, T) == UNION {[D -> T] : D \in SUBSET S}

Keys == {"template", "function"} \X Aliases

Imported == [in : Salts, name : Aliases \cup Salts]

Symbols == Partial(Keys, Imported)

Fields ==
  [parent : BOOLEAN, blocks : Partial(Names \cup Salts, {"empty", "complete"}),
   blockStack : Seq(Names), macros : SUBSET Names, importedSymbols : Seq(Symbols),
   traits : Nat, embeddedTemplates : Seq(Nat), names : Seq(Salts)]

Tags == {"template", "embed", "block", "macro", "if", "for", "with", "autoescape", "spaceless",
         "set", "sandbox", "apply", "filter"}

Calls == [tag : Tags, name : Names \cup Salts \cup {NoName}, at : Salts,
          stage : {"fork", "end"}, body : SUBSET Kinds, many : BOOLEAN]

\* Every field, saved or current, holds what its type says, and the calls in
\* progress are those of the tags, in a template.
TypeOK ==
  /\ state \in Fields /\ stack \in Seq(Fields)
  /\ varNameSalt \in 0..tags /\ embeddedTemplateIndex \in Nat \ {0}
  /\ pending \in Seq(Calls)
  /\ \A i \in DOMAIN pending :
       /\ pending[i].tag = "template" <=> i = 1
       /\ pending[i].tag \in {"block", "macro"} => pending[i].name \in Names
       /\ pending[i].tag = "filter" => pending[i].name \in Salts
  /\ tags \in Salts /\ parses \in 0..MaxParses /\ left \in 0..Len(stack)

\* The fields, saved or current, of a template being parsed. What failed calls
\* left on the stack is below them.
FieldsOf(open, n) == IF n = Len(open) THEN state ELSE stack[left + n + 1]

\* The fields the token parsers push and pop agree with the tags that are open,
\* in the template being parsed and in each of those it is embedded in: the
\* block stack names the open blocks, a scope is open for each open block and
\* macro, and a block is without a body only while it is open.
FieldsMatchTags ==
  LET open == Nesting(pending)
  IN  /\ Len(stack) = left + Len(open)
      /\ \A n \in DOMAIN open :
           LET f == FieldsOf(open, n)
           IN  /\ f.blockStack = open[n].blockStack
               /\ Len(f.importedSymbols) = Len(open[n].scopes)
               /\ {b \in DOMAIN f.blocks : f.blocks[b] = "empty"} = ToSet(f.blockStack)

\* A name that is called resolves to an import made in the block or macro it is
\* called in or in the body of the same template, never to one of a block that
\* was closed, of another macro or of an enclosing template.
CallsResolveInScope ==
  Parsing =>
    LET template == Last(Nesting(pending))
    IN  \A type \in {"template", "function"}, alias \in Aliases :
          \A symbol \in getImportedSymbol(type, alias) :
            symbol.in \in {Head(template.scopes), template.at}

\* The modules that are compiled together, those embedded in a template or in
\* one of them, have indexes of their own: 0 is the template itself.
EmbeddedApart ==
  LET open == Nesting(pending)
      Indexes(n) == FieldsOf(open, n).embeddedTemplates
  IN  \A n \in DOMAIN open :
        /\ IsInjective(Indexes(n)) /\ 0 \notin ToSet(Indexes(n))
        /\ \A m \in DOMAIN open \ {n} : ToSet(Indexes(n)) \cap ToSet(Indexes(m)) = {}

\* What the fields f of a template say, g still says.
Includes(f, g) ==
  /\ f.parent => g.parent
  /\ DOMAIN f.blocks \subseteq DOMAIN g.blocks
  /\ f.macros \subseteq g.macros
  /\ f.traits <= g.traits
  /\ IsPrefix(f.embeddedTemplates, g.embeddedTemplates)

\* What a template has said is not forgotten while it is parsed, whatever is
\* parsed in between: that it has a parent, its blocks, its macros, its traits
\* and the modules embedded in it.
TemplateAccumulates ==
  [][LET open == Nesting(pending)
     IN  \A n \in DOMAIN open \cap DOMAIN open' :
           Includes(FieldsOf(open, n), FieldsOf(open, n)')]_vars

\* getVarName gives a name only once in a template, so that the templates and the
\* filtered blocks it names are kept apart.
NamesGivenOnce ==
  LET open == Nesting(pending)
  IN  \A n \in DOMAIN open : IsInjective(FieldsOf(open, n).names)
=============================================================================
