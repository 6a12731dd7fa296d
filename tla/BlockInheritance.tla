-------------------------- MODULE BlockInheritance --------------------------
(***************************************************************************)
(* The display of a template through its inheritance: template.ts display, *)
(* displayBlock, displayParentBlock, renderParentBlock, hasBlock, getBlocks*)
(* and getTraits, and the code that node/module.ts compiles a template to. *)
(*                                                                         *)
(* A template is what the program has written: its parent, the templates   *)
(* it uses as traits, the code of its body and of its blocks.  Code is a   *)
(* sequence of instructions; text is left out.  The promises that the      *)
(* display awaits are the frames of a stack, and each step is what the     *)
(* innermost of them does between two awaits.                              *)
(*                                                                         *)
(* getBlocks and getTraits compute their maps once and keep them; since a  *)
(* template never changes, the maps are there from the start.              *)
(***************************************************************************)
EXTENDS Naturals, Sequences, SequencesExt

CONSTANTS
    Templates,  \* the templates of a program
    Names,      \* the names of blocks
    None,       \* no parent, no definition, no name
    Unclaimed,  \* what a reference stands for is not said
    Libraries,  \* the sets of templates a program may have written
    Displayed,  \* the templates a program displays
    MaxDepth    \* bound: the frames of the stack

(* {% block n %} and block(n); block(n) is defined; block(n, t).           *)
Reference ==
    [op : {"block", "test"}, name : Names]
        \cup [op : {"from"}, name : Names, template : Templates]

(* parent(), printed and as a part of an expression, is in blocks only.    *)
Instruction == Reference \cup [op : {"parent", "parentText"}]

(* Where the handler of a block is found: the name it has in its template. *)
Handler == [template : Templates, name : Names]
BlockMap == UNION {[D -> Handler] : D \in SUBSET Names}

(* {% use t with n as a, ... %}                                            *)
Use == [template : Templates, targets : Seq([name : Names, alias : Names])]

(* What a program may have written.                                        *)
IsLibrary(l) ==
    /\ l.parent \in [Templates -> Templates \cup {None}]
    /\ l.uses \in [Templates -> Seq(Use)]
    /\ l.body \in [Templates -> Seq(Reference)]
    /\ \A t \in Templates :
          /\ DOMAIN l.blocks[t] \subseteq Names
          /\ \A n \in DOMAIN l.blocks[t] : l.blocks[t][n] \in Seq(Instruction)

(* The templates that t extends and uses.                                  *)
Refers(l, t) == {l.parent[t]} \cup {l.uses[t][i].template : i \in DOMAIN l.uses[t]}

(* No template extends or uses itself, directly or through others, and no  *)
(* use gives a block the name of a target that is still to be renamed.     *)
LibraryAssumption ==
    \A l \in Libraries :
        /\ IsLibrary(l)
        /\ \A S \in SUBSET Templates \ {{}} : \E t \in S : Refers(l, t) \cap S = {}
        /\ \A t \in Templates : \A i \in DOMAIN l.uses[t] :
              LET targets == l.uses[t][i].targets
              IN  \A j, k \in DOMAIN targets :
                     j <= k => targets[j].alias # targets[k].name

ASSUME InheritanceAssumption ==
    /\ LibraryAssumption
    /\ None \notin Templates \cup Names \cup Handler \cup BlockMap
    /\ Unclaimed \notin Handler \cup {None}
    /\ Displayed \subseteq Templates /\ MaxDepth \in Nat \ {0}

VARIABLES
    library,    \* parent, uses, body and blocks of each template
    traits,     \* this.traits of each template; None: doGetTraits rejects
    blocks,     \* this.blocks of each template; None: doGetTraits rejects
    inherited,  \* history: the definition of each block for each template
    overridden, \* history: what parent() stands for in each of its blocks
    stack,      \* what the display is waiting for, innermost last
    status      \* how the display has ended

program == <<library, traits, blocks, inherited, overridden>>
vars == <<program, stack, status>>

Parent(t) == library.parent[t]
Code(h) == library.blocks[h.template][h.name]

-----------------------------------------------------------------------------
(* Maps from names to handlers. *)

NoBlocks == [n \in {} |-> None]

(* A mutant of Merge: what the first map has wins.                         *)
MergeBackwards(m1, m2) ==
    [n \in DOMAIN m1 \cup DOMAIN m2 |-> IF n \in DOMAIN m1 THEN m1[n] ELSE m2[n]]

(* merge: what the second map has wins.                                    *)
Merge(m1, m2) ==
    [n \in DOMAIN m1 \cup DOMAIN m2 |-> IF n \in DOMAIN m2 THEN m2[n] ELSE m1[n]]

(* A target of a use: the handler is set under its alias and deleted under *)
(* its name.                                                               *)
Renamed(m, target) ==
    LET set == Merge(m, [n \in {target.alias} |-> m[target.name]])
    IN  [n \in DOMAIN set \ {target.name} |-> set[n]]

(* isTraitable: no parent and no body.                                     *)
Traitable(t) == Parent(t) = None /\ library.body[t] = <<>>

(* The blocks that t gives as a trait under the names of its user, or None *)
(* if it cannot be one or lacks the name of a target.                      *)
Imported(use, m) ==
    LET known[i \in 0 .. Len(use.targets)] ==
            IF i = 0 THEN IF Traitable(use.template) THEN m ELSE None
            ELSE IF known[i - 1] = None \/ use.targets[i].name \notin DOMAIN known[i - 1]
            THEN None ELSE Renamed(known[i - 1], use.targets[i])
    IN  known[Len(use.targets)]

OwnBlocks(t) ==
    [n \in DOMAIN library.blocks[t] |-> [template |-> t, name |-> n]]

(* doGetTraits: the blocks that each use gives are merged in turn.  None   *)
(* if one of them cannot be used.                                          *)
Traits(imported) ==
    LET merged[i \in 0 .. Len(imported)] ==
            IF i = 0 THEN NoBlocks
            ELSE IF merged[i - 1] = None \/ imported[i] = None THEN None
            ELSE Merge(merged[i - 1], imported[i])
    IN  merged[Len(imported)]

(* They are those of t, given the blocks of all templates.                 *)
TraitsFrom(t, blocksOf) ==
    Traits([i \in DOMAIN library.uses[t] |->
                LET use == library.uses[t][i]
                IN  IF blocksOf[use.template] = None THEN None
                    ELSE Imported(use, blocksOf[use.template])])

(* getBlocks: the traits, and over them the blocks of the template itself. *)
BlocksOf[t \in Templates] ==
    LET imported == TraitsFrom(t, BlocksOf)
    IN  IF imported = None THEN None ELSE Merge(imported, OwnBlocks(t))

-----------------------------------------------------------------------------
(* What the documentation says of inheritance and of horizontal reuse.     *)

LastOf(S) == CHOOSE i \in S : \A j \in S : j <= i

(* The name that a use gives the block n by, or None.                      *)
NameInTrait(use, n) ==
    LET aliased == {i \in DOMAIN use.targets : use.targets[i].alias = n}
        renamed == {i \in DOMAIN use.targets : use.targets[i].name = n}
    IN  IF aliased # {} THEN use.targets[LastOf(aliased)].name
        ELSE IF renamed # {} THEN None ELSE n

(* The definition of n that t has imported, given those of all templates:  *)
(* the last use that gives one counts.                                     *)
ImportedBy(t, n, definition) ==
    LET given == [i \in DOMAIN library.uses[t] |->
                      LET use == library.uses[t][i]
                          name == NameInTrait(use, n)
                      IN  IF name = None THEN None
                          ELSE definition[use.template][name]]
        giving == {i \in DOMAIN given : given[i] # None}
    IN  IF giving = {} THEN None ELSE given[LastOf(giving)]

(* The definition of a block in a template: the one it has written; an     *)
(* imported one is then "ignored" (use.md).                                *)
Definition[t \in Templates] ==
    [n \in Names |-> IF n \in DOMAIN library.blocks[t]
                     THEN [template |-> t, name |-> n]
                     ELSE ImportedBy(t, n, Definition)]

(* The definition of a block for a template: its own, or its parent's.     *)
InheritedBy[t \in Templates] ==
    [n \in Names |-> IF Definition[t][n] # None \/ Parent(t) = None
                     THEN Definition[t][n] ELSE InheritedBy[Parent(t)][n]]

(* What parent() stands for in a block: the definition it overrides, one   *)
(* imported by its template or one that the parent has.                    *)
Overridden(t, n) ==
    LET imported == ImportedBy(t, n, Definition)
    IN  IF imported # None \/ Parent(t) = None THEN imported
        ELSE InheritedBy[Parent(t)][n]

(* What a reference stands for in the code of t when root is displayed:    *)
(* "a child template may override those portions" (extends.md).            *)
Referred(root, t, n) ==
    IF inherited[root][n] # None THEN inherited[root][n] ELSE inherited[t][n]

-----------------------------------------------------------------------------
(* The frames. *)

(* display runs doDisplay, "body"; block is displayBlock, which runs a     *)
(* "handler"; parent is displayParentBlock; test is hasBlock, and yes and  *)
(* no its answers.                                                         *)
Kinds == {"display", "body", "block", "handler", "parent", "test", "yes", "no"}

(* known is the argument blocks, and use useBlocks.  The history: root is  *)
(* the template that is displayed, None below a call that the properties   *)
(* make no claim about; expected is what the reference that has led here   *)
(* stands for.                                                             *)
Frame(kind, t, n, known) ==
    [kind |-> kind, template |-> t, name |-> n, known |-> known, use |-> TRUE,
     code |-> <<>>, root |-> None, expected |-> Unclaimed]

Top == Last(stack)
Becomes(frame) == stack' = Append(Front(stack), frame) /\ UNCHANGED status
Fails == status' = "failed" /\ UNCHANGED stack

Running(op) ==
    /\ status = "displaying" /\ Top.kind \in {"body", "handler"}
    /\ Top.code # <<>> /\ Head(Top.code).op = op
    /\ Len(stack) < MaxDepth

Instr == Head(Top.code)

(* The code goes on after its next instruction once the frame is done.     *)
Calls(frame) ==
    /\ stack' = Append(Append(Front(stack), [Top EXCEPT !.code = Tail(@)]), frame)
    /\ UNCHANGED <<program, status>>

Claimed(n) == IF Top.root = None THEN Unclaimed
              ELSE Referred(Top.root, Top.template, n)

(* The body of a template that has a parent runs before the blocks of its  *)
(* ancestors are known.                                                    *)
RootBelow == IF Top.kind = "body" /\ Parent(Top.template) # None THEN None
             ELSE Top.root

Init ==
    /\ library \in Libraries
    /\ traits = [t \in Templates |-> TraitsFrom(t, BlocksOf)]
    /\ blocks = [t \in Templates |-> BlocksOf[t]]
    /\ inherited = [t \in Templates |-> [n \in Names |-> InheritedBy[t][n]]]
    /\ overridden = [t \in Templates |-> [n \in Names |-> Overridden(t, n)]]
    /\ \E t \in Displayed :
          stack = <<[Frame("display", t, None, NoBlocks) EXCEPT !.root = t]>>
    /\ status = "displaying"

-----------------------------------------------------------------------------
(* The instructions. *)

(* {% block n %}, block(n): this.displayBlock(n, context, blocks).         *)
Refer ==
    /\ Running("block")
    /\ Calls([Frame("block", Top.template, Instr.name, Top.known) EXCEPT
                 !.root = RootBelow, !.expected = Claimed(Instr.name)])

(* block(n, t): t is loaded, and no block is given to it.                  *)
ReferFrom ==
    /\ Running("from")
    /\ Calls([Frame("block", Instr.template, Instr.name, NoBlocks) EXCEPT
                 !.expected = inherited[Instr.template][Instr.name]])

(* {{ parent() }}: displayParentBlock.                                     *)
CallParent ==
    /\ Running("parent")
    /\ Calls([Frame("parent", Top.template, Top.name, Top.known) EXCEPT
                 !.root = Top.root,
                 !.expected = overridden[Top.template][Top.name]])

(* parent() elsewhere: renderParentBlock, which replaces the blocks it is  *)
(* given by those of its own template.                                     *)
RenderParent ==
    /\ Running("parentText")
    /\ Calls([Frame("parent", Top.template, Top.name, blocks[Top.template])
                 EXCEPT !.expected = overridden[Top.template][Top.name]])

(* block(n) is defined.                                                    *)
TestDefined ==
    /\ Running("test")
    /\ Calls([Frame("test", Top.template, Instr.name, Top.known) EXCEPT
                 !.expected = Claimed(Instr.name)])

-----------------------------------------------------------------------------
(* The methods. *)

At(kind) == status = "displaying" /\ Top.kind = kind /\ UNCHANGED program

Own == blocks[Top.template]

(* display: the blocks given by the children win over those of the         *)
(* template.                                                               *)
Display ==
    /\ At("display")
    /\ IF Own = None THEN status' = "unusable" /\ UNCHANGED stack
       ELSE Becomes([Top EXCEPT !.kind = "body", !.known = Merge(Own, @),
                                !.code = library.body[Top.template]])

(* doDisplay, after the body: the parent is displayed with what is known.  *)
EndBody ==
    /\ At("body") /\ Top.code = <<>>
    /\ IF Parent(Top.template) # None
       THEN Becomes([Top EXCEPT !.kind = "display",
                                !.template = Parent(Top.template),
                                !.known = Merge(Own, @)])
       ELSE stack' = Front(stack) /\ status' = "displayed"

EndHandler ==
    /\ At("handler") /\ Top.code = <<>>
    /\ stack' = Front(stack) /\ UNCHANGED status

(* The handler of displayBlock, or None.                                   *)
Found ==
    IF Top.use /\ Top.name \in DOMAIN Top.known THEN Top.known[Top.name]
    ELSE IF Top.name \in DOMAIN Own THEN Own[Top.name] ELSE None

(* A mutant of DisplayBlock: the parent uses the blocks it is given.       *)
DisplayBlockUsing ==
    /\ At("block")
    /\ IF Own = None THEN status' = "unusable" /\ UNCHANGED stack
       ELSE IF Found # None
       THEN Becomes([Top EXCEPT !.kind = "handler", !.template = Found.template,
                                !.name = Found.name, !.code = Code(Found)])
       ELSE IF Parent(Top.template) # None
       THEN Becomes([Top EXCEPT !.template = Parent(Top.template), !.use = TRUE,
                                !.known = Merge(Own, @)])
       ELSE Fails

DisplayBlock ==
    /\ At("block")
    /\ IF Own = None THEN status' = "unusable" /\ UNCHANGED stack
       ELSE IF Found # None
       THEN Becomes([Top EXCEPT !.kind = "handler", !.template = Found.template,
                                !.name = Found.name, !.code = Code(Found)])
       ELSE IF Parent(Top.template) # None
       THEN Becomes([Top EXCEPT !.template = Parent(Top.template), !.use = FALSE,
                                !.known = Merge(Own, @)])
       ELSE Fails

(* A mutant of DisplayParentBlock: the block is looked for as any other.   *)
DisplayParentBlockUsing ==
    LET imported == traits[Top.template]
    IN  /\ At("parent")
        /\ IF Top.name \in DOMAIN imported
           THEN Becomes([Top EXCEPT !.kind = "block",
                                    !.template = imported[Top.name].template,
                                    !.name = imported[Top.name].name])
           ELSE IF Parent(Top.template) # None
           THEN Becomes([Top EXCEPT !.kind = "block",
                                    !.template = Parent(Top.template)])
           ELSE Fails

(* displayParentBlock: what the children have defined is not looked at.    *)
DisplayParentBlock ==
    LET imported == traits[Top.template]
    IN  /\ At("parent")
        /\ IF Top.name \in DOMAIN imported
           THEN Becomes([Top EXCEPT !.kind = "block", !.use = FALSE,
                                    !.template = imported[Top.name].template,
                                    !.name = imported[Top.name].name])
           ELSE IF Parent(Top.template) # None
           THEN Becomes([Top EXCEPT !.kind = "block", !.use = FALSE,
                                    !.template = Parent(Top.template)])
           ELSE Fails

(* A mutant of HasBlock: parents are not asked.                            *)
HasBlockHere ==
    /\ At("test")
    /\ IF Own = None THEN status' = "unusable" /\ UNCHANGED stack
       ELSE Becomes([Top EXCEPT !.kind =
                        IF Top.name \in DOMAIN Top.known \cup DOMAIN Own
                        THEN "yes" ELSE "no"])

(* hasBlock: the given blocks, the template, its parent given no block.    *)
HasBlock ==
    /\ At("test")
    /\ IF Top.name \in DOMAIN Top.known THEN Becomes([Top EXCEPT !.kind = "yes"])
       ELSE IF Own = None THEN status' = "unusable" /\ UNCHANGED stack
       ELSE IF Top.name \in DOMAIN Own THEN Becomes([Top EXCEPT !.kind = "yes"])
       ELSE IF Parent(Top.template) # None
       THEN Becomes([Top EXCEPT !.template = Parent(Top.template),
                                !.known = NoBlocks])
       ELSE Becomes([Top EXCEPT !.kind = "no"])

(* The answer is given to the code that has asked.                         *)
Answer ==
    /\ status = "displaying" /\ Top.kind \in {"yes", "no"}
    /\ stack' = Front(stack)
    /\ UNCHANGED <<program, status>>

Next ==
    \/ Refer \/ ReferFrom \/ CallParent \/ RenderParent \/ TestDefined
    \/ Display \/ EndBody \/ EndHandler
    \/ DisplayBlock \/ DisplayParentBlock \/ HasBlock \/ Answer

(* Callbacks of promises that are settled are run.                         *)
Spec == Init /\ [][Next]_vars /\ WF_vars(Next)

-----------------------------------------------------------------------------

(* Type invariant; a display that goes on waits for something.             *)
TypeOK ==
    /\ status \in {"displaying", "displayed", "failed", "unusable"}
    /\ Len(stack) <= MaxDepth
    /\ (stack = <<>>) <=> (status = "displayed")
    /\ \A i \in DOMAIN stack :
          LET f == stack[i]
          IN  /\ f.kind \in Kinds /\ f.template \in Templates
              /\ f.name \in IF f.kind \in {"display", "body"} THEN {None} ELSE Names
              /\ DOMAIN f.known \subseteq Names
              /\ \A n \in DOMAIN f.known : f.known[n] \in Handler
              /\ f.code \in Seq(Instruction) /\ f.use \in BOOLEAN
              /\ f.root \in Displayed \cup {None}
              /\ f.expected \in Handler \cup {None, Unclaimed}

(* Every reference displays the definition it stands for: the child's over *)
(* its parent's, a written one over an imported one, the overridden one for*)
(* parent(), through any chain of parents, traits and aliases; and it fails*)
(* only if there is none (displayBlock, displayParentBlock).               *)
DispatchIsRight ==
    /\ \A i \in DOMAIN stack :
          stack[i].kind = "handler" /\ stack[i].expected # Unclaimed =>
              [template |-> stack[i].template, name |-> stack[i].name]
                  = stack[i].expected
    /\ status = "failed" => Top.expected \in {None, Unclaimed}

(* A test answers whether the reference would be displayed (hasBlock).     *)
TestIsRight ==
    \A i \in DOMAIN stack :
        stack[i].kind \in {"yes", "no"} /\ stack[i].expected # Unclaimed =>
            (stack[i].kind = "yes" <=> stack[i].expected # None)

(* The blocks that a handler is given are the resolved inheritance of the  *)
(* template that is displayed, however many templates, parent() calls and  *)
(* references lie between the two: blocks are merged on the way up, and a  *)
(* handler displays its own references with them.                          *)
KnownIsResolved ==
    \A i \in DOMAIN stack :
        stack[i].kind = "handler" /\ stack[i].root # None =>
            \A n \in Names :
                IF n \in DOMAIN stack[i].known
                THEN stack[i].known[n] = inherited[stack[i].root][n]
                ELSE inherited[stack[i].root][n] = None

(* If no block refers to itself, the walks up the chain and the calls of   *)
(* parent() come to an end, and so does the display.                       *)
Terminates == <>(status # "displaying")

=============================================================================
