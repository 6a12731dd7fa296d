------------------------- MODULE MCBlockInheritance -------------------------
(* Small instances of BlockInheritance: a child, the template it extends,  *)
(* the one that this extends, and a trait, with two blocks.                *)
EXTENDS BlockInheritance, TLC

CONSTANTS child, middle, base, trait, x, y

MCTemplates == {child, middle, base, trait}
MCNames == {x, y}
MCDisplayed == {child}

Block(n) == [op |-> "block", name |-> n]
Test(n) == [op |-> "test", name |-> n]
From(n, t) == [op |-> "from", name |-> n, template |-> t]
Parents == {[op |-> "parent"], [op |-> "parentText"]}

(* The blocks of a template, given the codes that x and y may have: x may  *)
(* refer to y, but not y to x, and no block to itself.                     *)
BlockSets(xs, ys) ==
    LET with(n, codes) == {n :> code : code \in codes}
    IN  {NoBlocks} \cup with(x, xs) \cup with(y, ys)
            \cup {a @@ b : a \in with(x, xs), b \in with(y, ys)}

(* A template that has a parent may call parent().                         *)
ChildBlocks == BlockSets({<<p, Block(y)>> : p \in Parents},
                         {<<[op |-> "parent"]>>})
MiddleBlocks == BlockSets({<<Block(y)>>, <<[op |-> "parent"]>>},
                          {<<>>, <<[op |-> "parent"]>>})
RootBlocks == BlockSets({<<Block(y)>>}, {<<>>})

Trait == [template |-> trait, targets |-> <<>>]
TraitAliased == [template |-> trait, targets |-> <<[name |-> y, alias |-> x]>>]
Uses == {<<>>, <<Trait>>, <<TraitAliased>>, <<Trait, TraitAliased>>}

ParentMaps ==
    {child :> middle @@ middle :> base @@ base :> None @@ trait :> None}

Bodies ==
    {child :> c @@ middle :> <<>> @@ base :> b @@ trait :> <<>> :
        c \in {<<>>, <<Test(y), Block(x)>>}, b \in {<<Test(y), Block(x), From(x, middle)>>}}

MCLibraries ==
    {[parent |-> p, body |-> body,
      uses |-> child :> u @@ middle :> v @@ base :> <<>> @@ trait :> <<>>,
      blocks |-> child :> c @@ middle :> m @@ base :> b @@ trait :> t] :
        p \in ParentMaps, body \in Bodies, u \in {<<>>, <<TraitAliased>>},
        v \in Uses, c \in ChildBlocks, m \in MiddleBlocks, b \in RootBlocks,
        t \in RootBlocks}

=============================================================================
