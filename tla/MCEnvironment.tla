--------------------------- MODULE MCEnvironment ----------------------------
EXTENDS Environment, TLC

Filter(name) == [kind |-> "filter", name |-> name]
Test(name) == [kind |-> "test", name |-> name]
Visitor(name) == [kind |-> "visitor", name |-> name]

\* One extension with a visitor and a filter, one with a test of the same name and
\* one with a filter of the same name.
MCProvides == [one |-> <<Visitor("v"), Filter("f")>>, test |-> <<Test("f")>>, other |-> <<Filter("f")>>]
MCDirect == {Filter("f")}

\* Renders are interchangeable.
Symmetry == Permutations(Renders)
=============================================================================
