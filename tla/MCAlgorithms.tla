---------------------------- MODULE MCAlgorithms ----------------------------
(* Small inputs of the algorithms. *)
EXTENDS Algorithms

(* Expressions of two operators, of any kind, over a variable and a number. *)
X == {<<"name", "a">>, <<"constant", "1">>}

Unary(E) == {<<"unary", o, n>> : o \in {"not", "-"}, n \in E}
Binary(L, R) == {<<"binary", o, l, r>> : o \in {"or", "b-and", "==", "..", "+", "~", "*", "**", "??"}, l \in L, r \in R}
Postfix(E) ==
  {<<"filter", "g", n, << >> >> : n \in E}
  \cup {<<"get", n, <<"constant", "b">>, << >>, "any">> : n \in E}
  \cup {<<"get", n, <<"name", "b">>, << >>, "array">> : n \in E}
  \cup {<<"get", n, <<"constant", "b">>, << <<"", <<"name", "a">> >> >>, "method">> : n \in E}
  \cup {<<"test", "t", n, << >> >> : n \in E}
Enclosed(E) ==
  {<<"array", <<n, <<"name", "b">> >> >> : n \in E}
  \cup {<<"hash", << <<n, <<"name", "b">> >> >> >> : n \in E}
  \cup {<<"function", "f", << <<"", n>>, <<"a", n>> >> >> : n \in E}
  \cup {<<"filter", "g", <<"name", "b">>, << <<"", <<"arrow", <<"a", "b">>, n>> >> >> >> : n \in E}

Depth1 == X \cup Unary(X) \cup Binary(X, X) \cup Postfix(X) \cup Enclosed(X)
            \cup {<<"conditional", c, y, n>> : c \in X, y \in X, n \in X}

Operations == Unary(X) \cup Binary(X, X)

MCTrees ==
  Depth1 \cup Binary(Operations, Operations) \cup Unary(Depth1) \cup Binary(Depth1, X) \cup Binary(X, Depth1) \cup Postfix(Depth1) \cup Enclosed(Depth1)
  \cup {<<"conditional", c, <<"name", "a">>, <<"name", "b">> >> : c \in Depth1}
  \cup {<<"conditional", <<"name", "a">>, y, n>> : y \in Depth1, n \in X}
  \cup {<<"conditional", <<"name", "a">>, y, n>> : y \in X, n \in Depth1}

MCTokens == {"a", "f", "(", ")", "[", "]", ":", ",", "+", "not", "**", "|", "g", ".", "?"}

-----------------------------------------------------------------------------
Name(n) == Nd("name", n, << >>)
Const(n) == Nd("constant", n, << >>)
Get(n, m) == Nd("getAttr", None, <<n, m>>)
Filter(name, n, arguments) == Nd("filter", name, <<n>> \o arguments)

Values0 == {Name("a"), Const("c"), Get(Name("_self"), Const("m")), Get(Name("imported"), Const("m")),
            Nd("function", "f", <<Name("a")>>), Nd("parent", None, << >>)}

Filters(E) ==
  {Filter(f, n, << >>) : f \in {"escape", "raw", "nl2br", "upper"}, n \in E}
  \cup {Filter("escape", n, <<Const(s)>>) : s \in {"html", "js", "html_attr"}, n \in E}
  \cup {Filter("escape", n, <<Const("html"), Const("UTF-8")>>) : n \in E}
Conditionals(L, R) == {Nd("conditional", None, <<Name("a"), l, r>>) : l \in L, r \in R}
Few == {Name("a"), Const("c"), Filter("escape", Name("a"), << >>), Filter("raw", Name("a"), << >>)}
Values1 == Values0 \cup Filters(Values0)
Values2 == Values1 \cup Filters(Filters({Name("a"), Const("c")})) \cup Conditionals(Few, Few)
             \cup Conditionals(Conditionals(Few, Few), Few) \cup Filters(Conditionals(Few, Few))
             \cup {Nd(t, None, <<l, r>>) : t \in {"concat", "range"}, l \in Few, r \in Few}

Body(ns) == Nd("body", None, ns)
Echoed(n) == Nd("print", None, <<n>>)
Template(strategy, ns, blocks) == Nd("module", strategy, <<Body(ns)>> \o blocks)

Printing ==
  {Template(s, << Nd("import", "imported", << >>), Echoed(n) >>, << >>) : s \in {Off, "html", "js"}, n \in Values2}
  \cup {Template("html", << Nd("autoescape", s, <<Echoed(n)>>), Echoed(n) >>, << >>) : s \in {Off, "js"}, n \in Values1}
  \cup {Template("html", << Nd("autoescape", s, <<Nd("blockReference", "b", << >>)>>) >>,
                 << Nd("block", "b", <<Echoed(n), Nd("set", None, <<n>>)>>) >>)
          : s \in {Off, "html", "js"}, n \in Values1}

Loop == Name("loop")
Parent == Get(Loop, Const("parent"))
Looking ==
  {Echoed(n) : n \in {Name("a"), Get(Loop, Const("index")), Parent, Get(Get(Parent, Const("loop")), Const("index")),
                     Nd("blockExpression", "b", << >>), Nd("function", "include", <<Const("t")>>),
                     Nd("function", "include", <<Const("t"), Const("with_context=false")>>)}}
  \cup {Nd("include", "t", << >>), Nd("include", "only", << >>), Nd("blockReference", "b", << >>)}
For(ns) == Nd("for", None, <<Name("a"), Body(ns)>>)
Bodies(S) == {<<x>> : x \in S} \cup {<<x, y>> : x \in S, y \in S}
Looping ==
  {Template(Off, <<For(ns)>>, << >>) :
     ns \in Bodies(Looking \cup {For(ms) : ms \in Bodies({x \in Looking : x.type = "print"})})}
  \cup {Template(Off, <<For(<<For(<<For(ns)>>), x>>)>>, << >>) : ns \in Bodies(Looking), x \in Looking}

MCModules == Printing \cup Looping

-----------------------------------------------------------------------------
N(n) == <<"number", n>>
S(text) == <<"string", text>>
Scalars == {<<"boolean", TRUE>>, <<"boolean", FALSE>>, <<"null">>, N(1), N(0), N(-1), N(10),
            S("1"), S("0"), S("-1"), S(""), S("php"), S("10"), S("00"), <<"date", 1>>, <<"date", 2>>}
Lists(V) == {Map(<< >>)} \cup {Map(<< <<k, v>> >>) : k \in {N(0), S("a")}, v \in V}
Pairs(V) == {Map(<< <<N(0), v>>, <<N(1), w>> >>) : v, w \in V}
MCOperands ==
  Scalars \cup Lists(Scalars) \cup Pairs({N(1), S("1"), <<"null">>, <<"boolean", FALSE>>})
  \cup Lists({Map(<< >>), Map(<< <<N(0), S("1")>> >>), Map(<< <<N(0), N(1)>> >>)})

\* Up to five entries, under numbers, names, and names that are numbers. As strings,
\* 10 comes before 9, and is the same as "10".
MapValues == <<N(9), N(10), S("10"), N(1)>>
MCStringOrder == N(9) :> 2 @@ N(10) :> 1 @@ S("10") :> 1 @@ N(1) :> 0
Keys == <<N(3), S("a"), N(0), S("10"), N(7)>>
Arrangements == {<<1>>, <<1, 2>>, <<2, 3>>, <<4, 1, 2>>, <<3, 1, 5, 2>>, <<2, 4, 3, 1, 5>>}
MCMaps ==
  {<< >>} \cup UNION {{[k \in DOMAIN ks |-> <<Keys[ks[k]], MapValues[1 + ((k * p + q) % 4)]>>] : p \in 1..3, q \in 0..1} : ks \in Arrangements}
MCSizes == -2..4

MCObjects ==
  {[kind |-> "null", properties |-> {}, methods |-> {}], [kind |-> "primitive", properties |-> {}, methods |-> {}]}
  \cup {[kind |-> "map", properties |-> ps, methods |-> {}] : ps \in SUBSET {"name", "1", "0"}}
  \cup {[kind |-> k, properties |-> ps, methods |-> ms] : k \in {"plain", "object", "template"},
           ps \in SUBSET {"name", "Bar"}, ms \in SUBSET {"Name", "getName"}}
  \cup {[kind |-> "object", properties |-> {}, methods |-> ms] : ms \in UNION {kSubset(n, ToSet(Members)) : n \in 1..3}}

-----------------------------------------------------------------------------
Val(n) == <<"value", n>>
Simple == {<<"set", "x", Val(1)>>, <<"set", "y", Val(2)>>, <<"show">>}
Sections1(B) ==
  {<<"for", t, vs, b, a>> : t \in {"x", "y"}, vs \in {<< >>, <<Val(3), Val(4)>>}, b \in B, a \in {<< >>, << <<"show">> >>}}
  \cup {<<"with", "x" :> Val(5), only, b>> : only \in BOOLEAN, b \in B}
  \cup {<<"scope", b>> : b \in B}
Shows(B) == {<<s, <<"show">> >> : s \in B}
Twice == {<<s, t, <<"show">> >> : s, t \in Simple \cup Sections1(Shows(Simple))}
SetTwice == {<<s, t, <<"show">> >> : s \in Simple, t \in Simple \cup Sections1(Shows(Simple))}
MCPrograms == Twice \cup Shows(Sections1(SetTwice)) \cup Shows(Sections1(Shows(Sections1(Shows(Sections1(Shows(Simple)))))))

\* Two names that are the same when they are normalised, and one that no callable knows.
Raw == {"a", "A", "b", "z"}
MCNormalizeName == [name \in Raw \cup {"c"} |-> IF name = "A" THEN "a" ELSE name]
MCCalls ==
  UNION {{[k \in 1..n |-> <<names[k], Val(k)>>] : names \in {f \in [1..n -> Raw \cup {Positional}] :
            \A j, k \in 1..n : j # k /\ f[j] = f[k] => f[j] = Positional}} : n \in 0..4}
MCSignatures ==
  UNION {{[k \in 1..n |-> [name |-> <<"a", "b", "c">>[k], optional |-> o[k]]] : o \in [1..n -> BOOLEAN]} : n \in 0..3}

-----------------------------------------------------------------------------
Dynamic == <<"a", "_", "*">>
MCRegisters ==
  {<<Dynamic, <<"a", "_", "x">>, <<"*", "_", "*">> >>, << <<"*", "_", "*">>, Dynamic>>,
   << <<"a", "_", "x">>, <<"*", "_", "*", "_", "*">>, <<"*", "_", "*">> >>}
MCCalled == {<<"a", "_", "x">>, <<"a", "_", "y">>, <<"b", "_">>, <<"a", "_", "x", "_", "y">>}
=============================================================================
