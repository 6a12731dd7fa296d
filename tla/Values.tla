------------------------------- MODULE Values -------------------------------
(***************************************************************************)
(* What the operators and filters of the core extension do to values:      *)
(* loose comparison and the attributes of objects (src/lib/helpers).       *)
(***************************************************************************)
EXTENDS Integers, Sequences, FiniteSets, SequencesExt, Arrangements

Map(entries) == <<"map", entries>>
Entries(v) == v[2]
IsMap(v) == v[1] = "map"

\* parseFloat; a string that is not here is not a number.
Float(text) == IF text \in DOMAIN Floats THEN Floats[text] ELSE 0
IsFloat(text) == text \in DOMAIN Floats

\* Strings of no more than a character.
Short == {"", "1", "0"}

-----------------------------------------------------------------------------
(* compare: the operators == and !=, and the test of `in` *)

RECURSIVE compare(_, _)

compareToMap(first, second) ==
  IF first[2] = << >> THEN second \in {<<"boolean", FALSE>>, <<"null">>} \/ (IsMap(second) /\ second[2] = << >>)
  ELSE \/ second = <<"boolean", TRUE>>
       \/ /\ IsMap(second) /\ Len(first[2]) = Len(second[2])
          /\ \A k \in DOMAIN first[2] : compare(first[2][k][2], ValueAt(second[2], first[2][k][1]))

compareToBoolean(first, second) ==
  CASE second[1] = "boolean" -> first = second
    [] second[1] = "number" -> first[2] = (second[2] # 0)
    [] second[1] = "string" -> IF second[2] \notin Short THEN first[2]
                               ELSE first[2] = (IF IsFloat(second[2]) THEN Float(second[2]) # 0 ELSE second[2] # "")
    [] second[1] = "null" -> ~first[2]
    [] second[1] = "map" -> first[2] = (second[2] # << >>)
    [] OTHER -> FALSE

\* A mutant of compareToNull: an empty map is not null.
compareToNullNoMap(value) ==
  value \in {<<"boolean", FALSE>>, <<"number", 0>>, <<"string", "">>, <<"null">>}

compareToNull(value) ==
  \/ value \in {<<"boolean", FALSE>>, <<"number", 0>>, <<"string", "">>, <<"null">>}
  \/ IsMap(value) /\ value[2] = << >>

compareToNumber(first, second) ==
  CASE second[1] = "number" -> first = second
    [] second[1] = "boolean" -> (first[2] # 0) = second[2]
    [] second[1] = "null" -> first[2] = 0
    [] second[1] = "string" -> first[2] = Float(second[2])
    [] OTHER -> FALSE

compareToString(first, second) ==
  CASE second[1] = "string" -> first = second
    [] second[1] = "boolean" -> IF first[2] \in {"", "0"} THEN ~second[2] ELSE second[2]
    [] second[1] = "null" -> first[2] = ""
    [] second[1] = "number" -> second[2] = Float(first[2])
    [] OTHER -> FALSE

compareToDateTime(first, second) == second[1] = "date" /\ first[2] = second[2]

compare(first, second) ==
  CASE IsMap(first) -> compareToMap(first, second)
    [] first[1] = "string" -> compareToString(first, second)
    [] first[1] = "number" -> compareToNumber(first, second)
    [] first[1] = "boolean" -> compareToBoolean(first, second)
    [] first[1] = "date" -> compareToDateTime(first, second)
    [] first[1] = "null" -> compareToNull(second)
    [] OTHER -> first = second

\* The loose equality of PHP, which the tables in compare.ts spell out: with a
\* boolean or null, both sides are turned into booleans (null and a string, into
\* strings); with a number, a string is a number; a date is only like a date.
Truthy(v) == ~(v[1] = "null" \/ v \in {<<"boolean", FALSE>>, <<"number", 0>>, <<"string", "">>, <<"string", "0">>, Map(<< >>)})

RECURSIVE Loose(_, _)
Loose(a, b) ==
  LET types == {a[1], b[1]}
  IN  IF types = {"null", "string"} THEN <<"string", "">> \in {a, b}
      ELSE IF "date" \in types THEN a = b
      ELSE IF types \cap {"boolean", "null"} # {} THEN Truthy(a) = Truthy(b)
      ELSE IF types = {"number", "string"} THEN LET n(v) == IF v[1] = "string" THEN Float(v[2]) ELSE v[2] IN n(a) = n(b)
      ELSE IF types = {"map"}
      THEN /\ ToSet(KeysOf(a[2])) = ToSet(KeysOf(b[2]))
           /\ \A key \in ToSet(KeysOf(a[2])) : Loose(ValueAt(a[2], key), ValueAt(b[2], key))
      ELSE a = b

-----------------------------------------------------------------------------
(* getAttribute *)

\* What is asked for: a name, or a number or a boolean.  The methods of an object
\* are listed in the order of sort().
Members == <<"NAME", "Name", "get", "getBar", "getNAME", "getName", "hasBar", "hasName", "is", "isName", "name">>
Lower ==
  [w \in ToSet(Members) |->
     CASE w \in {"NAME", "Name"} -> "name" [] w = "getBar" -> "getbar" [] w \in {"getNAME", "getName"} -> "getname"
       [] w = "hasBar" -> "hasbar" [] w = "hasName" -> "hasname" [] w = "isName" -> "isname" [] OTHER -> w]
  @@ [w \in {"bar", "Bar", "BAR"} |-> "bar"]
Without(prefix) ==
  [w \in {v \in ToSet(Members) : prefix = CASE v \in {"get", "getBar", "getNAME", "getName"} -> "get"
                                          [] v \in {"is", "isName"} -> "is"
                                          [] v \in {"hasBar", "hasName"} -> "has" [] OTHER -> "none"} |->
     CASE w \in {"get", "is"} -> "" [] w = "getNAME" -> "NAME" [] w \in {"getBar", "hasBar"} -> "Bar" [] OTHER -> "Name"]
IsName(item) == item \in DOMAIN Lower

\* The methods by the names they are called by: their own, also in lower case,
\* and without get, is or has.
Prefixed(w, methods) ==
  CASE w \in DOMAIN Without("get") -> Without("get")[w]
    [] w \in DOMAIN Without("is") -> Without("is")[w]
    [] w \in DOMAIN Without("has") /\ ~\E m \in methods : Lower[m] = "is" \o Lower[Without("has")[w]] -> Without("has")[w]
    [] OTHER -> ""

Candidates(methods) ==
  LET step(c, w) ==
        LET own == (w :> w) @@ (Lower[w] :> w) @@ c
            name == Prefixed(w, methods)
        IN  IF w \notin methods THEN c
            ELSE IF name = "" THEN own
            ELSE own @@ (name :> w) @@ (Lower[name] :> w)
  IN  FoldLeft(step, << >>, Members)

Missing == [gives |-> "missing"]     \* null, an error with strict_variables
Broken == [gives |-> "error"]
Gives(what, name) == [gives |-> what, name |-> name]

\* What a member of an object is: the object is null, a primitive, a map, a plain
\* object, an object of a class or a template, and it is asked for a member in any
\* way, as an array or as a method.
Access(object, item, type) ==
  LET arrayItem == IF item = "true" THEN "1" ELSE item
      candidates == Candidates(object.methods)
      elements == CASE object.kind = "map" -> object.properties
                    [] object.kind = "plain" -> object.properties \cup object.methods
                    [] OTHER -> {}
  IN  IF type # "method" /\ arrayItem \in elements THEN Gives("element", arrayItem)
      ELSE IF type = "array" \/ object.kind \in {"map", "null", "primitive"} THEN Missing
      ELSE IF object.kind = "template" THEN Broken
      ELSE IF type = "any" /\ item \in object.properties THEN Gives("property", item)
      ELSE IF item \in DOMAIN candidates THEN Gives("method", candidates[item])
      ELSE IF ~IsName(item) THEN Broken
      ELSE IF Lower[item] \in DOMAIN candidates THEN Gives("method", candidates[Lower[item]])
      ELSE Missing

\* A mutant of getAttribute: the defined test does not see methods.
getAttributeProperties(object, item, type, isDefinedTest, strict) ==
  LET found == Access(object, item, type)
  IN  IF found = Broken THEN <<"throws", "error">>
      ELSE IF isDefinedTest THEN <<"boolean", found.gives \in {"element", "property"}>>
      ELSE IF found # Missing THEN <<"value", found>>
      ELSE IF strict THEN <<"throws", "runtime error">>
      ELSE Undefined

getAttribute(object, item, type, isDefinedTest, strict) ==
  LET found == Access(object, item, type)
  IN  IF found = Broken THEN <<"throws", "error">>
      ELSE IF isDefinedTest THEN <<"boolean", found # Missing>>
      ELSE IF found # Missing THEN <<"value", found>>
      ELSE IF strict THEN <<"throws", "runtime error">>
      ELSE Undefined
=============================================================================
