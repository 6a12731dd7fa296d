------------------------------- MODULE Slices -------------------------------
(***************************************************************************)
(* Maps, and the slice filter on maps and on strings                       *)
(* (src/lib/helpers/slice.ts).                                             *)
(*                                                                         *)
(* A value is a tuple that begins with its type.  A map is the sequence of *)
(* its entries <<key, value>> in insertion order, each key once.           *)
(***************************************************************************)
EXTENDS Integers, Sequences, FiniteSets, LastCall

CONSTANTS
  Maps, Sizes   \* the maps, windows and batches of the filters

\* A key is in a map once.
ASSUME SlicesAssumption ==
  /\ \A m \in Maps :
       /\ m \in Seq({m[k] : k \in DOMAIN m})
       /\ \A k \in DOMAIN m : m[k] = <<m[k][1], m[k][2]>>
       /\ \A j, k \in DOMAIN m : m[j][1] = m[k][1] => j = k
  /\ Sizes \subseteq Int

KeysOf(entries) == [k \in DOMAIN entries |-> entries[k][1]]
ValuesOf(entries) == [k \in DOMAIN entries |-> entries[k][2]]
HasKey(entries, key) == \E k \in DOMAIN entries : entries[k][1] = key
IsNumber(key) == key[1] = "number"

\* Map.prototype.set: an entry that is there keeps its place.
SetEntry(entries, key, value) ==
  IF HasKey(entries, key)
  THEN [k \in DOMAIN entries |-> IF entries[k][1] = key THEN <<key, value>> ELSE entries[k]]
  ELSE Append(entries, <<key, value>>)

-----------------------------------------------------------------------------

\* An entry that is in the window. If keys are not preserved, numbers are counted
\* from 0 on.
Keep(s, entry, preserveKeys) ==
  LET number == IsNumber(entry[1])
      key == IF number /\ ~preserveKeys THEN <<"number", s.keyIndex>> ELSE entry[1]
  IN  [result |-> SetEntry(s.result, key, entry[2]), keyIndex |-> IF number THEN s.keyIndex + 1 ELSE s.keyIndex]

\* The loop, with what it has after so many entries; that it stops after the last
\* one makes no difference.
Sliced(entries, from, length, preserveKeys) ==
  LET sliced[n \in 0 .. Len(entries)] ==
        IF n = 0 THEN [result |-> << >>, keyIndex |-> 0]
        ELSE IF n - 1 >= from /\ n - 1 < from + length THEN Keep(sliced[n - 1], entries[n], preserveKeys)
        ELSE sliced[n - 1]
  IN  sliced[Len(entries)].result

\* A mutant of slice: the start is not counted from the end.
sliceFromZero(entries, start, length, preserveKeys) == Sliced(entries, start, length, preserveKeys)

slice(entries, start, length, preserveKeys) ==
  Sliced(entries, IF start < 0 THEN Len(entries) + start ELSE start, length, preserveKeys)

\* A length is <<n>>, or << >> if none is given.
LengthOr(length, rest) == IF length = << >> THEN rest ELSE length[1]

\* The slice filter, on a map and (String.prototype.substr) on a string, here the
\* sequence of its characters.
sliceFilter(entries, start, length, preserveKeys) ==
  slice(entries, start, LengthOr(length, Len(entries) - start), preserveKeys)

sliceString(text, start, length) ==
  LET from == IF start < 0 THEN (IF Len(text) + start > 0 THEN Len(text) + start ELSE 0) ELSE start
      to == from + LengthOr(length, Len(text) - start)
  IN  SubSeq(text, from + 1, IF to > Len(text) THEN Len(text) ELSE to)

Slicing ==
  \E m \in Maps, start \in Sizes, length \in {<< >>} \cup {<<n>> : n \in Sizes}, preserveKeys \in BOOLEAN :
    call' = [of |-> "sliced", map |-> m, start |-> start, length |-> length, preserveKeys |-> preserveKeys,
             result |-> sliceFilter(m, start, length, preserveKeys), text |-> sliceString(ValuesOf(m), start, length)]

\* Maps are sliced, among whatever else happens.
SlicingSpec == call.of # "sliced" /\ [][Slicing \/ call'.of # "sliced"]_call

-----------------------------------------------------------------------------

\* The positions docs/language-reference/filters/slice.md gives for a length that
\* is not negative.
Window(n, start, length) ==
  LET from == IF start < 0 THEN n + start ELSE start
  IN  {k \in 1..n : k > from /\ k <= from + LengthOr(length, n)}

\* What is at these positions of a whole is in the part, and nothing else, in the
\* same order.
PlaceIn(window, k) == Cardinality({j \in window : j <= k})
IsPart(part, whole, window) ==
  /\ Len(part) = Cardinality(window)
  /\ \A k \in window : part[PlaceIn(window, k)] = whole[k]

\* A slice is the window that was asked for, of a map as of a string, as long as
\* its start is in the map and its length is not negative; no entry of it is lost
\* to another with the same key, and an entry has its own key where that is not
\* counted anew (slice.ts).
SliceIsWindow ==
  (call.of = "sliced" /\ call.start >= -Len(call.map) /\ LengthOr(call.length, 0) >= 0) =>
    LET window == Window(Len(call.map), call.start, call.length)
    IN  /\ IsPart(ValuesOf(call.result), ValuesOf(call.map), window)
        /\ IsPart(call.text, ValuesOf(call.map), window)
        /\ \A j, k \in DOMAIN call.result : call.result[j][1] = call.result[k][1] => j = k
        /\ \A k \in window :
             call.preserveKeys \/ ~IsNumber(call.map[k][1]) => call.result[PlaceIn(window, k)][1] = call.map[k][1]
=============================================================================
