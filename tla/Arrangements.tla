---------------------------- MODULE Arrangements ----------------------------
(***************************************************************************)
(* The filters that arrange the items of a map: batch, merge, reverse and  *)
(* sort (src/lib/helpers).                                                 *)
(***************************************************************************)
EXTENDS Slices

CONSTANT
  StringOrder   \* the place of a value in the order of what values are as strings

\* Values may be anything but NaN, which indexOf does not find, and values that differ may be the same as strings.  A key
\* that is not a string is an integer.
ASSUME ArrangementsAssumption ==
  \A m \in Maps : \A k \in DOMAIN m :
    /\ StringOrder[m[k][2]] \in Int
    /\ m[k][1][1] \in {"number", "string"} /\ m[k][1] = <<m[k][1][1], m[k][1][2]>>
    /\ IsNumber(m[k][1]) => m[k][1][2] \in Int

Undefined == <<"undefined">>
ValueAt(entries, key) ==
  IF HasKey(entries, key) THEN entries[CHOOSE k \in DOMAIN entries : entries[k][1] = key][2] ELSE Undefined

\* The strings of the models that are numbers.
Floats == [text \in {"1", "0", "-1", "10", "00"} |->
             CASE text = "1" -> 1 [] text = "-1" -> -1 [] text = "10" -> 10 [] OTHER -> 0]

\* Map.prototype.set, for each of more.
SetAll(entries, more) ==
  LET with[n \in 0 .. Len(more)] == IF n = 0 THEN entries ELSE SetEntry(with[n - 1], more[n][1], more[n][2])
  IN  with[Len(more)]

-----------------------------------------------------------------------------
(* batch *)

\* An entry goes to the chunk that is open, or to a new one, which is closed when
\* it is full.
PutInChunk(s, entry, size, preserveKeys) ==
  LET chunks == IF s.open THEN s.chunks ELSE Append(s.chunks, << >>)
      key == IF preserveKeys THEN entry[1] ELSE <<"number", s.count>>
      full == s.count + 1 >= size
  IN  [chunks |-> [chunks EXCEPT ![Len(chunks)] = SetEntry(@, key, entry[2])],
       count |-> IF full THEN 0 ELSE s.count + 1, open |-> ~full]

chunk(entries, size, preserveKeys) ==
  LET chunked[n \in 0 .. Len(entries)] ==
        IF n = 0 THEN [chunks |-> << >>, count |-> 0, open |-> FALSE]
        ELSE PutInChunk(chunked[n - 1], entries[n], size, preserveKeys)
  IN  chunked[Len(entries)].chunks

\* Number(key), for the keys that are integers then.
IsInteger(key) == IsNumber(key) \/ key[2] \in DOMAIN Floats
NumberOf(key) == IF IsNumber(key) THEN key[2] ELSE Floats[key[2]]
Numeric(entries) == {NumberOf(entries[k][1]) : k \in {j \in DOMAIN entries : IsInteger(entries[j][1])}}
GreatestOr(S, none) == IF S = {} THEN none ELSE CHOOSE x \in S : \A y \in S : x >= y

FillFrom(entries, start, size, value) ==
  IF size <= Len(entries) THEN entries
  ELSE SetAll(entries, [i \in 1 .. size - Len(entries) |-> << <<"number", start + i - 1>>, value>>])

\* A mutant of fill: what is missing is counted from 0.
fillFromZero(entries, size, value) == FillFrom(entries, 0, size, value)

fill(entries, size, value) == FillFrom(entries, GreatestOr(Numeric(entries), -1) + 1, size, value)

batch(entries, size, filling, preserveKeys) ==
  LET chunks == chunk(entries, size, preserveKeys)
  IN  IF filling = <<"null">> \/ chunks = << >> THEN chunks
      ELSE [chunks EXCEPT ![Len(chunks)] = fill(@, size, filling)]

Batched(m, size, filling, preserveKeys) ==
  [of |-> "batched", map |-> m, size |-> size, filling |-> filling, preserveKeys |-> preserveKeys,
   result |-> batch(m, size, filling, preserveKeys)]

Batching ==
  \E m \in Maps, size \in Sizes, filling \in {<<"null">>, <<"string", "filling">>}, preserveKeys \in BOOLEAN :
    call' = Batched(m, size, filling, preserveKeys)

-----------------------------------------------------------------------------
(* merge, reverse and sort *)

\* The loop is that of slice, over one map and then the other, without a window.
merge(first, second) == Sliced(first \o second, 0, Len(first \o second), FALSE)

reverse(entries, preserveKeys) ==
  LET n == Len(entries)
  IN  SetAll(<< >>, [k \in 1..n |-> <<IF preserveKeys THEN entries[n + 1 - k][1] ELSE <<"number", k - 1>>,
                                      entries[n + 1 - k][2]>>])

\* Array.prototype.sort, without a comparison: values are in the order of their
\* strings, and where those are equal, as they were. indexOf finds the first of
\* those that are equal.
Precedes(entries, j, k) ==
  LET order(i) == StringOrder[entries[i][2]]
  IN  \/ order(j) < order(k)
      \/ order(j) = order(k) /\ \A i \in DOMAIN entries : entries[i][2] = entries[k][2] => j < i

IndexOf(entries, k) == 1 + Cardinality({j \in DOMAIN entries : Precedes(entries, j, k)})
FoundAt(entries, p) == {k \in DOMAIN entries : IndexOf(entries, k) = p}

\* The array of keys is as long as the last place where one is put.
LastFound(entries) == GreatestOr({IndexOf(entries, k) : k \in DOMAIN entries}, 0)

\* A key is put there: of two keys with the same value the first is overwritten,
\* and the place of the other is a hole, if a key is put behind it.
asort(entries) ==
  LET keys == [p \in 1 .. LastFound(entries) |->
                 IF FoundAt(entries, p) = {} THEN Undefined ELSE entries[GreatestOr(FoundAt(entries, p), 0)][1]]
  IN  SetAll(<< >>, [p \in DOMAIN keys |-> <<keys[p], ValueAt(entries, keys[p])>>])

Arranged(m, n, preserveKeys) ==
  [of |-> "arranged", map |-> m, other |-> n, merged |-> merge(m, n), reversed |-> reverse(m, preserveKeys),
   sorted |-> asort(m)]

Arranging == \E m, n \in Maps, preserveKeys \in BOOLEAN : call' = Arranged(m, n, preserveKeys)

\* Maps are arranged, among whatever else happens.
ArrangingSpec ==
  /\ call.of \notin {"batched", "arranged"}
  /\ [][Batching \/ Arranging \/ call'.of \notin {"batched", "arranged"}]_call

-----------------------------------------------------------------------------

\* Every item is in the batch of its turn, at its place there, under its own key if
\* keys are preserved. All batches but the last one are full, and the last one is
\* when it is filled; a filling overwrites nothing.
BatchesAreFull(m, size, filling, preserveKeys, result) ==
  LET width == IF size < 1 THEN 1 ELSE size
      filled == filling # <<"null">>
      turn(c, i) == (c - 1) * width + i
  IN  /\ \A c \in DOMAIN result :
           /\ Len(result[c]) \in 1 .. width
           /\ (c < Len(result) \/ filled) => Len(result[c]) = width
           /\ \A i \in DOMAIN result[c] :
                IF turn(c, i) <= Len(m)
                THEN result[c][i][2] = m[turn(c, i)][2] /\ (preserveKeys => result[c][i] = m[turn(c, i)])
                ELSE c = Len(result) /\ filled /\ result[c][i][2] = filling
      /\ \A k \in DOMAIN m : \E c \in DOMAIN result : \E i \in DOMAIN result[c] : turn(c, i) = k

\* The entries of two maps, the numbers counted from 0 on over both.
Counted(both, k) ==
  IF IsNumber(both[k][1])
  THEN << <<"number", Cardinality({j \in 1 .. k - 1 : IsNumber(both[j][1])})>>, both[k][2] >>
  ELSE both[k]

\* A merge has all values under numbers, in their order, and the last value of
\* every name.
MergeKeepsAll(m, n, result) ==
  LET both == m \o n
  IN  /\ {result[k] : k \in DOMAIN result}
           = {Counted(both, k) : k \in {k \in DOMAIN both :
                                          \A j \in DOMAIN both : j > k /\ ~IsNumber(both[k][1]) => both[j][1] # both[k][1]}}
      /\ \A j, k \in DOMAIN result : result[j][1] = result[k][1] => j = k
      /\ \A j, k \in DOMAIN result :
           (j < k /\ IsNumber(result[j][1]) /\ IsNumber(result[k][1])) => result[j][1][2] < result[k][1][2]

Distinct(entries) == \A j, k \in DOMAIN entries : entries[j][2] = entries[k][2] => j = k

\* No item is lost, repeated or moved by batch, merge and reverse, and sort has every
\* item, in the order of the values as strings, when no two values are equal; a
\* filled batch is full, its filling overwrites nothing, and a merge keeps the last
\* value of a name.
ItemsKept ==
  /\ call.of = "batched" => BatchesAreFull(call.map, call.size, call.filling, call.preserveKeys, call.result)
  /\ call.of = "arranged" =>
       /\ MergeKeepsAll(call.map, call.other, call.merged)
       /\ Len(call.reversed) = Len(call.map)
       /\ \A k \in DOMAIN call.map : call.reversed[k][2] = call.map[Len(call.map) + 1 - k][2]
       /\ Distinct(call.map) =>
            /\ {call.sorted[k] : k \in DOMAIN call.sorted} = {call.map[k] : k \in DOMAIN call.map}
            /\ \A j, k \in DOMAIN call.sorted : j < k => StringOrder[call.sorted[j][2]] <= StringOrder[call.sorted[k][2]]
=============================================================================
