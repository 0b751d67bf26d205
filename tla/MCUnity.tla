------------------------------- MODULE MCUnity -------------------------------
(* An instance of Unity for TLC: integers of two and of three bits stand    *)
(* for the narrow types and for the word.                                   *)
EXTENDS Unity, TLC

MCModulus == 1 :> 4 @@ 8 :> 8

MCTypes == {t \in Types : t.range = "CHAR" => t.bytes = 1}
Ints == -5 .. 5
Deltas(type) == 0 .. Modulus[type.bytes] - 1

Array(at, cells) == [at |-> at, cells |-> cells]
TwoArrays(Cells) == {NULL} \cup {Array("expected", s) : s \in Cells}
TwoActual(Cells) == {NULL} \cup {Array("actual", s) : s \in Cells}

Both(S, T) == {<<p, q>> : p \in S, q \in T}
Pairs(Cells) ==
  Both(TwoArrays(Cells), TwoActual(Cells))
    \cup {<<Array("actual", s), Array("actual", s)>> : s \in Cells}

\* Patterns next to the sign and to the ends of both widths.
TwoNumbers == {<<x, y>> : x, y \in {0, 1, 3}}

Num(type) == IF type.bytes = 8 THEN {<<x, y>> : x, y \in {0, 3, 4, 7}} ELSE TwoNumbers

Numbers ==
  UNION {{[type |-> t, expected |-> p[1], actual |-> p[2], n |-> n,
           flags |-> "UNITY_ARRAY_TO_ARRAY"] : p \in Pairs(Num(t)), n \in 0 .. 2}
         : t \in MCTypes}
  \cup
  UNION {{[type |-> t, expected |-> UnityNumToPtr(x, t.bytes), actual |-> q, n |-> n,
           flags |-> "UNITY_ARRAY_TO_VAL"] : x \in {-1, 0, 3}, q \in TwoActual(Num(t)), n \in 0 .. 2}
         : t \in MCTypes}

Blocks == {<<1, 2>>, <<1, 2, 1, 2>>, <<1, 2, 2, 2>>, <<2, 1, 1, 2>>}
Memory ==
  {[expected |-> p[1], actual |-> p[2], length |-> b, n |-> n, flags |-> f] :
     p \in Pairs(Blocks), b \in 0 .. 2, n \in 0 .. 2, f \in Flags}

\* With cells behind the terminator, and without one.
Texts == {<<0>>, <<1, 0>>, <<1, 0, 2>>, <<1, 2, 0>>, <<2, 1, 0>>, <<1, 2, 1, 0>>}
Buffers == Texts \cup {<<1, 2>>, <<1, 1>>}

TextPairs(Cells) == {[expected |-> p[1], actual |-> p[2]] : p \in Pairs(Cells)}

Words == TwoArrays({<<0>>, <<1, 0>>, <<1, 2, 0>>})
WordLists == {<<w, x>> : w, x \in Words}
StringArrays ==
  {[expected |-> Array("list", s), actual |-> Array("other", t), n |-> n,
    flags |-> "UNITY_ARRAY_TO_ARRAY"] : s, t \in WordLists, n \in 0 .. 2}
  \cup
  {[expected |-> w, actual |-> q, n |-> n, flags |-> "UNITY_ARRAY_TO_VAL"] :
     w \in Words, q \in {NULL} \cup {Array("other", t) : t \in WordLists}, n \in 0 .. 2}

MCCalls ==
  [kind \in Kinds |->
    CASE kind = "bits" ->
           [mask : SUBSET (0 .. 1), expected : SUBSET (0 .. 1), actual : SUBSET (0 .. 1)]
      [] kind = "equal" -> [type : MCTypes, expected : Ints, actual : Ints]
      [] kind = "compare" ->
           [type : MCTypes, threshold : Ints, actual : Ints, compare : Comparisons]
      [] kind = "within" ->
           UNION {[type : {t}, expected : Ints, actual : Ints, delta : Deltas(t)]
                  : t \in MCTypes}
      [] kind = "array" -> Numbers
      [] kind = "array_within" ->
           {[type |-> c.type, expected |-> c.expected, actual |-> c.actual, n |-> c.n,
             flags |-> c.flags, delta |-> d] : c \in Numbers, d \in 0 .. 3}
      [] kind = "memory" ->
           {c \in Memory : WellFormed("memory", c)}
      [] kind = "string" -> TextPairs(Texts)
      [] kind = "string_len" ->
           {c \in {[expected |-> p.expected, actual |-> p.actual, length |-> n] :
                     p \in TextPairs(Buffers), n \in 0 .. 3} : WellFormed("string_len", c)}
      [] kind = "string_array" -> StringArrays]
=============================================================================
