---------------------------- MODULE UnityAsserts ----------------------------
(***************************************************************************)
(* The assertions of Unity (unity.c, unity_internals.h), the framework the *)
(* unit tests of the repository are linked with.  An operator with the     *)
(* name of an assertion function is TRUE when the function returns without *)
(* failing the test; the message it prints otherwise is left out.          *)
(*                                                                         *)
(* A pointer is [at, cells]: an address and what is stored from there on.  *)
(* The cells of an array of numbers are bit patterns, those of a string    *)
(* are its characters with the terminating 0.                              *)
(***************************************************************************)
EXTENDS Integers, Sequences

CONSTANTS
  Modulus,      \* Modulus[k]: how many values an integer of k bytes has
  Word          \* the bytes of UNITY_INT and UNITY_UINT

ASSUME WordAssumption ==
  /\ Word \in DOMAIN Modulus
  /\ \A k \in DOMAIN Modulus :
       /\ Modulus[k] \in Nat \ {0}
       /\ Modulus[k] % 2 = 0
       /\ Modulus[k] <= Modulus[Word]

\* The integer types by display range and size.  The macros without a size
\* (_INT, _UINT) convert to the whole word.
Ranges == {"INT", "UINT", "HEX", "CHAR"}
Types == [range : Ranges, bytes : DOMAIN Modulus]

\* UNITY_DISPLAY_RANGE_INT is also part of the style of characters.
IsSigned(type) == type.range \in {"INT", "CHAR"}

Signed(n, m) == IF n % m < m \div 2 THEN n % m ELSE (n % m) - m

\* The conversion of an argument or of a stored pattern to a type.
Cast(type, n) ==
  IF IsSigned(type) THEN Signed(n, Modulus[type.bytes]) ELSE n % Modulus[type.bytes]

NULL == [at |-> "NULL", cells |-> << >>]

\* UnityQuickCompare holds the one number every element is compared with.
UnityNumToPtr(n, bytes) ==
  [at |-> "UnityQuickCompare", cells |-> <<n % Modulus[bytes]>>]

UnityIsOneArrayNull(expected, actual) ==
  expected.at # actual.at /\ (expected.at = NULL.at \/ actual.at = NULL.at)

\* The element of an array of expected values to compare the k-th one with.
ExpectedAt(expected, k, flags) ==
  expected.cells[IF flags = "UNITY_ARRAY_TO_ARRAY" THEN k ELSE 1]

-----------------------------------------------------------------------------
(* Numbers.  A mask, and what it is laid over, is a set of bit positions.  *)

UnityAssertBits(mask, expected, actual) == mask \cap expected = mask \cap actual

UnityAssertEqualNumber(expected, actual) == expected = actual

\* The flags of UNITY_COMPARISON_T that the macros combine.
Comparisons ==
  {{"GREATER_THAN"}, {"GREATER_THAN", "EQUAL_TO"},
   {"SMALLER_THAN"}, {"SMALLER_THAN", "EQUAL_TO"}, {"NOT_EQUAL"}}

UnityAssertGreaterOrLessOrEqualNumber(threshold, actual, compare) ==
  /\ threshold = actual => "EQUAL_TO" \in compare
  /\ ~(actual > threshold /\ "SMALLER_THAN" \in compare)
  /\ ~(actual < threshold /\ "GREATER_THAN" \in compare)

OneSided(delta, expected, actual) ==    \* seeded fault: no case distinction
  (expected - actual) % Modulus[Word] <= delta

\* The difference is taken as UNITY_UINT, the smaller from the larger.
UnityAssertNumbersWithin(delta, expected, actual) ==
  LET d == IF actual > expected THEN actual - expected ELSE expected - actual
  IN d % Modulus[Word] <= delta

(* Arrays.  None of them passes with no elements. *)

\* The mask after the load undoes the sign extension, except for whole words.
Element(type, n) ==
  IF type.bytes = Word THEN Signed(n, Modulus[Word]) ELSE Cast(type, n)

UnityAssertEqualIntArray(expected, actual, num_elements, type, flags) ==
  /\ num_elements # 0
  /\ \/ expected.at = actual.at
     \/ /\ ~UnityIsOneArrayNull(expected, actual)
        /\ \A k \in 1 .. num_elements :
             Element(type, ExpectedAt(expected, k, flags))
               = Element(type, actual.cells[k])

UnityAssertNumbersArrayWithin(delta, expected, actual, num_elements, type, flags) ==
  /\ num_elements # 0
  /\ \/ expected.at = actual.at
     \/ /\ ~UnityIsOneArrayNull(expected, actual)
        /\ \A k \in 1 .. num_elements :
             UnityAssertNumbersWithin(delta,
               Cast(type, ExpectedAt(expected, k, flags)), Cast(type, actual.cells[k]))

UnityAssertEqualMemory(expected, actual, length, num_elements, flags) ==
  /\ num_elements # 0
  /\ length # 0
  /\ \/ expected.at = actual.at
     \/ /\ ~UnityIsOneArrayNull(expected, actual)
        /\ \A k \in 0 .. num_elements - 1, b \in 1 .. length :
             expected.cells[IF flags = "UNITY_ARRAY_TO_VAL" THEN b ELSE k * length + b]
               = actual.cells[k * length + b]

-----------------------------------------------------------------------------
(* Strings *)

EitherGoesOn(s, t, limit) ==    \* seeded fault: no break at a difference
  {i \in 1 .. limit :
     \A j \in 1 .. i - 1 : \/ j \in DOMAIN s /\ s[j] # 0
                           \/ j \in DOMAIN t /\ t[j] # 0}

\* The positions the loop looks at: it ends where both strings end and at the
\* first difference.
Compared(s, t, limit) ==
  {i \in 1 .. limit : \A j \in 1 .. i - 1 : s[j] = t[j] /\ s[j] # 0}

\* No limit on the length of two terminated strings.
Endless(s, t) == Len(s) + Len(t)

SameText(expected, actual, limit) ==
  IF expected.at # NULL.at /\ actual.at # NULL.at
    THEN \A i \in Compared(expected.cells, actual.cells, limit) :
           expected.cells[i] = actual.cells[i]
    ELSE expected.at = actual.at

UnityAssertEqualString(expected, actual) ==
  SameText(expected, actual, Endless(expected.cells, actual.cells))

UnityAssertEqualStringLen(expected, actual, length) ==
  SameText(expected, actual, length)

\* The cells of actual, and of expected unless it is a single string, are
\* pointers to strings.
UnityAssertEqualStringArray(expected, actual, num_elements, flags) ==
  /\ num_elements # 0
  /\ \/ expected.at = actual.at
     \/ /\ ~UnityIsOneArrayNull(expected, actual)
        /\ \A k \in 1 .. num_elements :
             UnityAssertEqualString(
               IF flags = "UNITY_ARRAY_TO_ARRAY" THEN expected.cells[k] ELSE expected,
               actual.cells[k])
=============================================================================
