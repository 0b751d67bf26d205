-------------------------------- MODULE Unity --------------------------------
(***************************************************************************)
(* A test program of the repository: the main of src/tests/test_*.c, which *)
(* calls RUN_TEST for one test after the other, on Unity's runner.  A test *)
(* is any sequence of calls of the framework in setUp, in the test and in  *)
(* tearDown; longjmp out of one of them is a step to the next.             *)
(***************************************************************************)
EXTENDS UnityAsserts

CONSTANTS
  Calls,        \* Calls[kind]: arguments of the assertions of a kind
  MaxTests,     \* bound on the tests of a program
  ExitCodes     \* how many exit codes a process has

Kinds == {"bits", "equal", "compare", "within", "array", "array_within",
          "memory", "string", "string_len", "string_array"}

(* What an assertion promises, in the numbers and texts it is about.  *)

Near(delta, e, a) == a - e <= delta /\ e - a <= delta

Related(t, a, compare) ==
  \/ "GREATER_THAN" \in compare /\ a > t
  \/ "SMALLER_THAN" \in compare /\ a < t
  \/ "EQUAL_TO" \in compare /\ a = t
  \/ "NOT_EQUAL" \in compare /\ a # t

\* The characters of a string before its end, at most n of them.
Text(s, n) ==
  [i \in {k \in 1 .. n : k \in DOMAIN s /\ \A j \in 1 .. k : s[j] # 0} |-> s[i]]

IsNull(p) == p.at = NULL.at
NeitherNull(p, q) == ~IsNull(p) /\ ~IsNull(q)

SameString(p, q, n) ==
  \/ IsNull(p) /\ IsNull(q)
  \/ NeitherNull(p, q) /\ Text(p.cells, n) = Text(q.cells, n)

\* The same array, or two arrays that agree in every element.
SameArray(p, q, n, agree) ==
  n > 0 /\ (p.at = q.at \/ (NeitherNull(p, q) /\ agree))

Truth(kind, c) ==
  CASE kind = "bits" -> \A b \in c.mask : b \in c.expected <=> b \in c.actual
    [] kind = "equal" -> (c.expected - c.actual) % Modulus[c.type.bytes] = 0
    [] kind = "compare" ->
         Related(Cast(c.type, c.threshold), Cast(c.type, c.actual), c.compare)
    [] kind = "within" ->
         Near(c.delta, Cast(c.type, c.expected), Cast(c.type, c.actual))
    [] kind = "array" ->
         SameArray(c.expected, c.actual, c.n, \A k \in 1 .. c.n :
           ExpectedAt(c.expected, k, c.flags) = c.actual.cells[k])
    [] kind = "array_within" ->
         SameArray(c.expected, c.actual, c.n, \A k \in 1 .. c.n :
           Near(c.delta, Cast(c.type, ExpectedAt(c.expected, k, c.flags)),
                         Cast(c.type, c.actual.cells[k])))
    [] kind = "memory" ->
         SameArray(c.expected, c.actual, c.length * c.n, \A k \in 1 .. c.length * c.n :
           c.actual.cells[k] =
             c.expected.cells[IF c.flags = "UNITY_ARRAY_TO_VAL"
                                THEN ((k - 1) % c.length) + 1 ELSE k])
    [] kind = "string" ->
         SameString(c.expected, c.actual, Endless(c.expected.cells, c.actual.cells))
    [] kind = "string_len" -> SameString(c.expected, c.actual, c.length)
    [] kind = "string_array" ->
         SameArray(c.expected, c.actual, c.n, \A k \in 1 .. c.n :
           LET e == IF c.flags = "UNITY_ARRAY_TO_VAL"
                      THEN c.expected ELSE c.expected.cells[k]
               a == c.actual.cells[k]
           IN SameString(e, a, Endless(e.cells, a.cells)))

(* The macros of unity_internals.h, one operator for the macros of a family:   *)
(* they convert the arguments to the type and call the function.               *)

UNITY_TEST_ASSERT_EQUAL(c) ==
  UnityAssertEqualNumber(Cast(c.type, c.expected), Cast(c.type, c.actual))

\* _NOT_EQUAL_, _GREATER_THAN_, _SMALLER_THAN_, _GREATER_OR_EQUAL_ and so on
UNITY_TEST_ASSERT_COMPARE(c) ==
  UnityAssertGreaterOrLessOrEqualNumber(
    Cast(c.type, c.threshold), Cast(c.type, c.actual), c.compare)

UNITY_TEST_ASSERT_WITHIN(c) ==
  UnityAssertNumbersWithin(c.delta, Cast(c.type, c.expected), Cast(c.type, c.actual))

UNITY_TEST_ASSERT_ARRAY_WITHIN(c) ==
  UnityAssertNumbersArrayWithin(c.delta, c.expected, c.actual, c.n, c.type, c.flags)

\* _EQUAL_..._ARRAY, and _EACH_EQUAL_... by its flags
UNITY_TEST_ASSERT_EQUAL_ARRAY(c) ==
  UnityAssertEqualIntArray(c.expected, c.actual, c.n, c.type, c.flags)

\* The macro that a test calls: does it return?
Holds(kind, c) ==
  CASE kind = "bits" -> UnityAssertBits(c.mask, c.expected, c.actual)
    [] kind = "equal" -> UNITY_TEST_ASSERT_EQUAL(c)
    [] kind = "compare" -> UNITY_TEST_ASSERT_COMPARE(c)
    [] kind = "within" -> UNITY_TEST_ASSERT_WITHIN(c)
    [] kind = "array" -> UNITY_TEST_ASSERT_EQUAL_ARRAY(c)
    [] kind = "array_within" -> UNITY_TEST_ASSERT_ARRAY_WITHIN(c)
    [] kind = "memory" ->
         UnityAssertEqualMemory(c.expected, c.actual, c.length, c.n, c.flags)
    [] kind = "string" -> UnityAssertEqualString(c.expected, c.actual)
    [] kind = "string_len" ->
         UnityAssertEqualStringLen(c.expected, c.actual, c.length)
    [] kind = "string_array" ->
         UnityAssertEqualStringArray(c.expected, c.actual, c.n, c.flags)

\* The strings an assertion reads, and how far.
Inside(kind, c) ==
  kind \in {"string", "string_len"} /\ NeitherNull(c.expected, c.actual) =>
    LET s == c.expected.cells
        t == c.actual.cells
    IN Compared(s, t, IF kind = "string" THEN Endless(s, t) ELSE c.length)
         \subseteq DOMAIN s \cap DOMAIN t

-----------------------------------------------------------------------------
(* What a test may hand to an assertion: pointers to as many cells as it   *)
(* says, and strings that end within them.                                 *)

Arrays(Cell, n) ==
  {p \in [at : STRING, cells : Seq(Cell)] : IsNull(p) \/ Len(p.cells) >= n}

Terminated(p) == \E i \in DOMAIN p.cells : p.cells[i] = 0

Strings == {p \in Arrays(Nat, 0) : IsNull(p) \/ Terminated(p)}

Flags == {"UNITY_ARRAY_TO_VAL", "UNITY_ARRAY_TO_ARRAY"}

\* What expected has to hold: the array, or the one value.
Expecting(flags, n, one) == IF flags = "UNITY_ARRAY_TO_VAL" THEN one ELSE n

OneMemory(p, q) == p.at = q.at => p = q

WellFormed(kind, c) ==
  CASE kind = "bits" -> {c.mask, c.expected, c.actual} \subseteq SUBSET Nat
    [] kind = "equal" -> c.type \in Types /\ {c.expected, c.actual} \subseteq Int
    [] kind = "compare" ->
         /\ c.type \in Types
         /\ {c.threshold, c.actual} \subseteq Int
         /\ c.compare \in Comparisons
    [] kind = "within" ->
         /\ c.type \in Types
         /\ c.delta \in 0 .. Modulus[c.type.bytes] - 1
         /\ {c.expected, c.actual} \subseteq Int
    [] kind \in {"array", "array_within"} ->
         /\ c.type \in Types
         /\ c.flags \in Flags
         /\ c.n \in Nat
         /\ LET Cell == 0 .. Modulus[c.type.bytes] - 1
            IN /\ c.expected \in Arrays(Cell, Expecting(c.flags, c.n, 1))
               /\ c.actual \in Arrays(Cell, c.n)
         /\ OneMemory(c.expected, c.actual)
         /\ kind = "array_within" => c.delta \in 0 .. Modulus[c.type.bytes] - 1
    [] kind = "memory" ->
         /\ c.flags \in Flags
         /\ {c.n, c.length} \subseteq Nat
         /\ c.expected \in Arrays(Nat, Expecting(c.flags, c.length * c.n, c.length))
         /\ c.actual \in Arrays(Nat, c.length * c.n)
         /\ OneMemory(c.expected, c.actual)
    [] kind = "string" ->
         {c.expected, c.actual} \subseteq Strings /\ OneMemory(c.expected, c.actual)
    [] kind = "string_len" ->
         /\ c.length \in Nat
         /\ {c.expected, c.actual} \subseteq Strings \cup Arrays(Nat, c.length)
         /\ OneMemory(c.expected, c.actual)
    [] kind = "string_array" ->
         /\ c.flags \in Flags
         /\ c.n \in Nat
         /\ IF c.flags = "UNITY_ARRAY_TO_VAL"
              THEN c.expected \in Strings ELSE c.expected \in Arrays(Strings, c.n)
         /\ c.actual \in Arrays(Strings, c.n)
         /\ c.expected.at = c.actual.at => IsNull(c.actual) \/ c.expected = c.actual

ASSUME UnityAssumption ==
  /\ DOMAIN Calls \subseteq Kinds
  /\ \A kind \in DOMAIN Calls : \A c \in Calls[kind] : WellFormed(kind, c)
  /\ MaxTests \in Nat
  /\ ExitCodes \in Nat \ {0}

-----------------------------------------------------------------------------
VARIABLES
  pc,                   \* "main", "setUp", "body", "tearDown", "conclude", "ended"
  NumberOfTests, TestFailures, TestIgnores,
  CurrentTestFailed, CurrentTestIgnored,        \* the counters used as flags
  passed,               \* how many lines "PASS" have been printed
  exit,                 \* exit code of the program
  due,                  \* history: what the calls reached make of this test
  owed,                 \* history: tests so far by what was due to them
  strayed               \* history: a string was read past its end

counters == <<NumberOfTests, TestFailures, TestIgnores, passed>>
flags == <<CurrentTestFailed, CurrentTestIgnored>>
vars == <<pc, counters, flags, exit, due, owed, strayed>>

Init ==    \* UnityBegin
  /\ pc = "main"
  /\ NumberOfTests = 0 /\ TestFailures = 0 /\ TestIgnores = 0 /\ passed = 0
  /\ CurrentTestFailed = FALSE /\ CurrentTestIgnored = FALSE
  /\ exit = 0
  /\ due = "pass"
  /\ owed = [d \in {"pass", "fail", "ignore"} |-> 0]
  /\ strayed = FALSE

\* RUN_TEST, up to the call of setUp.
UnityDefaultTestRun ==
  /\ pc = "main"
  /\ NumberOfTests < MaxTests
  /\ NumberOfTests' = NumberOfTests + 1
  /\ pc' = "setUp"
  /\ due' = "pass"
  /\ UNCHANGED <<TestFailures, TestIgnores, passed, flags, exit, owed, strayed>>

Protected == pc \in {"setUp", "body", "tearDown"}

\* setUp, the test or tearDown returns.
Returns ==
  /\ Protected
  /\ pc' = CASE pc = "setUp" -> "body"
             [] pc = "body" -> "tearDown"
             [] pc = "tearDown" -> "conclude"
  /\ UNCHANGED <<counters, flags, exit, due, owed, strayed>>

\* TEST_ABORT: longjmp to the TEST_PROTECT around the running function.
TEST_ABORT == pc' = IF pc = "tearDown" THEN "conclude" ELSE "tearDown"

\* TEST_PASS, or a call in a test that has been decided: RETURN_IF_FAIL_OR_IGNORE.
Aborts ==
  /\ Protected
  /\ TEST_ABORT
  /\ UNCHANGED <<counters, flags, exit, due, owed, strayed>>

GoesOn == TRUE    \* seeded fault: the flags are not looked at

Undecided == ~CurrentTestFailed /\ ~CurrentTestIgnored

\* The calls a test reaches decide about it once.
Decide(d) == due' = IF due = "pass" THEN d ELSE due

\* An assertion; a test that is decided is left by it.
Asserts(kind, c) ==
  /\ Protected
  /\ Undecided
  /\ CurrentTestFailed' = ~Holds(kind, c)
  /\ IF Holds(kind, c) THEN UNCHANGED pc ELSE TEST_ABORT
  /\ Decide(IF Truth(kind, c) THEN "pass" ELSE "fail")
  /\ strayed' = (strayed \/ ~Inside(kind, c))
  /\ UNCHANGED <<counters, CurrentTestIgnored, exit, owed>>

CountedTwice ==    \* seeded fault: the failure is counted when it is reported
  /\ Protected
  /\ Undecided
  /\ CurrentTestFailed' = TRUE
  /\ TEST_ABORT
  /\ Decide("fail")
  /\ TestFailures' = TestFailures + 1
  /\ UNCHANGED <<NumberOfTests, TestIgnores, passed, CurrentTestIgnored, exit, owed,
                 strayed>>

\* TEST_FAIL, and TEST_ASSERT of a condition that is false.
UnityFail ==
  /\ Protected
  /\ Undecided
  /\ CurrentTestFailed' = TRUE
  /\ TEST_ABORT
  /\ Decide("fail")
  /\ UNCHANGED <<counters, CurrentTestIgnored, exit, owed, strayed>>

UnityIgnore ==
  /\ Protected
  /\ Undecided
  /\ CurrentTestIgnored' = TRUE
  /\ TEST_ABORT
  /\ Decide("ignore")
  /\ UNCHANGED <<counters, CurrentTestFailed, exit, owed, strayed>>

UnityConcludeTest ==
  /\ pc = "conclude"
  /\ TestIgnores' = TestIgnores + IF CurrentTestIgnored THEN 1 ELSE 0
  /\ passed' =
       passed + IF ~CurrentTestFailed /\ ~CurrentTestIgnored THEN 1 ELSE 0
  /\ TestFailures' =
       TestFailures + IF CurrentTestFailed /\ ~CurrentTestIgnored THEN 1 ELSE 0
  /\ CurrentTestFailed' = FALSE
  /\ CurrentTestIgnored' = FALSE
  /\ owed' = [owed EXCEPT ![due] = @ + 1]
  /\ pc' = "main"
  /\ UNCHANGED <<NumberOfTests, exit, due, strayed>>

\* return UNITY_END(): the system keeps the low byte, so that 256 failures look
\* like none.
UnityEnd ==
  /\ pc = "main"
  /\ pc' = "ended"
  /\ exit' = TestFailures % ExitCodes
  /\ UNCHANGED <<counters, flags, due, owed, strayed>>

Next ==
  \/ UnityDefaultTestRun \/ Returns \/ Aborts
  \/ \E kind \in DOMAIN Calls : \E c \in Calls[kind] : Asserts(kind, c)
  \/ UnityFail \/ UnityIgnore
  \/ UnityConcludeTest \/ UnityEnd

Spec == Init /\ [][Next]_vars

-----------------------------------------------------------------------------
TypeOK ==
  /\ pc \in {"main", "setUp", "body", "tearDown", "conclude", "ended"}
  /\ NumberOfTests \in 0 .. MaxTests
  /\ {TestFailures, TestIgnores, passed} \subseteq 0 .. NumberOfTests
  /\ {CurrentTestFailed, CurrentTestIgnored, strayed} \subseteq BOOLEAN
  /\ exit \in 0 .. ExitCodes - 1
  /\ due \in {"pass", "fail", "ignore"}
  /\ owed \in [{"pass", "fail", "ignore"} -> 0 .. NumberOfTests]

\* Between RUN_TEST and UnityConcludeTest a test counts as failed exactly when
\* the first call that decides about it is one whose promise the arguments
\* break, and as ignored exactly when that call is TEST_IGNORE: integer
\* promotion, the unsigned differences of _WITHIN, the two loops over strings
\* and the checks of length and NULL never change the answer, and nothing said
\* later, in tearDown for example, overrides it (unity.c:741-1942).
VerdictsExact ==
  pc \notin {"main", "ended"} =>
    /\ CurrentTestFailed <=> due = "fail"
    /\ CurrentTestIgnored <=> due = "ignore"

\* The three numbers UnityEnd prints and the lines "PASS" count every test
\* once, under what was due to it: no flag of one test is left to the next
\* (unity.c:572-593, 2283-2308).
TalliesExact ==
  /\ TestFailures = owed["fail"]
  /\ TestIgnores = owed["ignore"]
  /\ passed = owed["pass"]
  /\ NumberOfTests =
       owed["fail"] + owed["ignore"] + owed["pass"]
         + IF pc \in {"main", "ended"} THEN 0 ELSE 1

\* The loops over strings end at the first terminator or the first difference,
\* also where the strings are of different lengths (unity.c:1718-1725).
NeverStrays == ~strayed
=============================================================================
