---------------------------- MODULE MCCGenerator ----------------------------
(***************************************************************************)
(* The code generator on the repository's tests and on all small programs  *)
(* of a few shapes.                                                        *)
(***************************************************************************)
EXTENDS GeneratedCode, TLC

Samples  == INSTANCE SourceSamples
Expected == INSTANCE CodeSamples

MCPrograms ==
  {Samples!Fib, Samples!Pairs, Samples!Lists, Samples!CounterSource, Samples!Mutual}
    \cup Samples!PairPrograms \cup Samples!NestedPrograms \cup Samples!MalformedPrograms
    \cup Samples!NestedDefinitions \cup Samples!FormParameters \cup {Samples!ManyLambdas(15), Samples!ManyLambdas(16)}

MCNested == Samples!NestedDefinitions

MCNodesOf(x) == Samples!Subnodes(x)

MCTexts == STRING

(* The output for test-fib.scm is the one that test/test.c expects.        *)
OutputAsExpected ==
  status = "done" /\ program = Samples!Fib => functions = Expected!Fibonacci

=============================================================================
