------------------------------ MODULE MCLispc ------------------------------
(***************************************************************************)
(* Programs compiled, run, and compared with what they mean.               *)
(***************************************************************************)
EXTENDS Lispc, SequencesExt, Syntax, TLC

Samples == INSTANCE SourceSamples
(* A call takes three words of the stack at least.                         *)
Reference == INSTANCE Evaluator
  WITH LongLongs <- LongLong, Decimals <- Decimal, MaxNesting <- StackSize \div 3,
       MaxOperands <- MaxArgs

MCPrograms ==
  {Samples!Fib, Samples!Pairs, Samples!Lists, Samples!CounterSource, Samples!Mutual}
    \cup Samples!BoundPairPrograms \cup Samples!NestedPrograms
    \cup Samples!StalePrograms \cup Samples!ShiftedPrograms \cup Samples!WidePrograms(MaxArgs)

MCReadme == {Samples!ReadmeList}

MCNodesOf(x) == Samples!Subnodes(x)
MCTexts == STRING
MCAddresses == {100}
MCDecimal(n) == ToString(n)
MCContent(s) == s    \* the texts of the samples have no backslash and no newline

-----------------------------------------------------------------------------

Meaning == Reference!Meaning(program)

(* main reads its exit status through ret: there is nothing to read in a   *)
(* program whose value is that of a print before which no call returned.   *)
Value == Last(Meaning.values)
WithoutValue == Value = Reference!Nothing

(* A compiled program prints what it means to print, and its exit status   *)
(* is taken from the value it means to have: also where operands leave     *)
(* several words or none, so that a call takes those of another operand,   *)
(* where an operand is missing and an earlier call has left one in args,   *)
(* and where the value is that of a print, which leaves ret alone.         *)
MeaningPreserved ==
  status \in {"exit", "word"} /\ Meaning.world.ok =>
    /\ printed = Meaning.world.out
    /\ Value.t = "int" => ret = Runtime!IntObj(Value.n)
    /\ Value.t = "str" => ret = Runtime!StrObj(Value.s)

(* A compiled program that has a meaning ends as a process should, or runs *)
(* out of stack: it never reads a register, an argument or a variable that *)
(* holds no object of the right type, and never leaves args; but main      *)
(* reads its exit status through NULL if and only if the program is        *)
(* without a value.  A call with more operands than args has room for, or  *)
(* of a procedure with more parameters, does leave args, after all that    *)
(* came before it was right.                                               *)
MeaningfulRuns ==
  status \notin {"run", "overflow"} =>
    /\ Meaning.world.ok => status = IF WithoutValue THEN "word" ELSE "exit"
    /\ Meaning.world.excess => status = "argument" /\ printed = Meaning.world.out

(* The README's (print (car lst)), of a list that starts with 0, prints 0. *)
ReadmeListPrints == status # "run" => printed = <<"0">>

=============================================================================
