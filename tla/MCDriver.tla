------------------------------ MODULE MCDriver ------------------------------
(***************************************************************************)
(* Texts compiled, run, and compared with what they say.                   *)
(***************************************************************************)
EXTENDS Messages, TLC

Samples == INSTANCE SourceSamples

(* Texts as they are typed.                                                *)
Typed(line) ==
  LET char(c) == IF c = " " THEN "space" ELSE c
  IN [i \in 1 .. Len(line) |-> char(SubSeq(line, i, i))]
Lines(ls) == FlattenSeq([i \in 1 .. Len(ls) |-> Typed(ls[i]) \o <<"newline">>])

(* test/test-fib.scm, for a smaller number.                                 *)
Fib ==
  Lines(<<"(define fib", "    (lambda (n)", "        (define iter", "            (lambda (n a b)",
          "                (if (= n 0)", "                    a",
          "                    (iter (- n 1) b (+ a b)))))", "        (iter n 0 1)))", "",
          "(print (int->string (fib 4)))">>)

Notes ==
  {Lines(<<"; a (comment \" here", "(define f;and here",
           "  (lambda (x y)(if (string=? x \"; no comment\")y(- y 1))))",
           "(print(int->string(f\"\"+7)))">>),
   Lines(<<"(define f(lambda (x)x))", "(print \"(\")(print(int->string(f 5))); no end">>)}

(* A print of every short text between quotes.                             *)
Between(cs) == Typed("(print \"") \o cs \o Typed("\")(+ 1 2)")

Characters == {"a", "n", "0", "\\", "\"", ";", "newline"}
Quoted == {Between(cs) : cs \in UNION {[1 .. n -> Characters] : n \in 0 .. 3}}

Others ==
  {Typed(t) : t \in
     {"(+ 1 2", "(+ 1 2))", ")(", "1 2", "", "(print 1)", "(x)", "1.5", "(define 1 2)", "null",
      "(define x 130)", "(print \"an unfinished", "((lambda (x) (* x -7)) 3)", "a-very-long-variable",
      "((lambda (x) x) (print \"a\")) (if (print \"b\") 1 2)", "(print \"a\")",
      "(if (< 1 2) \"then\" \"else\")", "(define x (define y 1))", "(not (eq? 1 01))",
      "(print (int->string (- 7 2)))", ") 1", ") \"a\"", ") x", ")) +01 2)", ") 2.5", "))"}}

MCSources == {Fib} \cup Notes \cup Quoted \cup Others

MCNodesOf(x) == Samples!Subnodes(x)
MCTexts == Seq(STRING)
MCAddresses == {100}
MCDecimal(n) == Typed(ToString(n))

-----------------------------------------------------------------------------
(* What a text says.                                                       *)

Reference == INSTANCE Evaluator
  WITH LongLongs <- LongLong, Decimals <- Decimal, MaxNesting <- StackSize \div 3,
       MaxOperands <- MaxArgs

(* The expressions that balanced tokens spell.                             *)
RECURSIVE Read(_)
Read(ts) ==
  IF ts = <<>> THEN <<>>
  ELSE IF ts[1].type # "("
  THEN <<IF ts[1] = Identifier("null") THEN List(<<>>) ELSE ts[1]>> \o Read(Tail(ts))
  ELSE LET end == CHOOSE n \in 1 .. Len(ts) : Opened(ts, n) = 0 /\ \A m \in 1 .. (n - 1) : Opened(ts, m) > 0
       IN <<List(Read(SubSeq(ts, 2, end - 1)))>> \o Read(SubSeq(ts, end + 1, Len(ts)))

Written == Samples!Wrapped(Read(TokensWritten))

TextsWritten == {t.string : t \in {u \in Range(TokensWritten) : u.type = "string"}}

Plain == \A cs \in TextsWritten : {"\\", "newline"} \cap Range(cs) = {}

Says == Reference!Meaning(Written)

(* A text that says something is compiled into a program that prints what  *)
(* the text says, character by character, unless a text in it has a        *)
(* backslash, which means something else in C.                             *)
PrintsAsWritten ==
  status \in {"exit", "word"} /\ Plain /\ Balanced(TokensWritten) /\ Says.world.ok =>
    printed = Says.world.out

(* The output for a program is C exactly if no text in it breaks the line  *)
(* or takes the quote at its end.                                          *)
BreaksLine(cs) ==
  \E i \in 1 .. Len(cs) : cs[i] = "newline" /\ (i = 1 \/ cs[i - 1] # "\\")

(* Of the backslashes at its end, one is left when the others have taken   *)
(* one another in pairs, or the newlines behind them.                      *)
TakesQuote(cs) ==
  LET tail(c) == {i \in 1 .. Len(cs) :
                    cs[i] = c /\ \A j \in i .. Len(cs) : cs[j] \in {"\\", "newline"}}
  IN (Cardinality(tail("\\")) - Cardinality(tail("newline"))) % 2 = 1

OutputIsC ==
  phase = "done" /\ code = <<>> =>
    (IsC <=> \A cs \in TextsWritten : ~BreaksLine(cs) /\ ~TakesQuote(cs))

(* Every text is answered: by a message, by gcc, or by a process that ends.*)
Answers == <>(Complaint # <<>> \/ Overran \/ Refused \/ status # "run")

=============================================================================
