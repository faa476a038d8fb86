---------------------------- MODULE CodeSamples ----------------------------
(***************************************************************************)
(* Compiled programs as lispc prints them, put together from the lines of  *)
(* module Code.  Fibonacci is the repository's own expected output,        *)
(* test/test.c, line by line; the others are the output for the sources    *)
(* quoted above them.                                                      *)
(***************************************************************************)
EXTENDS Integers, Sequences

PrimitiveNames ==
  <<"pAdd", "pSub", "pMul", "pDiv", "pRemainder", "pEqual", "pEqual", "pGreater",
    "pGreaterEqual", "pLess", "pLessEqual", "pNot", "pEqualString", "pPrint",
    "pInt2string", "pIsNull", "pOr", "pAnd">>

Number(n)  == <<[op |-> "int", n |-> n]>>
Text(s)  == <<[op |-> "str", s |-> s]>>
Closure(k) == <<[op |-> "proc", f |-> k + 2]>>
Op(op)  == <<[op |-> op]>>
Def(n)  == <<[op |-> "def", n |-> n]>>
Bind(n) == [i \in 1 .. n |-> [op |-> "bind", n |-> i - 1]]
Scan(d) == Op("scan") \o [i \in 1 .. d |-> [op |-> "outer"]]
Get(d, n) == Scan(d) \o <<[op |-> "get", n |-> n]>>
Set(d, n) == Scan(d) \o <<[op |-> "set", n |-> n]>>
Call(n) == [i \in 1 .. n |-> [op |-> "arg", n |-> i - 1]] \o Op("call") \o Op("pushret")
Main(body) ==
  [parent |-> 0, size |-> 18,
   body |-> Op("env") \o [i \in 1 .. 18 |-> [op |-> "prim", n |-> i - 1,
                                             p |-> PrimitiveNames[i]]]
              \o body \o Op("exit")]
Lambda(parent, size, params, body) ==
  [parent |-> parent, size |-> size,
   body |-> Op("enter") \o Bind(params) \o Number(0) \o body \o Op("return")]

(* test/test.c, lines 223 to 450, for test/test-fib.scm.                   *)
Fibonacci ==
  <<Main(Closure(0) \o Call(0)),
    Lambda(1, 1, 0,
      Closure(1) \o Def(0) \o Get(1, 13) \o Get(1, 14) \o Get(0, 0) \o Number(10)
        \o Call(1) \o Call(1) \o Call(1)),
    Lambda(2, 2, 1,
      Closure(2) \o Def(1) \o Get(0, 1) \o Number(1) \o Number(0) \o Get(0, 0) \o Call(3)),
    Lambda(3, 3, 3,
      Get(3, 5) \o Number(0) \o Get(0, 0) \o Call(2)
        \o Op("if") \o Get(0, 1) \o Op("close")
        \o Op("else")
        \o Get(1, 1) \o Get(3, 0) \o Get(0, 2) \o Get(0, 1) \o Call(2)
        \o Get(0, 2) \o Get(3, 1) \o Number(1) \o Get(0, 0) \o Call(2) \o Call(3)
        \o Op("close"))>>

(* (define make (lambda (n) (lambda () (set! n (+ n 1)) n)))               *)
(* (define c (make 5)) (define d (make 2))                                 *)
(* (c) (d)                                                                 *)
(* (if (string=? (int->string (c)) "7") (print "seven") (print "no"))      *)
(* (+ (c) (d))                                                             *)
Counters ==
  <<Main(Closure(0) \o Call(0)),
    Lambda(1, 3, 0,
      Closure(1) \o Def(0)
        \o Get(0, 0) \o Number(5) \o Call(1) \o Def(1)
        \o Get(0, 0) \o Number(2) \o Call(1) \o Def(2)
        \o Get(0, 1) \o Call(0) \o Get(0, 2) \o Call(0)
        \o Get(1, 12) \o Text("7")
          \o Get(1, 14) \o Get(0, 1) \o Call(0) \o Call(1) \o Call(2)
        \o Op("if") \o Get(1, 13) \o Text("seven") \o Call(1) \o Op("close")
        \o Op("else") \o Get(1, 13) \o Text("no") \o Call(1) \o Op("close")
        \o Get(1, 0) \o Get(0, 2) \o Call(0) \o Get(0, 1) \o Call(0) \o Call(2)),
    Lambda(2, 1, 1, Closure(2)),
    Lambda(3, 0, 0,
      Get(3, 0) \o Number(1) \o Get(1, 0) \o Call(2) \o Set(1, 0) \o Get(1, 0))>>

(* (define f (lambda (x) (if (not x) 0 (+ (f (- x 1)) (f x)))))            *)
(* (f 2), which calls itself until the stack is full.                      *)
Runaway ==
  <<Main(Closure(0) \o Call(0)),
    Lambda(1, 1, 0, Closure(1) \o Def(0) \o Get(0, 0) \o Number(2) \o Call(1)),
    Lambda(2, 1, 1,
      Get(2, 11) \o Get(0, 0) \o Call(1)
        \o Op("if") \o Number(0) \o Op("close")
        \o Op("else")
        \o Get(2, 0) \o Get(1, 0) \o Get(0, 0) \o Call(1)
          \o Get(1, 0) \o Get(2, 1) \o Number(1) \o Get(0, 0) \o Call(2) \o Call(1)
          \o Call(2)
        \o Op("close"))>>

=============================================================================
