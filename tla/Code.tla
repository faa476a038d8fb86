-------------------------------- MODULE Code --------------------------------
(***************************************************************************)
(* The text of a compiled program, and the layout that makes it safe to    *)
(* run.                                                                    *)
(*                                                                         *)
(* A compiled program is a sequence of functions: function 1 is main and   *)
(* function k + 2 is Lambda<k>.  A function is a record of its body, the   *)
(* number of bindings its environment is allocated with (size), and its    *)
(* parent, the function whose environment encloses it.  A line of a body   *)
(* stands for the few C statements that one gen... function prints.        *)
(***************************************************************************)
EXTENDS Integers, Sequences, FiniteSets

CONSTANTS
  MaxArgs,      \* MAX_NUM_ARGUMENTS
  IntMax,       \* the largest long long
  Texts         \* the contents of String objects

IntMin   == -IntMax - 1
LongLong == IntMin .. IntMax

IntBinary ==
  {"pAdd", "pSub", "pMul", "pDiv", "pRemainder", "pEqual", "pGreater",
   "pGreaterEqual", "pLess", "pLessEqual", "pOr", "pAnd"}
IntUnary == {"pNot", "pIsNull"}
Primitives == IntBinary \cup IntUnary \cup {"pEqualString", "pPrint", "pInt2string"}

-----------------------------------------------------------------------------
(* The text of a function.                                                 *)

Opens(body, i, j) ==
  Cardinality({k \in i..j : body[k].op \in {"if", "else"}})
    - Cardinality({k \in i..j : body[k].op = "close"})

(* The line that closes the block opened at line i.                        *)
Match(body, i) ==
  CHOOSE j \in i..Len(body) :
    /\ Opens(body, i, j) = 0
    /\ \A k \in i..(j - 1) : Opens(body, i, k) # 0

IsElse(body, i) == i \in 1 .. Len(body) /\ body[i].op = "else"

(* Where an if goes when its predicate is zero, and where control goes     *)
(* after the block that line i closes.                                     *)
WhenZero(body, i) ==
  LET j == Match(body, i) IN IF IsElse(body, j + 1) THEN j + 2 ELSE j + 1

AfterBlock(body, i) ==
  IF IsElse(body, i + 1) THEN Match(body, i + 1) + 1 ELSE i + 1

PushOps == {"int", "str", "proc", "get", "pushret"}
PopOps  == {"set", "def", "if", "arg", "call", "return", "exit"}

-----------------------------------------------------------------------------
(* The layout: two notes about every line, which a function carries here   *)
(* although its text does not contain them.                                *)
(*   depth[i]  a lower bound of fp - sp before line i                      *)
(*   owner[i]  the function whose environment r0 points to then, or 0 when *)
(*             no line from i on relies on r0                              *)
(* WellFormed says that the notes agree from line to line.                 *)

Successors(body, i) ==
  CASE body[i].op \in {"return", "exit", "else"} -> {}
    [] body[i].op = "if"    -> {i + 1, WhenZero(body, i)}
    [] body[i].op = "close" -> {AfterBlock(body, i)}
    [] OTHER                -> {i + 1}

Change(op) ==
  CASE op \in PushOps -> 1
    [] op \in PopOps  -> -1
    [] OTHER          -> 0

(* The operands that a line carries are in range for function f of c.      *)
OperandsOK(c, f, i) ==
  LET l == c[f].body[i]
  IN CASE l.op = "int"  -> l.n \in LongLong
       [] l.op = "str"  -> l.s \in Texts
       [] l.op = "proc" -> l.f \in 2 .. Len(c) /\ c[l.f].parent = f
       [] l.op = "prim" -> l.p \in Primitives /\ l.n \in 0 .. (c[f].size - 1)
       [] l.op = "def"  -> l.n \in 0 .. (c[f].size - 1)
       [] l.op = "bind" -> l.n \in 0 .. (c[f].size - 1) /\ l.n < MaxArgs
       [] l.op = "arg"  -> l.n \in 0 .. (MaxArgs - 1)
       [] l.op \in {"get", "set"} ->
            c[f].owner[i] # 0 /\ l.n \in 0 .. (c[c[f].owner[i]].size - 1)
       [] l.op = "outer" -> c[f].owner[i] > 1
       [] l.op = "exit"  -> f = 1
       [] l.op = "return" -> f # 1
       [] l.op = "env"   -> f = 1 /\ i = 1
       [] l.op = "enter" -> f # 1 /\ i = 1
       [] OTHER -> l.op \in {"scan", "if", "else", "close", "call", "pushret"}

(* Where r0 points after line i.                                           *)
OwnerAfter(c, f, i) ==
  CASE c[f].body[i].op = "scan"  -> f
    [] c[f].body[i].op = "outer" -> c[c[f].owner[i]].parent
    [] OTHER -> 0

(* The notes that a program's own text gives: the depth is the least over  *)
(* the lines that lead to a line, and r0 is known after a scan only.  They *)
(* are built line by line, for the lines lead forward only.                *)
Least(S) == CHOOSE m \in S : \A n \in S : m <= n

DepthNotes(body) ==
  LET upTo[j \in 0 .. Len(body)] ==
        IF j = 0 THEN <<>>
        ELSE LET d == upTo[j - 1]
                 before == {i \in 1 .. (j - 1) : j \in Successors(body, i)}
             IN Append(d, IF before = {} THEN 0
                          ELSE Least({d[i] + Change(body[i].op) : i \in before}))
  IN upTo[Len(body)]

OwnerNotes(c, f) ==
  LET after(o, l) ==
        CASE l.op = "scan"  -> f
          [] l.op = "outer" -> IF o = 0 THEN 0 ELSE c[o].parent
          [] OTHER -> 0
      upTo[j \in 0 .. Len(c[f].body)] ==
        IF j = 0 THEN <<>>
        ELSE LET o == upTo[j - 1]
             IN Append(o, IF j = 1 THEN 0 ELSE after(o[j - 1], c[f].body[j - 1]))
  IN upTo[Len(c[f].body)]

Annotate(c) ==
  [f \in 1 .. Len(c) |->
     [parent |-> c[f].parent, size |-> c[f].size, body |-> c[f].body,
      depth |-> DepthNotes(c[f].body), owner |-> OwnerNotes(c, f)]]

StepOK(c, f, i, j) ==
  /\ j \in 2 .. Len(c[f].body)
  /\ c[f].depth[j] <= c[f].depth[i] + Change(c[f].body[i].op)
  /\ c[f].owner[j] \in {0, OwnerAfter(c, f, i)}

WellFormed(c) ==
  /\ Len(c) \in Nat \ {0}
  /\ c[1].parent = 0
  /\ \A f \in 2 .. Len(c) : c[f].parent \in 1 .. (f - 1)
  /\ \A f \in 1 .. Len(c) :
       /\ c[f].size \in Nat
       /\ Len(c[f].body) \in Nat \ {0}
       /\ c[f].body[1].op = IF f = 1 THEN "env" ELSE "enter"
       /\ c[f].depth[1] = 0 /\ c[f].owner[1] = 0
       /\ \A i \in 1 .. Len(c[f].body) :
            /\ c[f].depth[i] \in Nat /\ c[f].owner[i] \in 0 .. Len(c)
            /\ c[f].body[i].op \in PopOps => c[f].depth[i] >= 1
            /\ OperandsOK(c, f, i)
            /\ \A j \in Successors(c[f].body, i) : StepOK(c, f, i, j)

=============================================================================
