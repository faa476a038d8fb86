----------------------------- MODULE Evaluator -----------------------------
(***************************************************************************)
(* The meaning of a program under the environment model of evaluation that *)
(* the repository's README names as its guide: frames that bind variables  *)
(* and point to the frame around them, and procedures that are pairs of    *)
(* code and a frame.  The evaluator knows nothing of stacks, addresses or  *)
(* generated code.                                                         *)
(*                                                                         *)
(* Where the language leaves something open it follows lispc: operands are *)
(* evaluated from the last to the first, null is 0, everything but 0 is    *)
(* true, the value of a body is that of its last expression that has one,  *)
(* and 0 if none has, an operand too many is ignored, one that is missing  *)
(* is the last one that any call had in its place, and print has the value *)
(* of the call that returned before it.  An expression has any number of   *)
(* values: a definition has none, a begin has those of all of its          *)
(* expressions.  A call takes as many of the values of its operator and    *)
(* operands as it has operands, from the last one on, and calls the value  *)
(* in front of these; other forms take the last value.  What is not taken  *)
(* stays in front of the value that the expression itself has.             *)
(*                                                                         *)
(* A program has a meaning unless it comes across an error: a call or form *)
(* whose operands have too few values, a value of the wrong type, a        *)
(* variable without a value, an integer out of range, more calls within    *)
(* calls than MaxNesting, or more operands or parameters than MaxOperands. *)
(***************************************************************************)
EXTENDS Integers, FiniteSets, SequencesExt, TLC, Syntax

CONSTANTS LongLongs, Decimals(_), MaxNesting, MaxOperands

IntValue(n) == [t |-> "int", n |-> n]
StrValue(s) == [t |-> "str", s |-> s]
NoValue     == [t |-> "none"]      \* of a variable that is yet to be defined
Nothing     == [t |-> "nothing"]   \* what print returns if nothing did before it
Closure(x, e) ==
  [t |-> "closure", params |-> [i \in 1 .. Length(x.items[2]) |-> x.items[2].items[i].identifier],
   body |-> Tail(Tail(x.items)), frame |-> e]

Truth(b) == IntValue(IF b THEN 1 ELSE 0)
IsTrue(v) == v # IntValue(0)

(* The world: the frames so far, what was printed, the operands that calls *)
(* have left in each place, what the last call returned, how many calls    *)
(* are nested, whether no error has been met, and whether the error was a  *)
(* call with too many operands.  Evaluation gives values and a new world.  *)
Result(vs, w) == [values |-> vs, world |-> w]
Wrong(w) == Result(<<>>, [w EXCEPT !.ok = FALSE])
TooMany(w) == Result(<<>>, [w EXCEPT !.ok = FALSE, !.excess = TRUE])

Arithmetic ==
  {"+", "-", "*", "/", "remainder", "=", "eq?", ">", ">=", "<", "<="}

Magnitude(n) == IF n < 0 THEN -n ELSE n
Sign(a, b) == IF (a < 0) = (b < 0) THEN 1 ELSE -1

Compute(p, a, b) ==
  CASE p = "+" -> IntValue(a + b)
    [] p = "-" -> IntValue(a - b)
    [] p = "*" -> IntValue(a * b)
    [] p = "/" -> IntValue(Sign(a, b) * (Magnitude(a) \div Magnitude(b)))
    [] p = "remainder" ->
         IntValue((IF a < 0 THEN -1 ELSE 1) * (Magnitude(a) % Magnitude(b)))
    [] p \in {"=", "eq?"} -> Truth(a = b)
    [] p = ">"  -> Truth(a > b)
    [] p = ">=" -> Truth(a >= b)
    [] p = "<"  -> Truth(a < b)
    [] p = "<=" -> Truth(a <= b)

AllOf(vs, t) == \A i \in 1 .. Len(vs) : vs[i].t = t

(* The first n operands of a call.                                         *)
Operands(n, w) ==
  [i \in 1 .. n |-> IF i <= Len(w.left) THEN w.left[i] ELSE Nothing]

Arity(p) == IF p \in {"not", "null?", "int->string", "print"} THEN 1 ELSE 2

ApplyPrimitive(p, vs, w) ==
  CASE Nothing \in Range(vs) -> Wrong(w)
    [] p \in Arithmetic /\ AllOf(vs, "int") ->
         IF p \in {"/", "remainder"} /\ vs[2].n = 0 THEN Wrong(w)
         ELSE LET v == Compute(p, vs[1].n, vs[2].n)
              IN IF v.n \in LongLongs THEN Result(<<v>>, w) ELSE Wrong(w)
    [] p \in {"not", "null?"} -> Result(<<Truth(~IsTrue(vs[1]))>>, w)
    [] p = "or"  -> Result(<<Truth(IsTrue(vs[1]) \/ IsTrue(vs[2]))>>, w)
    [] p = "and" -> Result(<<Truth(IsTrue(vs[1]) /\ IsTrue(vs[2]))>>, w)
    [] p = "string=?" /\ AllOf(vs, "str") -> Result(<<Truth(vs[1] = vs[2])>>, w)
    [] p = "int->string" /\ AllOf(vs, "int") -> Result(<<StrValue(Decimals(vs[1].n))>>, w)
    [] p = "print" /\ AllOf(vs, "str") ->
         Result(<<w.last>>, [w EXCEPT !.out = Append(@, vs[1].s)])
    [] OTHER -> Wrong(w)

PrimitiveNames ==
  Arithmetic \cup {"not", "null?", "or", "and", "string=?", "int->string", "print"}

(* The variables that x defines in the frame it is evaluated in.           *)
RECURSIVE DefinedBy(_)
DefinedBy(x) ==
  CASE Kind(x) = "define" -> {x.items[2].identifier} \cup DefinedBy(x.items[3])
    [] Kind(x) \in {"set!", "if", "begin", "application"} ->
         UNION {DefinedBy(x.items[i]) : i \in 1 .. Len(x.items)}
    [] OTHER -> {}

(* The frame, from e outwards, that binds var; 0 if there is none.         *)
RECURSIVE FrameOf(_, _, _)
FrameOf(var, e, w) ==
  IF e = 0 \/ var \in DOMAIN w.frames[e].vars THEN e
  ELSE FrameOf(var, w.frames[e].outer, w)

SetVar(var, e, v, w) == [w EXCEPT !.frames[e].vars[var] = v]

RECURSIVE Eval(_, _, _), EvalEach(_, _, _), ApplyTo(_, _)

(* All values of xs, in order.                                             *)
EvalEach(xs, e, w) ==
  IF xs = <<>> THEN Result(<<>>, w)
  ELSE LET first == Eval(Head(xs), e, w)
           rest == EvalEach(Tail(xs), e, first.world)
       IN Result(first.values \o rest.values, rest.world)

ApplyTo(f, w) ==
  CASE f.t = "prim" -> ApplyPrimitive(f.name, Operands(Arity(f.name), w), w)
    [] f.t = "closure" /\ w.nesting < MaxNesting ->
         LET scanned == UNION {DefinedBy(f.body[i]) : i \in 1 .. Len(f.body)}
             operands == Operands(Len(f.params), w)
             places(v) == {i \in 1 .. Len(f.params) : f.params[i] = v}
             frame == [outer |-> f.frame,
                       vars |-> [v \in Range(f.params) \cup scanned |->
                                   IF places(v) = {} THEN NoValue ELSE operands[Max(places(v))]]]
             body == EvalEach(f.body, Len(w.frames) + 1,
                              [w EXCEPT !.frames = Append(@, frame), !.nesting = @ + 1])
         IN IF Len(f.params) > MaxOperands THEN TooMany(w)
            ELSE Result(<<Last(<<IntValue(0)>> \o body.values)>>,
                        [body.world EXCEPT !.nesting = w.nesting])
    [] OTHER -> Wrong(w)

(* A call with n operands, of which vs are the values, and those of the    *)
(* operator in front.                                                      *)
Call(n, vs, w) ==
  LET given == Reverse(SubSeq(vs, Len(vs) - n + 1, Len(vs)))
      kept == SubSeq(w.left, n + 1, Len(w.left))
      call == ApplyTo(vs[Len(vs) - n], [w EXCEPT !.left = given \o kept])
  IN IF Len(vs) <= n \/ ~w.ok THEN Wrong(w)
     ELSE IF n > MaxOperands THEN TooMany(w)
     ELSE IF ~call.world.ok THEN call
     ELSE Result(SubSeq(vs, 1, Len(vs) - n - 1) \o call.values,
                 [call.world EXCEPT !.last = Last(call.values)])

Eval(x, e, w) ==
  CASE ~w.ok -> Wrong(w)
    [] w.ok /\ Kind(x) = "null"    -> Result(<<IntValue(0)>>, w)
    [] w.ok /\ Kind(x) = "integer" -> Result(<<IntValue(x.integer)>>, w)
    [] w.ok /\ Kind(x) = "string"  -> Result(<<StrValue(x.string)>>, w)
    [] w.ok /\ Kind(x) = "lambda"  -> Result(<<Closure(x, e)>>, w)
    [] w.ok /\ Kind(x) = "identifier" ->
         LET f == FrameOf(x.identifier, e, w)
         IN IF f = 0 THEN Wrong(w)
            ELSE IF w.frames[f].vars[x.identifier] = NoValue THEN Wrong(w)
            ELSE Result(<<w.frames[f].vars[x.identifier]>>, w)
    [] w.ok /\ Kind(x) \in {"define", "set!"} ->
         LET v == Eval(x.items[3], e, w)
             var == x.items[2].identifier
             f == IF Kind(x) = "define" THEN e ELSE FrameOf(var, e, w)
         IN IF v.values = <<>> \/ f = 0 THEN Wrong(v.world)
            ELSE Result(Front(v.values), SetVar(var, f, Last(v.values), v.world))
    [] w.ok /\ Kind(x) = "if" ->
         LET p == Eval(x.items[2], e, w)
             chosen == IF IsTrue(Last(p.values)) THEN SubSeq(x.items, 3, 3)
                       ELSE SubSeq(x.items, 4, IF Length(x) > 3 THEN 4 ELSE 3)
             branch == EvalEach(chosen, e, p.world)
         IN IF p.values = <<>> \/ Last(p.values) = Nothing THEN Wrong(p.world)
            ELSE Result(Front(p.values) \o branch.values, branch.world)
    [] w.ok /\ Kind(x) = "begin" -> EvalEach(Tail(x.items), e, w)
    [] w.ok /\ Kind(x) = "application" ->
         LET vs == EvalEach(<<Head(x.items)>> \o Reverse(Tail(x.items)), e, w)
         IN Call(Length(x) - 1, vs.values, vs.world)
    [] OTHER -> Wrong(w)

GlobalFrame ==
  [outer |-> 0, vars |-> [p \in PrimitiveNames |-> [t |-> "prim", name |-> p]]]

Meaning(program) == Eval(program, 1,
  [frames |-> <<GlobalFrame>>, out |-> <<>>, left |-> <<>>, last |-> Nothing,
    nesting |-> 0, ok |-> TRUE, excess |-> FALSE])

=============================================================================
