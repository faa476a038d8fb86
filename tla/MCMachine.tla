----------------------------- MODULE MCMachine -----------------------------
(***************************************************************************)
(* The machine running compiled programs as lispc prints them, and single  *)
(* calls of every primitive procedure.                                     *)
(***************************************************************************)
EXTENDS Implementation, CodeSamples, TLC

(* (p x y) for the primitive p at address n and one-word operands.         *)
Primitive(n, x, y) == <<Main(Get(0, n) \o y \o x \o Call(2))>>

Extremes == {IntMin, -7, -1, 0, 1, 2, IntMax}

PrimitiveCalls ==
  {Primitive(n, Number(a), Number(b)) : n \in 0 .. 17, a \in Extremes, b \in Extremes}
    \cup {Primitive(n, x, y) : n \in 0 .. 17,
            x \in {Text("a"), Get(0, 0)}, y \in {Text("a"), Text("b"), Number(0)}}

MCPrimitives == {Annotate(c) : c \in PrimitiveCalls}

MCPrograms == {Annotate(c) : c \in {Fibonacci, Counters, Runaway}}

MCAddresses == {100, -3}
MCTexts == STRING
MCDecimal(n) == ToString(n)

=============================================================================
